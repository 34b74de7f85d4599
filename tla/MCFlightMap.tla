---------------------------- MODULE MCFlightMap ----------------------------
(***************************************************************************)
(* An instance of FlightMap for TLC.                                       *)
(***************************************************************************)
EXTENDS FlightMap, SequencesExt, TLC

CONSTANTS n1, n2

P(lat, lng) == [lat |-> lat, lng |-> lng]

\* Both ways across the antimeridian and from the border itself, and a leg of
\* exactly half the globe.
BothWays == {P(0, -120), P(30, 60), P(60, 180)}

\* All routes of three of them, those that say a waypoint twice in a row among
\* them, one too short, and one with a waypoint that has no position.
ShortRoutes ==
  [1 .. 3 -> BothWays] \cup {<< P(0, -120) >>, << P(0, -120), NoPosition, P(60, 180) >>}

-----------------------------------------------------------------------------
(* The loop of the code, which takes one point after the other.            *)

\* One more point: it continues the current segment or, across the border, ends
\* it and begins the next.
Extended(split, p) ==
  LET a == split.last
  IN  IF crossesAntimeridian(a, p)
        THEN [segments |-> Append(split.segments,
                             Append(split.current, interpolateAntimeridianPoint(a, p, Side(a)))),
              current |-> <<interpolateAntimeridianPoint(a, p, Side(p)), Drawn(p)>>,
              last |-> p]
        ELSE [split EXCEPT !.current = Append(@, Drawn(p)), !.last = p]

SplitOneByOne(points) ==
  LET start == [segments |-> << >>, current |-> <<Drawn(points[1])>>, last |-> points[1]]
      split == FoldLeft(Extended, start, Tail(points))
  IN  Append(split.segments, split.current)

\* Routes of up to four of these, for this comparison only.
LongRoutes == UNION {[1 .. n -> {P(0, -180), P(0, -120), P(30, 60), P(60, 180)}] : n \in 2 .. 4}

\* splitRouteAtAntimeridian makes the segments of the loop, in the same order.
ASSUME SplitsAlike ==
  \A route \in LongRoutes :
    LET points == normalizeRoutePoints(route)
        segments == splitRouteAtAntimeridian(route)
        starts == SetToSortSeq(DOMAIN segments, <)
    IN  [i \in DOMAIN starts |-> segments[starts[i]]] =
          IF Len(points) < 2 THEN << >> ELSE SplitOneByOne(points)
-----------------------------------------------------------------------------
\* The routes of this instance are such as LayersOwned is true of.
ASSUME RoutesAvoidBorderLegs == NoLegOnBorder

Symmetry == Permutations(Names)
=============================================================================

----------------------------- MODULE FlightMap -----------------------------
(***************************************************************************)
(* The routes and paths of the map (static/js/map/flight-map.mjs): one     *)
(* route, drawn leg by leg, and paths by name, drawn whole but for a break *)
(* where they cross the antimeridian.  All their lines are layers of one   *)
(* Leaflet group; the map remembers which are whose, and what it does not  *)
(* remember it can never take away.                                        *)
(*                                                                         *)
(* Coordinates are degrees in whole numbers.  A latitude is a fraction     *)
(* <<numerator, denominator>>; one with denominator 0 is NaN, which        *)
(* Leaflet refuses.  Colours and the view are left out.                    *)
(***************************************************************************)
EXTENDS Integers, Sequences, FiniteSets, Functions, FiniteSetsExt

CONSTANTS
  Waypoints,   \* waypoints with a valid position: [lat : -90..90, lng : -180..180]
  NoPosition,  \* a waypoint without one
  Routes,      \* bound: the routes that are asked for, sequences of these
  Names        \* names of paths

ASSUME FlightMapAssumption ==
  /\ \A p \in Waypoints : p.lat \in -90 .. 90 /\ p.lng \in -180 .. 180
  /\ NoPosition \notin Waypoints
  /\ Routes \subseteq Seq(Waypoints \cup {NoPosition})

VARIABLES
  routeLayerGroup,   \* the layers on the map
  routePolylines,    \* those of the route
  namedRouteLayers,  \* those of the paths, by name and by the waypoint they begin with
  given              \* [Names -> Seq(waypoint)]: what each path was drawn from (history)

mapVars == <<routeLayerGroup, routePolylines, namedRouteLayers, given>>

MapInit ==
  /\ routeLayerGroup = {}
  /\ routePolylines = {}
  /\ namedRouteLayers = [n \in Names |-> << >>]
  /\ given = [n \in Names |-> << >>]
-----------------------------------------------------------------------------
(* Geometry.                                                               *)

\* Waypoints without a position are dropped, and so is one where the last one is.
Kept(kept, p) ==
  IF p = NoPosition \/ (kept # << >> /\ kept[Len(kept)] = p) THEN kept ELSE Append(kept, p)

normalizeRoutePoints(route) ==
  LET kept[i \in 0 .. Len(route)] == IF i = 0 THEN << >> ELSE Kept(kept[i - 1], route[i])
  IN  kept[Len(route)]

\* What would be split that counts only one way round.
crossesEastward(a, b) == a.lng - b.lng > 180

crossesAntimeridian(a, b) == b.lng - a.lng \notin -180 .. 180

\* Points of a line.
Drawn(p) == [lat |-> <<p.lat, 1>>, lng |-> p.lng]

\* The longitude of b as it continues from a.
Unwrapped(a, b) ==
  CASE a.lng > 0 /\ b.lng < 0 -> b.lng + 360
    [] a.lng < 0 /\ b.lng > 0 -> b.lng - 360
    [] OTHER -> b.lng

\* The point at latitude a.lat + (b.lat - a.lat) * ratio, ratio = part / whole.
At(a, b, part, whole, lng) ==
  [lat |-> <<a.lat * whole + (b.lat - a.lat) * part, whole>>, lng |-> lng]

\* What the point would be if only b, and not the border, were unwrapped.
interpolateHalfUnwrapped(a, b, lng) ==
  At(a, b, lng - a.lng, Unwrapped(a, b) - a.lng, lng)

\* Where the line from a to b meets the border, seen from a: at 180 if a is
\* in the east, at -180 if it is in the west, whichever of them lng names.
interpolateAntimeridianPoint(a, b, lng) ==
  LET border == IF a.lng < 0 THEN -180 ELSE 180
  IN  At(a, b, border - a.lng, Unwrapped(a, b) - a.lng, lng)

\* The end of the border on p's side.
Side(p) == IF p.lng < 0 THEN -180 ELSE 180

\* The points a segment begins with: the first, and each across the border.
Starts(points) ==
  {1} \cup {i \in 2 .. Len(points) : crossesAntimeridian(points[i - 1], points[i])}

\* The segment that begins with point i: it comes from the border, unless the
\* route begins there, and goes up to the border, unless the route ends there.
Segment(points, i) ==
  LET later == {j \in Starts(points) : j > i}
      last == IF later = {} THEN Len(points) ELSE Min(later) - 1
      before == IF i = 1 THEN 1 ELSE i - 1
      after == IF later = {} THEN last ELSE last + 1
      at(m) ==
        CASE m < i -> interpolateAntimeridianPoint(points[m], points[i], Side(points[i]))
          [] m > last -> interpolateAntimeridianPoint(points[last], points[m], Side(points[last]))
          [] OTHER -> Drawn(points[m])
  IN  [k \in 1 .. after - before + 1 |-> at(before + k - 1)]

splitRouteAtAntimeridian(route) ==
  LET points == normalizeRoutePoints(route)
  IN  IF Len(points) < 2 THEN << >> ELSE [i \in Starts(points) |-> Segment(points, i)]

\* What becomes of each route, worked out once.
Points == [route \in Routes |-> normalizeRoutePoints(route)]
Segments == [route \in Routes |-> splitRouteAtAntimeridian(route)]

\* Leaflet makes no line of these points.
Refused(line) == \E i \in DOMAIN line : line[i].lat[2] = 0
-----------------------------------------------------------------------------
(* Layers.                                                                 *)

\* New layers with these lines, none of them one that is on the map already.
Polylines(lines, group) ==
  LET used == {layer.id : layer \in group}
      free == (1 .. Cardinality(used) + Cardinality(DOMAIN lines)) \ used
      id == CHOOSE f \in Injection(DOMAIN lines, free) : TRUE
  IN  [i \in DOMAIN lines |-> [id |-> id[i], line |-> lines[i]]]

Layers(n) == Range(namedRouteLayers[n])

ClearRoute ==
  /\ routeLayerGroup' = routeLayerGroup \ (routePolylines \cup UNION {Layers(n) : n \in Names})
  /\ routePolylines' = {}
  /\ namedRouteLayers' = [n \in Names |-> << >>]
  /\ given' = [n \in Names |-> << >>]

\* The legs of a route that stay on one side of the border.
Legs(points) ==
  [i \in {i \in 1 .. Len(points) - 1 : ~crossesAntimeridian(points[i], points[i + 1])} |->
     <<Drawn(points[i]), Drawn(points[i + 1])>>]

\* addRoute: everything is cleared first, the paths too.
AddRoute(route) ==
  LET others == routeLayerGroup \ (routePolylines \cup UNION {Layers(n) : n \in Names})
      layers == Range(Polylines(Legs(Points[route]), others))
  IN  /\ Len(route) >= 2
      /\ routePolylines' = layers
      /\ routeLayerGroup' = others \cup layers
      /\ namedRouteLayers' = [n \in Names |-> << >>]
      /\ given' = [n \in Names |-> << >>]

\* addPath draws the segments one by one; at one that Leaflet refuses it is left
\* by an exception, and the lines drawn so far belong to no path.
Draw(n, route, others) ==
  LET segments == Segments[route]
      refused == {i \in DOMAIN segments : Refused(segments[i])}
      drawn == {i \in DOMAIN segments : \A j \in refused : i < j}
      layers == Polylines([i \in drawn |-> segments[i]], others)
      whole == refused = {} /\ segments # << >>
  IN  /\ routeLayerGroup' = others \cup Range(layers)
      /\ namedRouteLayers' = [namedRouteLayers EXCEPT ![n] = IF whole THEN layers ELSE << >>]
      /\ given' = [given EXCEPT ![n] = IF whole THEN Points[route] ELSE << >>]
      /\ UNCHANGED routePolylines

\* What adding a path would be that does not clear the one of that name.
AddPathOver(n, route) == Len(route) >= 2 /\ Draw(n, route, routeLayerGroup)

AddPath(n, route) == Len(route) >= 2 /\ Draw(n, route, routeLayerGroup \ Layers(n))

ClearPath(n) ==
  /\ namedRouteLayers[n] # << >>
  /\ routeLayerGroup' = routeLayerGroup \ Layers(n)
  /\ namedRouteLayers' = [namedRouteLayers EXCEPT ![n] = << >>]
  /\ given' = [given EXCEPT ![n] = << >>]
  /\ UNCHANGED routePolylines

MapNext ==
  \/ ClearRoute
  \/ \E route \in Routes : AddRoute(route) \/ \E n \in Names : AddPath(n, route)
  \/ \E n \in Names : ClearPath(n)

MapSpec == MapInit /\ [][MapNext]_mapVars
-----------------------------------------------------------------------------
(* Properties.                                                             *)

\* Every layer on the map belongs to the route or to one path, and all of theirs
\* are on the map: whatever is added over whatever, nothing is left behind that
\* no later call can remove, and nothing is removed with what it is not part of.
LayersOwned ==
  /\ routeLayerGroup = routePolylines \cup UNION {Layers(n) : n \in Names}
  /\ \A n \in Names : Layers(n) \cap routePolylines = {}
  /\ \A m, n \in Names : m # n => Layers(m) \cap Layers(n) = {}

\* No route has a leg from +180 to -180 or back, where interpolation divides by
\* zero (flight-map.mjs:137): LayersOwned is true only of such routes.
NoLegOnBorder ==
  \A route \in Routes : \A k \in 1 .. Len(Points[route]) - 1 :
    {Points[route][k].lng, Points[route][k + 1].lng} # {-180, 180}

\* No line on the map goes round the globe the long way between two of its
\* points that follow each other: those are no further apart than half of it.
\* A line as a whole may well be longer.
LinesStayShort ==
  \A layer \in routeLayerGroup : \A i \in 1 .. Len(layer.line) - 1 :
    layer.line[i + 1].lng - layer.line[i].lng \in -180 .. 180

SameLatitude(x, y) == x[1] * y[2] = y[1] * x[2]

OnBorder(x) == x.lng \in {-180, 180}

\* Where the line s is left off at the border, t goes on at its other side, at
\* the same latitude.
Meets(s, t) ==
  LET out == s[Len(s)]  in == t[1]
  IN  OnBorder(out) /\ in.lng = -out.lng /\ SameLatitude(out.lat, in.lat)

\* The leg from a to b is on one of the lines, or on two that meet at the border.
LegShown(lines, a, b) ==
  \/ \E s \in lines : \E m \in 1 .. Len(s) - 1 : s[m] = Drawn(a) /\ s[m + 1] = Drawn(b)
  \/ \E s, t \in lines :
       /\ Meets(s, t)
       /\ Len(s) > 1 /\ s[Len(s) - 1] = Drawn(a)
       /\ Len(t) > 1 /\ t[2] = Drawn(b)

\* The piece of a line from x to y is the leg from a to b, or its part on this
\* side of the border or on that.
OfLeg(x, y, a, b) ==
  \/ x = Drawn(a) /\ y = Drawn(b)
  \/ crossesAntimeridian(a, b) /\ (x = Drawn(a) \/ OnBorder(x)) /\ (y = Drawn(b) \/ OnBorder(y))

\* A path shows all the legs between the waypoints it was given and no others:
\* where it crosses the antimeridian it leaves the map on one side and comes in
\* on the other at the same height, in both directions and from the border itself.
PathsAreWhole ==
  \A n \in Names : namedRouteLayers[n] # << >> =>
    LET lines == {layer.line : layer \in Layers(n)}
        points == given[n]
    IN  /\ \A k \in 1 .. Len(points) - 1 : LegShown(lines, points[k], points[k + 1])
        /\ \A s \in lines : \A m \in 1 .. Len(s) - 1 :
             \E k \in 1 .. Len(points) - 1 : OfLeg(s[m], s[m + 1], points[k], points[k + 1])
=============================================================================

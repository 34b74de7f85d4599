---------------------------- MODULE FlightTrail ----------------------------
(***************************************************************************)
(* What the flights refresh promises about a flight's past positions,      *)
(* without runs, sessions or Redis: a position that is replaced by a newer *)
(* one of the same flight is in the flight's trail by then.  It may have   *)
(* been recorded more than once (a refresh that failed after recording is  *)
(* repeated), never not at all.                                            *)
(***************************************************************************)
EXTENDS History

CONSTANTS
  Flights,      \* flight ids
  Servers,      \* what a snapshot is kept for
  ServerOf,     \* [Flights -> Servers]
  Times,        \* refresh times
  Cap,          \* positions a trail keeps
  None          \* not shown

VARIABLES
  shown,        \* [Flights -> Times \cup {None}]: the position now shown
  trail         \* [Flights -> Seq(Times)]: the positions it replaced

vars == <<shown, trail>>

Init ==
  /\ shown = [f \in Flights |-> None]
  /\ trail = [f \in Flights |-> << >>]

\* The position now shown is added to the trail.
Record(f) ==
  /\ shown[f] # None
  /\ trail' = [trail EXCEPT ![f] = NextHistory(@, shown[f], Cap)]
  /\ UNCHANGED shown

Recorded(f) ==
  trail[f] # << >> /\ trail[f][Len(trail[f])] = shown[f]

\* The flights of one server are replaced by those a refresh at t found.  Those
\* that stay have their old position recorded; those that left are gone.
Show(server, found, t) ==
  /\ \A f \in found : ServerOf[f] = server
  /\ \A f \in Flights :
       ServerOf[f] = server /\ shown[f] # None =>
         shown[f] <= t /\ (f \in found => Recorded(f))
  /\ shown' = [f \in Flights |-> IF ServerOf[f] # server THEN shown[f]
                                 ELSE IF f \in found THEN t ELSE None]
  /\ UNCHANGED trail

\* Whatever was not written for the time to live is forgotten.
Forget ==
  /\ \E lost \in SUBSET Flights :
       shown' = [f \in Flights |-> IF f \in lost THEN None ELSE shown[f]]
  /\ \E lost \in SUBSET Flights :
       trail' = [f \in Flights |-> IF f \in lost THEN << >> ELSE trail[f]]

Next ==
  \/ \E f \in Flights : Record(f)
  \/ \E server \in Servers, found \in SUBSET Flights, t \in Times :
       Show(server, found, t)
  \/ Forget

Spec == Init /\ [][Next]_vars
=============================================================================

-------------------------- MODULE FlightsJobTrail --------------------------
(***************************************************************************)
(* FlightsJob as an implementation of FlightTrail: what Redis, and the run *)
(* under way, hold of the positions that are shown and of the trails.      *)
(***************************************************************************)
EXTENDS FlightsJob

CONSTANT None  \* no position

ASSUME FlightsJobTrailAssumption ==
  /\ None \notin Time
  /\ Missing \notin Snapshot \cup StoredHistory

ServerOfFlight == [f \in Flights |-> Server(f)]

\* The abstract trail's view of Redis.  A value that expires after the run has
\* read it counts as there until the run writes its successor or gives up.
HeldPosition(f) == {r \in runs : r.prior # Missing /\ f \in r.prior.flights}
HeldTrail(f) == {r \in runs : r.pc = "store" /\ r.flight = f}

ShownPosition ==
  [f \in Flights |->
     IF Shown(f) THEN snapshots[Server(f)].at
     ELSE IF HeldPosition(f) = {} THEN None
     ELSE (CHOOSE r \in HeldPosition(f) : TRUE).prior.at]

StoredTrail ==
  [f \in Flights |->
     IF histories[f] # Missing THEN histories[f].trail
     ELSE IF HeldTrail(f) = {} THEN << >>
     ELSE (CHOOSE r \in HeldTrail(f) : TRUE).loaded]

Abstract == INSTANCE FlightTrail
  WITH Servers <- Names, ServerOf <- ServerOfFlight, Times <- Time,
       Cap <- MaxHistory, shown <- ShownPosition, trail <- StoredTrail

\* A position is in the flight's history by the time a newer one replaces it,
\* as long as reads succeed and histories are stored: crashes and failed
\* snapshot writes only make the job record it again (job.go:96-119).
ImplementsTrail == Abstract!Spec
=============================================================================

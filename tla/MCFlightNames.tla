--------------------------- MODULE MCFlightNames ---------------------------
(***************************************************************************)
(* An instance of FlightNames for TLC: a flight that changes its livery,   *)
(* and one that has none or one of these.                                  *)
(***************************************************************************)
EXTENDS FlightNames

CONSTANTS f1, f2, l1, l2

MayHave == [f \in Flights |-> IF f = f1 THEN {l1, l2} ELSE {l2, NoLivery}]
=============================================================================

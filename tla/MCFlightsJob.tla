---------------------------- MODULE MCFlightsJob ----------------------------
(***************************************************************************)
(* Instances of FlightsJob for TLC: one server with two flights, a flight *)
(* without an id and a session without a name; and two sessions that share *)
(* their name, with a flight each, and a session without an id.            *)
(***************************************************************************)
EXTENDS FlightsJobTrail

CONSTANTS f1, f2, s1, s2, s3, n1

OneSession == [f \in Flights |-> s1]
OneName == [s \in Sessions |-> IF s = s2 THEN NoName ELSE n1]

OneSessionEach == [f \in Flights |-> IF f = f1 THEN s1 ELSE s2]
SharedName == [s \in Sessions |-> n1]
=============================================================================

------------------------ MODULE MCActiveFlightsPage ------------------------
(***************************************************************************)
(* An instance of ActiveFlightsPage for TLC: two servers, a text and none, *)
(* and two loads at once.                                                  *)
(***************************************************************************)
EXTENDS ActiveFlightsPage

CONSTANTS casual, expert, text, x1, x2
=============================================================================

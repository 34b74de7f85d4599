--------------------------- MODULE MCSessionReads ---------------------------
(***************************************************************************)
(* An instance of SessionReads for TLC: two sessions with a name each, and *)
(* a reader.                                                               *)
(***************************************************************************)
EXTENDS SessionReads, TLC

CONSTANTS s1, s2, n1, n2, v1

OwnName == [s \in Sessions |-> IF s = s1 THEN n1 ELSE n2]

\* Which session is which makes no difference, if its name goes with it.
Symmetry ==
  {[x \in Sessions \cup Names |-> x],
   s1 :> s2 @@ s2 :> s1 @@ n1 :> n2 @@ n2 :> n1}
=============================================================================

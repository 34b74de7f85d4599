--------------------------- MODULE MCSignedLogin ---------------------------
(***************************************************************************)
(* An instance of SignedLogin for TLC: two links, and two requests under   *)
(* way from a browser each.                                                *)
(***************************************************************************)
EXTENDS SignedLogin, TLC

CONSTANTS l1, l2, s1, s2, b1, b2, q1, q2

BrowserEach == q1 :> b1 @@ q2 :> b2

\* Links differ by name only, and so do sessions.
Symmetry == Permutations(Links) \cup Permutations(Sessions)
=============================================================================

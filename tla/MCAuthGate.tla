----------------------------- MODULE MCAuthGate -----------------------------
(***************************************************************************)
(* An instance of AuthGate for TLC: two requests under way at once, with   *)
(* what cookies and keys a route may see.                                  *)
(***************************************************************************)
EXTENDS AuthGate, TLC

CONSTANTS q1, q2

Plain(route, cookie, key) ==
  [route |-> route, cookie |-> cookie, key |-> key, preflight |-> FALSE, origin |-> ""]

Preflights ==
  {[Plain("open", FALSE, FALSE) EXCEPT !.preflight = TRUE, !.origin = origin] :
     origin \in {"https://ours.example", "https://other.example"}}

AllCalls ==
  {Plain("open", FALSE, FALSE)}
    \cup {Plain("page", cookie, FALSE) : cookie \in BOOLEAN}
    \cup {Plain("game", cookie, key) : cookie, key \in BOOLEAN}
    \cup {Plain("link", ~key, key) : key \in BOOLEAN}
    \cup Preflights

\* Requests differ by name only.
Symmetry == Permutations(Requests)
=============================================================================

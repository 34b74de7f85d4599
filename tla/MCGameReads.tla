---------------------------- MODULE MCGameReads ----------------------------
(***************************************************************************)
(* Instances of GameReads for TLC: one server with its session and a       *)
(* flight, perhaps without an id.                                          *)
(***************************************************************************)
EXTENDS GameReads

CONSTANTS f1, s1, n1, q1

OneSession == [f \in Flights |-> s1]
OneName == [s \in Sessions |-> n1]

\* What ListsAreFresh is said for.
ASSUME InstanceRefreshes == RefreshesSucceed

\* What tells states apart: neither the metrics nor the histories decide what
\* a step may do or what a request is answered, and that a server returned or
\* the process came up excuses nothing once it is long ago.
Since(t, ticks) == IF t # Missing /\ now <= t + ticks THEN t ELSE Missing

WithoutPast(value) == IF value = Missing THEN Missing ELSE [value EXCEPT !.past = << >>]

ReadView == <<now, up, {[r EXCEPT !.next = WithoutPast(@)] : r \in sessionRuns},
              WithoutPast(active), names, flightRuns, snapshots, requests, marked,
              [n \in Names |-> Since(returned[n], FreshWithin)],
              Since(restarted, Interval + FreshWithin)>>
=============================================================================

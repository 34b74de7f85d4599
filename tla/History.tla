------------------------------ MODULE History ------------------------------
(***************************************************************************)
(* Bounded histories, as both refresh jobs keep them: the newest entry is  *)
(* last, and the oldest ones are dropped once the cap is passed.  An entry *)
(* is abstracted to the time of the refresh that produced it.              *)
(***************************************************************************)
EXTENDS Naturals, Sequences

\* What a cap that is off by one would keep.
NewestAndOneMore(history, cap) ==
  IF Len(history) > cap + 1
    THEN SubSeq(history, Len(history) - cap, Len(history))
    ELSE history

\* The last cap entries of a history.
Newest(history, cap) ==
  IF Len(history) > cap
    THEN SubSeq(history, Len(history) - cap + 1, Len(history))
    ELSE history

\* What a history would be that is kept newest first.
NewestFirst(history, prior, cap) == Newest(<< prior >> \o history, cap)

\* gameflights.NextHistory: the position that is about to be replaced goes to
\* the end of the history.
NextHistory(history, prior, cap) == Newest(Append(history, prior), cap)

\* No entry is older than the one before it.
Ordered(history) ==
  \A i, j \in 1 .. Len(history) : i <= j => history[i] <= history[j]

\* No entry is newer than t.
UpTo(history, t) == \A i \in 1 .. Len(history) : history[i] <= t

\* No refresh is recorded twice.
StrictlyOrdered(history) ==
  \A i, j \in 1 .. Len(history) : i < j => history[i] < history[j]
=============================================================================

---------------------------- MODULE ApiKeyLookup ----------------------------
(***************************************************************************)
(* Whether an API key is accepted (internal/apikeys/lookup.go, for the key *)
(* branch of middleware.AuthenticateAPI): the key's row in PostgreSQL,     *)
(* read through a Redis entry that lives for a minute.  The row changes    *)
(* behind the program's back, and nothing tells the cache.  One key is     *)
(* enough: keys have rows and entries of their own.                        *)
(***************************************************************************)
EXTENDS Naturals

CONSTANTS
  Requests,         \* bound: the requests that may be under way at once
  Missing,          \* no entry
  CacheTTL,         \* cacheTTL, in ticks
  MaxRequestTicks,  \* bound: ticks a request may take
  MaxTime,          \* bound: the last tick
  Faults            \* what may go wrong

ASSUME ApiKeyLookupAssumption ==
  /\ CacheTTL \in Nat \ {0}
  /\ MaxRequestTicks \in Nat /\ MaxTime \in Nat
  /\ Faults \subseteq {"readCache", "query", "storeCache"}

VARIABLES
  now,        \* ticks since the start
  row,        \* the key's row in api_keys
  changedAt,  \* when the row last changed (history)
  entry,      \* the key's entry in Redis
  requests    \* [Requests -> Request]

vars == <<now, row, changedAt, entry, requests>>

Time == 0 .. MaxTime

Rows == {"active", "disabled", "absent"}

Entry == [status : Rows, exp : Nat]

\* Where a request is: before a step, or with its answer.
Request == [pc : {"idle", "cache", "query", "store", "accepted", "refused", "failed"},
            started : Time, status : Rows]

Idle == [pc |-> "idle", started |-> 0, status |-> "absent"]

\* found && active.
Accepts(status) == status = "active"

\* The request r has its answer.
Answered(r, status) ==
  [r EXCEPT !.pc = IF Accepts(status) THEN "accepted" ELSE "refused",
            !.status = status]

Init ==
  /\ now = 0
  /\ row \in Rows
  /\ changedAt = 0
  /\ entry = Missing
  /\ requests = [q \in Requests |-> Idle]

Become(q, r) == requests' = [requests EXCEPT ![q] = r]

Tick ==
  /\ now < MaxTime
  /\ \A q \in Requests :
       requests[q].pc # "idle" => now < requests[q].started + MaxRequestTicks
  /\ now' = now + 1
  /\ entry' = IF entry # Missing /\ entry.exp <= now + 1 THEN Missing ELSE entry
  /\ UNCHANGED <<row, changedAt, requests>>

\* Somebody creates, enables, disables or deletes the key.
ChangeRow(new) ==
  /\ new # row
  /\ row' = new
  /\ changedAt' = now
  /\ UNCHANGED <<now, entry, requests>>
-----------------------------------------------------------------------------
(* The steps of a request.                                                 *)

Send(q) ==
  /\ requests[q].pc = "idle"
  /\ Become(q, [Idle EXCEPT !.pc = "cache", !.started = now])
  /\ UNCHANGED <<now, row, changedAt, entry>>

\* What a lookup would do that prolongs the entry it finds.
ReadCacheHitProlongs(q) ==
  /\ requests[q].pc = "cache"
  /\ entry # Missing
  /\ entry' = [entry EXCEPT !.exp = now + CacheTTL]
  /\ Become(q, Answered(requests[q], entry.status))
  /\ UNCHANGED <<now, row, changedAt>>

ReadCacheHit(q) ==
  /\ requests[q].pc = "cache"
  /\ entry # Missing
  /\ Become(q, Answered(requests[q], entry.status))
  /\ UNCHANGED <<now, row, changedAt, entry>>

\* A read that fails is a miss.
ReadCacheMiss(q) ==
  /\ requests[q].pc = "cache"
  /\ entry = Missing \/ "readCache" \in Faults
  /\ Become(q, [requests[q] EXCEPT !.pc = "query"])
  /\ UNCHANGED <<now, row, changedAt, entry>>

QueryRow(q) ==
  /\ requests[q].pc = "query"
  /\ Become(q, [requests[q] EXCEPT !.pc = "store", !.status = row])
  /\ UNCHANGED <<now, row, changedAt, entry>>

QueryRowFails(q) ==
  /\ requests[q].pc = "query"
  /\ "query" \in Faults
  /\ Become(q, [requests[q] EXCEPT !.pc = "failed"])
  /\ UNCHANGED <<now, row, changedAt, entry>>

\* What a lookup would do that sets the entry without a time to live.
FillCacheForGood(q) ==
  /\ requests[q].pc = "store"
  /\ entry' = [status |-> requests[q].status, exp |-> Missing]
  /\ Become(q, Answered(requests[q], requests[q].status))
  /\ UNCHANGED <<now, row, changedAt>>

\* The entry is filled, with whatever the row was when it was read; a write
\* that fails, applied or not, changes nothing for the request.
FillCache(q) ==
  LET r == requests[q]
      filled == [status |-> r.status, exp |-> now + CacheTTL]
  IN  /\ r.pc = "store"
      /\ entry' \in IF "storeCache" \in Faults THEN {entry, filled} ELSE {filled}
      /\ Become(q, Answered(r, r.status))
      /\ UNCHANGED <<now, row, changedAt>>

Finish(q) ==
  /\ requests[q].pc \in {"accepted", "refused", "failed"}
  /\ Become(q, Idle)
  /\ UNCHANGED <<now, row, changedAt, entry>>

\* The bounded clock has run out.
Terminating ==
  /\ now = MaxTime
  /\ UNCHANGED vars

Next ==
  \/ Tick \/ Terminating
  \/ \E new \in Rows : ChangeRow(new)
  \/ \E q \in Requests :
       \/ Send(q)
       \/ ReadCacheHit(q) \/ ReadCacheMiss(q)
       \/ QueryRow(q) \/ QueryRowFails(q)
       \/ FillCache(q)
       \/ Finish(q)

Spec == Init /\ [][Next]_vars
-----------------------------------------------------------------------------
(* Properties.                                                             *)

\* Types.
TypeOK ==
  /\ now \in Time
  /\ row \in Rows
  /\ changedAt \in Time
  /\ entry \in Entry \cup {Missing}
  /\ requests \in [Requests -> Request]

\* An answer that contradicts the row is given only to a request that was sent
\* within the minute of the cache, and the time a slow request may hold on to
\* what it read, after the row changed: a revoked key stops working and a new
\* one starts to by then, though a fill that began before the change may be
\* written long after it, over what a later one found (lookup.go:54-58).
AnswersCatchUp ==
  \A q \in Requests :
    LET r == requests[q]
    IN  r.pc \in {"accepted", "refused"} /\ (r.pc = "accepted") # Accepts(row) =>
          r.started < changedAt + CacheTTL + MaxRequestTicks
=============================================================================

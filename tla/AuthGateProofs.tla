--------------------------- MODULE AuthGateProofs ---------------------------
(***************************************************************************)
(* The bound on how long a changed row goes unnoticed, for any number of   *)
(* requests, any time to live and any faults.  Whatever contradicts the    *)
(* row was read before the row changed, by a request sent before that: an  *)
(* entry that such a request fills is written at most MaxRequestTicks      *)
(* after it was sent, and lives for CacheTTL more.                         *)
(*                                                                         *)
(* The gate takes the steps of ApiKeyLookup and no others, so what holds   *)
(* of the lookup holds behind the gate too; and from that, who passes and  *)
(* who is refused, for any number of requests, any calls and any faults.   *)
(* The lookup of a request starts after the request arrives, which is why  *)
(* the bound on the age of its answer bounds the gate's decision.          *)
(***************************************************************************)
EXTENDS AuthGate, TLAPS

\* The change is past, and no request is overdue.
InTime ==
  /\ changedAt <= now
  /\ \A q \in Requests : requests[q].pc # "idle" =>
       requests[q].started <= now /\ now <= requests[q].started + MaxRequestTicks

\* An entry expires, and the sooner if it contradicts the row.
EntryExpires ==
  entry # Missing =>
    /\ entry \in Entry /\ now < entry.exp
    /\ entry.exp <= now + CacheTTL
    /\ Accepts(entry.status) # Accepts(row) =>
         entry.exp <= changedAt + MaxRequestTicks + CacheTTL

\* A request that is about to fill the entry with what contradicts the row
\* was sent before the change.
FillsFromBefore ==
  \A q \in Requests :
    requests[q].pc = "store" /\ Accepts(requests[q].status) # Accepts(row) =>
      requests[q].started <= changedAt

IInv ==
  /\ TypeOK
  /\ InTime
  /\ EntryExpires
  /\ FillsFromBefore
  /\ AnswersCatchUp
-----------------------------------------------------------------------------
(* The lookup.                                                             *)

LEMMA InitIInv == Init => IInv
  BY ApiKeyLookupAssumption
  DEF Init, IInv, TypeOK, InTime, EntryExpires, FillsFromBefore, AnswersCatchUp,
      Idle, Request, Time, Rows

\* A request that becomes r, of a kind the invariant allows, while nothing
\* else changes.
LEMMA RequestMoves ==
  ASSUME IInv, NEW q \in Requests, NEW r \in Request,
         Become(q, r), UNCHANGED <<now, row, changedAt, entry>>,
         r.pc # "idle" => r.started <= now /\ now <= r.started + MaxRequestTicks,
         r.pc = "store" /\ Accepts(r.status) # Accepts(row) => r.started <= changedAt,
         r.pc \in {"accepted", "refused"} /\ (r.pc = "accepted") # Accepts(row) =>
           r.started < changedAt + CacheTTL + MaxRequestTicks
  PROVE  IInv'
  <1>1. \A p \in Requests : requests'[p] = IF p = q THEN r ELSE requests[p]
    BY DEF IInv, TypeOK, Become
  <1>2. TypeOK'
    BY DEF IInv, TypeOK, Become
  <1>3. InTime'
    BY <1>1 DEF IInv, InTime
  <1>4. EntryExpires'
    BY DEF IInv, EntryExpires
  <1>5. FillsFromBefore'
    BY <1>1 DEF IInv, FillsFromBefore
  <1>6. AnswersCatchUp'
    BY <1>1 DEF IInv, AnswersCatchUp
  <1> QED
    BY <1>2, <1>3, <1>4, <1>5, <1>6 DEF IInv

LEMMA TickKeeps == ASSUME IInv, Tick PROVE IInv'
  <1> USE ApiKeyLookupAssumption DEF Tick, Time
  <1>1. now \in Nat /\ changedAt \in Nat /\ now' = now + 1 /\ changedAt' = changedAt
    BY DEF IInv, TypeOK
  <1>2. TypeOK'
    BY DEF IInv, TypeOK
  <1>3. InTime'
    <2>1. \A q \in Requests : requests[q].started \in Nat
      BY DEF IInv, TypeOK, Request
    <2> QED
      BY <1>1, <2>1 DEF IInv, InTime
  <1>4. EntryExpires'
    <2>1. CASE entry' = Missing
      BY <2>1 DEF EntryExpires
    <2>2. CASE entry' = entry /\ entry # Missing /\ ~(entry.exp <= now + 1)
      <3>1. entry.exp \in Nat
        BY <2>2 DEF IInv, EntryExpires, Entry
      <3> QED
        BY <1>1, <2>2, <3>1 DEF IInv, EntryExpires
    <2> QED
      BY <2>1, <2>2
  <1>5. FillsFromBefore' /\ AnswersCatchUp'
    BY DEF IInv, FillsFromBefore, AnswersCatchUp
  <1> QED
    BY <1>2, <1>3, <1>4, <1>5 DEF IInv

\* Once the row has changed, all that is known of it is from before.
LEMMA ChangeKeeps == ASSUME IInv, NEW new \in Rows, ChangeRow(new) PROVE IInv'
  <1> USE ApiKeyLookupAssumption DEF ChangeRow, Time
  <1>1. now \in Nat /\ changedAt' = now
    BY DEF IInv, TypeOK
  <1>2. \A q \in Requests : requests[q].started \in Nat
    BY DEF IInv, TypeOK, Request
  <1>3. TypeOK'
    BY DEF IInv, TypeOK
  <1>4. InTime'
    BY <1>1, <1>2 DEF IInv, InTime
  <1>5. EntryExpires'
    <2>1. entry # Missing => entry.exp \in Nat
      BY DEF IInv, EntryExpires, Entry
    <2> QED
      BY <1>1, <2>1 DEF IInv, EntryExpires
  <1>6. FillsFromBefore'
    BY <1>1, <1>2 DEF IInv, FillsFromBefore, InTime
  <1>7. AnswersCatchUp'
    BY <1>1, <1>2 DEF IInv, AnswersCatchUp, InTime
  <1> QED
    BY <1>3, <1>4, <1>5, <1>6, <1>7 DEF IInv

\* The entry is filled no later than the request that does it may last.
LEMMA FillKeeps == ASSUME IInv, NEW q \in Requests, FillCache(q) PROVE IInv'
  <1> USE ApiKeyLookupAssumption DEF FillCache, Time
  <1> DEFINE r == Answered(requests[q], requests[q].status)
             filled == [status |-> requests[q].status, exp |-> now + CacheTTL]
  <1>1. /\ requests[q] \in Request /\ requests[q].pc = "store"
        /\ requests[q].started \in Nat /\ now \in Nat /\ changedAt \in Nat
    BY DEF IInv, TypeOK, Request
  <1>2. /\ r \in Request /\ r.started = requests[q].started
        /\ r.pc = IF Accepts(requests[q].status) THEN "accepted" ELSE "refused"
    BY <1>1 DEF Answered, Request
  <1>3. filled \in Entry
    BY <1>1 DEF Entry, Request
  <1>4. /\ requests[q].started <= now /\ now <= requests[q].started + MaxRequestTicks
        /\ Accepts(requests[q].status) # Accepts(row) => requests[q].started <= changedAt
    BY <1>1 DEF IInv, InTime, FillsFromBefore
  <1>5. PICK r0 \in Request : r0 = r
    BY <1>2
  <1>6. \A p \in Requests : requests'[p] = IF p = q THEN r0 ELSE requests[p]
    BY <1>5 DEF IInv, TypeOK, Become
  <1>7. TypeOK'
    BY <1>2, <1>3 DEF IInv, TypeOK, Become
  <1>8. InTime'
    BY <1>1, <1>2, <1>4, <1>5, <1>6 DEF IInv, InTime
  <1>9. EntryExpires'
    <2>1. CASE entry' = entry
      BY <2>1 DEF IInv, EntryExpires
    <2>2. CASE entry' = filled
      <3>1. /\ entry' \in Entry /\ entry'.exp = now + CacheTTL
            /\ entry'.status = requests[q].status
        BY <1>3, <2>2
      <3> QED
        BY <1>1, <1>4, <3>1 DEF EntryExpires
    <2> QED
      BY <2>1, <2>2
  <1>10. FillsFromBefore'
    BY <1>2, <1>5, <1>6 DEF IInv, FillsFromBefore
  <1>11. AnswersCatchUp'
    <2>1. r0.pc \in {"accepted", "refused"} /\ (r0.pc = "accepted") # Accepts(row) =>
            r0.started < changedAt + CacheTTL + MaxRequestTicks
      BY <1>1, <1>2, <1>4, <1>5 DEF Accepts
    <2> QED
      BY <1>6, <2>1 DEF IInv, AnswersCatchUp
  <1> QED
    BY <1>7, <1>8, <1>9, <1>10, <1>11 DEF IInv
-----------------------------------------------------------------------------
\* The inductive invariant holds of every behaviour.
THEOREM Invariance == Spec => []IInv
  <1>1. IInv /\ [Next]_vars => IInv'
    <2> SUFFICES ASSUME IInv, [Next]_vars PROVE IInv'
      OBVIOUS
    <2> USE ApiKeyLookupAssumption
    <2>1. ASSUME UNCHANGED vars PROVE IInv'
      BY <2>1 DEF vars, IInv, TypeOK, InTime, EntryExpires, FillsFromBefore, AnswersCatchUp
    <2>2. ASSUME NEW q \in Requests,
                 \/ Send(q) \/ ReadCacheHit(q) \/ ReadCacheMiss(q)
                 \/ QueryRow(q) \/ QueryRowFails(q) \/ Finish(q)
          PROVE  IInv'
      <3>1. /\ requests[q] \in Request /\ now \in Time /\ now \in Nat /\ changedAt \in Nat
            /\ requests[q].started \in Nat /\ row \in Rows /\ 0 \in Time
        BY DEF IInv, TypeOK, Request, Time
      <3>2. Idle \in Request /\ Idle.pc = "idle"
        BY <3>1 DEF Idle, Request, Rows
      <3>3. CASE Send(q)
        <4> DEFINE r == [Idle EXCEPT !.pc = "cache", !.started = now]
        <4>1. r \in Request /\ r.pc = "cache" /\ r.started = now
          BY <3>1 DEF Idle, Request, Rows
        <4>2. r.started <= now /\ now <= r.started + MaxRequestTicks
          BY <3>1, <4>1
        <4> QED
          BY <3>3, <4>1, <4>2, RequestMoves DEF Send
      <3>4. CASE ReadCacheHit(q)
        <4> DEFINE r == Answered(requests[q], entry.status)
        <4>1. /\ entry \in Entry /\ entry.exp \in Nat /\ entry.status \in Rows
              /\ now < entry.exp
              /\ Accepts(entry.status) # Accepts(row) =>
                   entry.exp <= changedAt + MaxRequestTicks + CacheTTL
          BY <3>4 DEF ReadCacheHit, IInv, EntryExpires, Entry
        <4>2. /\ r \in Request /\ r.started = requests[q].started
              /\ r.pc = IF Accepts(entry.status) THEN "accepted" ELSE "refused"
          BY <3>1, <4>1 DEF Answered, Request
        <4>3. r.started <= now /\ now <= r.started + MaxRequestTicks
          BY <3>4, <4>2 DEF ReadCacheHit, IInv, InTime
        <4>4. r.pc \in {"accepted", "refused"} /\ (r.pc = "accepted") # Accepts(row) =>
                r.started < changedAt + CacheTTL + MaxRequestTicks
          BY <3>1, <4>1, <4>2, <4>3 DEF Accepts
        <4> QED
          BY <3>4, <4>2, <4>3, <4>4, RequestMoves DEF ReadCacheHit
      <3>5. CASE ReadCacheMiss(q)
        <4> DEFINE r == [requests[q] EXCEPT !.pc = "query"]
        <4>1. r \in Request /\ r.pc = "query" /\ r.started = requests[q].started
          BY <3>1 DEF Request
        <4>2. r.started <= now /\ now <= r.started + MaxRequestTicks
          BY <3>5, <4>1 DEF ReadCacheMiss, IInv, InTime
        <4> QED
          BY <3>5, <4>1, <4>2, RequestMoves DEF ReadCacheMiss
      <3>6. CASE QueryRow(q)
        <4> DEFINE r == [requests[q] EXCEPT !.pc = "store", !.status = row]
        <4>1. /\ r \in Request /\ r.pc = "store" /\ r.started = requests[q].started
              /\ r.status = row
          BY <3>1 DEF Request
        <4>2. r.started <= now /\ now <= r.started + MaxRequestTicks
          BY <3>6, <4>1 DEF QueryRow, IInv, InTime
        <4> QED
          BY <3>6, <4>1, <4>2, RequestMoves DEF QueryRow
      <3>7. CASE QueryRowFails(q)
        <4> DEFINE r == [requests[q] EXCEPT !.pc = "failed"]
        <4>1. r \in Request /\ r.pc = "failed" /\ r.started = requests[q].started
          BY <3>1 DEF Request
        <4>2. r.started <= now /\ now <= r.started + MaxRequestTicks
          BY <3>7, <4>1 DEF QueryRowFails, IInv, InTime
        <4> QED
          BY <3>7, <4>1, <4>2, RequestMoves DEF QueryRowFails
      <3>8. CASE Finish(q)
        BY <3>2, <3>8, RequestMoves DEF Finish
      <3> QED
        BY <2>2, <3>3, <3>4, <3>5, <3>6, <3>7, <3>8
    <2> QED
      BY <2>1, <2>2, TickKeeps, ChangeKeeps, FillKeeps DEF Next, Terminating
  <1> QED
    BY InitIInv, <1>1, PTL DEF Spec

\* Types hold.
THEOREM TypeCorrect == Spec => []TypeOK
  BY Invariance, PTL DEF IInv

\* A changed row is noticed within the life of an entry and of a request.
THEOREM ChangesAreNoticed == Spec => []AnswersCatchUp
  BY Invariance, PTL DEF IInv
-----------------------------------------------------------------------------
(* The gate.                                                               *)

\* Why the request with passage p and lookup r is where it is.
Due(p, r) ==
  /\ IF p.pc = "idle" THEN p.answer = "none" ELSE p.call \in Calls /\ p.arrived <= now
  /\ r.pc # "idle" => p.pc = "key" /\ p.call.key /\ p.arrived <= r.started
  /\ p.pc = "session" =>
       TakesSession(p.call) /\ p.call.cookie /\ (session => p.had)
  /\ p.pc = "key" =>
       TakesKey(p.call) /\ (TakesSession(p.call) /\ p.call.cookie => ~session)
  /\ p.pc = "handler" =>
       \/ p.call.route = "open"
       \/ TakesSession(p.call) /\ p.had
       \/ TakesKey(p.call) /\ p.call.key /\ RowMaySay(p, TRUE)
  /\ p.answer \in {"unauthorized", "login"} =>
       /\ TakesSession(p.call) /\ p.call.cookie => ~session
       /\ TakesKey(p.call) /\ p.call.key => RowMaySay(p, FALSE)

GateIInv ==
  /\ IInv
  /\ session \in BOOLEAN
  /\ gate \in [Requests -> Passage]
  /\ \A q \in Requests : Due(gate[q], requests[q])
-----------------------------------------------------------------------------
\* The clock, the row and the requests' beginnings are numbers of the clock.
LEMMA Numbers ==
  ASSUME GateIInv
  PROVE  /\ now \in Nat /\ changedAt \in Nat /\ changedAt <= now
         /\ now \in Time /\ CacheTTL \in Nat /\ CacheTTL > 0 /\ MaxRequestTicks \in Nat
         /\ \A q \in Requests : gate[q].arrived \in Nat /\ requests[q].started \in Nat
  BY ApiKeyLookupAssumption
  DEF GateIInv, IInv, InTime, TypeOK, Time, Passage, Request

\* What a step does to the variables of the lookup is a step of the lookup.
LEMMA StepImplements == ASSUME [GateNext]_allVars PROVE [Next]_vars
  <1>1. ASSUME UNCHANGED allVars PROVE UNCHANGED vars
    BY <1>1 DEF allVars
  <1>2. ASSUME NEW q \in Requests,
               \/ \E call \in Calls : Arrive(q, call)
               \/ ReadSession(q) \/ NoKey(q) \/ Handle(q) \/ Leave(q)
        PROVE  UNCHANGED vars
    BY <1>2 DEF Arrive, ReadSession, NoKey, Handle, Leave
  <1>3. ASSUME NEW q \in Requests, LookUpKey(q) \/ KeyAnswered(q) PROVE Next
    BY <1>3 DEF LookUpKey, KeyAnswered, Next
  <1>4. ASSUME GateTick \/ GateTerminating \/ EndSession
               \/ \E new \in Rows : GateChangeRow(new)
        PROVE  [Next]_vars
    BY <1>4 DEF GateTick, GateTerminating, EndSession, GateChangeRow, Next
  <1> QED
    BY <1>1, <1>2, <1>3, <1>4 DEF GateNext

\* A request that moves to p in the gate, with its lookup idle, while nothing
\* else changes.
LEMMA PassKeeps ==
  ASSUME GateIInv, NEW q \in Requests, NEW p \in Passage,
         Pass(q, p), UNCHANGED <<vars, session>>, Due(p, requests[q])
  PROVE  GateIInv'
  <1>1. \A o \in Requests : gate'[o] = IF o = q THEN p ELSE gate[o]
    BY DEF GateIInv, Pass
  <1>2. IInv'
    BY DEF GateIInv, vars, IInv, TypeOK, InTime, EntryExpires, FillsFromBefore,
           AnswersCatchUp
  <1>3. gate' \in [Requests -> Passage]
    BY DEF GateIInv, Pass
  <1>4. \A o \in Requests : Due(gate[o], requests[o])'
    BY <1>1 DEF GateIInv, Due, RowMaySay, vars
  <1> QED
    BY <1>2, <1>3, <1>4 DEF GateIInv

LEMMA InitGate == GateInit => GateIInv
  <1> SUFFICES ASSUME GateInit PROVE GateIInv
    OBVIOUS
  <1>1. IInv
    BY InitIInv DEF GateInit
  <1>2. Absent \in Passage
    BY ApiKeyLookupAssumption DEF Absent, Passage, Time
  <1>3. \A q \in Requests : Due(gate[q], requests[q])
    BY DEF GateInit, Init, Idle, Absent, Due
  <1> QED
    BY <1>1, <1>2, <1>3 DEF GateIInv, GateInit
-----------------------------------------------------------------------------
\* The steps of the lookup, and those of its surroundings.
LEMMA LookUpKeeps ==
  ASSUME GateIInv, IInv', NEW q \in Requests, LookUpKey(q) PROVE GateIInv'
  <1>1. /\ UNCHANGED gateVars /\ gate[q].pc = "key" /\ gate[q].call.key
        /\ UNCHANGED <<now, row, changedAt>>
    BY DEF LookUpKey, Send, ReadCacheHit, ReadCacheMiss, QueryRow, QueryRowFails, FillCache
  <1>2. \A o \in Requests \ {q} : requests'[o] = requests[o]
    BY DEF LookUpKey, Send, ReadCacheHit, ReadCacheMiss, QueryRow, QueryRowFails,
           FillCache, Become, GateIInv, IInv, TypeOK
  <1>3. gate[q].arrived <= now /\ gate[q].arrived <= requests'[q].started
    <2>1. /\ gate[q].arrived <= now
          /\ requests[q].pc # "idle" => gate[q].arrived <= requests[q].started
          /\ requests[q] \in Request /\ requests \in [Requests -> Request]
      BY <1>1 DEF GateIInv, Due, IInv, TypeOK
    <2>2. CASE Send(q)
      BY <2>1, <2>2 DEF Send, Become, Idle
    <2>3. CASE \/ ReadCacheHit(q) \/ ReadCacheMiss(q)
               \/ QueryRow(q) \/ QueryRowFails(q) \/ FillCache(q)
      <3>1. requests[q].pc # "idle"
        BY <2>3 DEF ReadCacheHit, ReadCacheMiss, QueryRow, QueryRowFails, FillCache
      <3>2. requests'[q].started = requests[q].started
        <4>1. CASE ReadCacheHit(q)
          BY <2>1, <4>1 DEF ReadCacheHit, Become, Answered, Request
        <4>2. CASE FillCache(q)
          BY <2>1, <4>2 DEF FillCache, Become, Answered, Request
        <4>3. CASE ReadCacheMiss(q)
          BY <2>1, <4>3 DEF ReadCacheMiss, Become, Request
        <4>4. CASE QueryRow(q)
          BY <2>1, <4>4 DEF QueryRow, Become, Request
        <4>5. CASE QueryRowFails(q)
          BY <2>1, <4>5 DEF QueryRowFails, Become, Request
        <4> QED
          BY <2>3, <4>1, <4>2, <4>3, <4>4, <4>5
      <3> QED
        BY <2>1, <3>1, <3>2
    <2> QED
      BY <2>2, <2>3 DEF LookUpKey
  <1>4. \A o \in Requests : Due(gate[o], requests[o])'
    BY <1>1, <1>2, <1>3 DEF GateIInv, Due, RowMaySay, gateVars
  <1> QED
    BY <1>1, <1>4 DEF GateIInv, gateVars

LEMMA TimeKeeps ==
  ASSUME GateIInv, IInv',
         GateTick \/ GateTerminating \/ EndSession \/ \E new \in Rows : GateChangeRow(new)
  PROVE  GateIInv'
  <1>1. /\ gate' = gate /\ requests' = requests /\ session' \in BOOLEAN
        /\ session' => session
    <2>1. gate' = gate /\ requests' = requests
      BY DEF GateTick, Tick, GateTerminating, Terminating, EndSession,
         GateChangeRow, ChangeRow, vars, gateVars
    <2>2. session' = session \/ session' = FALSE
      BY DEF GateTick, GateTerminating, EndSession, GateChangeRow, gateVars
    <2>3. session \in BOOLEAN
      BY DEF GateIInv
    <2>4. session' \in BOOLEAN /\ (session' => session)
      <3>1. CASE session' = session
        BY <2>3, <3>1
      <3>2. CASE session' = FALSE
        BY <3>2
      <3> QED
        BY <2>2, <3>1, <3>2
    <2> QED
      BY <2>1, <2>4
  <1>2. /\ now' \in Nat /\ now <= now'
        /\ (row' = row /\ changedAt' = changedAt) \/ changedAt' = now
    <2>1. now' = now \/ now' = now + 1
      BY DEF GateTick, Tick, GateTerminating, Terminating, EndSession,
         GateChangeRow, ChangeRow, vars
    <2>2. (row' = row /\ changedAt' = changedAt) \/ changedAt' = now
      BY DEF GateTick, Tick, GateTerminating, Terminating, EndSession,
         GateChangeRow, ChangeRow, vars
    <2> QED
      BY <2>1, <2>2, Numbers
  <1>3. \A o \in Requests : gate[o].pc # "idle" => gate[o].arrived <= now'
    <2>1. \A o \in Requests : gate[o].pc # "idle" => gate[o].arrived <= now
      BY DEF GateIInv, Due
    <2> QED
      BY <1>2, <2>1, Numbers
  <1>4. ASSUME NEW o \in Requests, NEW b \in BOOLEAN, gate[o].arrived <= now,
               RowMaySay(gate[o], b)
        PROVE  RowMaySay(gate[o], b)'
    BY <1>1, <1>2, <1>4, Numbers DEF RowMaySay
  <1> QED
    <2>1. \A o \in Requests : Due(gate[o], requests[o])'
      BY <1>1, <1>3, <1>4 DEF GateIInv, Due
    <2> QED
      BY <1>1, <2>1 DEF GateIInv

\* The lookup's answer becomes the gate's.
LEMMA AnswerKeeps ==
  ASSUME GateIInv, IInv', NEW q \in Requests, KeyAnswered(q) PROVE GateIInv'
  <1> DEFINE p == gate[q]
  <1>1. /\ p \in Passage /\ p.call \in Calls /\ p.arrived <= now
        /\ TakesKey(p.call) /\ p.call.key /\ p.arrived <= requests[q].started
        /\ TakesSession(p.call) /\ p.call.cookie => ~session
    BY DEF KeyAnswered, Finish, GateIInv, Due
  <1>2. /\ requests[q].pc = "accepted" => RowMaySay(p, TRUE)
        /\ requests[q].pc = "refused" => RowMaySay(p, FALSE)
    BY <1>1, Numbers DEF GateIInv, IInv, AnswersCatchUp, RowMaySay, Accepts
  <1>3. PICK n \in Passage :
          /\ gate' = [gate EXCEPT ![q] = n]
          /\ n.pc \in {"handler", "answered"} /\ n.call = p.call /\ n.arrived = p.arrived
          /\ n.pc = "handler" => requests[q].pc = "accepted" /\ n.answer = p.answer
          /\ n.pc = "answered" =>
               IF requests[q].pc = "refused" THEN n.answer = "unauthorized"
                                             ELSE n.answer = "failed"
    <2>1. CASE /\ requests[q].pc = "accepted"
               /\ gate' = [gate EXCEPT ![q] = [p EXCEPT !.pc = "handler"]]
      <3>1. [p EXCEPT !.pc = "handler"] \in Passage
        BY <1>1 DEF Passage
      <3> QED
        BY <1>1, <2>1, <3>1 DEF Passage
    <2>2. ASSUME NEW answer \in {"unauthorized", "failed"},
                 answer = "unauthorized" <=> requests[q].pc = "refused",
                 gate' = [gate EXCEPT ![q] = [p EXCEPT !.pc = "answered", !.answer = answer]]
          PROVE  \E n \in Passage :
                   /\ gate' = [gate EXCEPT ![q] = n]
                   /\ n.pc = "answered" /\ n.call = p.call /\ n.arrived = p.arrived
                   /\ IF requests[q].pc = "refused" THEN n.answer = "unauthorized"
                                                    ELSE n.answer = "failed"
      <3>1. [p EXCEPT !.pc = "answered", !.answer = answer] \in Passage
        BY <1>1 DEF Passage
      <3> QED
        BY <1>1, <2>2, <3>1 DEF Passage
    <2>3. \/ /\ requests[q].pc = "accepted"
             /\ gate' = [gate EXCEPT ![q] = [p EXCEPT !.pc = "handler"]]
          \/ /\ requests[q].pc = "refused"
             /\ gate' = [gate EXCEPT ![q] = [p EXCEPT !.pc = "answered", !.answer = "unauthorized"]]
          \/ /\ requests[q].pc = "failed"
             /\ gate' = [gate EXCEPT ![q] = [p EXCEPT !.pc = "answered", !.answer = "failed"]]
      BY DEF KeyAnswered, Answer, Pass
    <2> QED
      BY <2>1, <2>2, <2>3
  <1>4. \A o \in Requests :
          /\ gate'[o] = IF o = q THEN n ELSE gate[o]
          /\ requests'[o] = IF o = q THEN Idle ELSE requests[o]
    BY <1>3 DEF KeyAnswered, Finish, Become, GateIInv, IInv, TypeOK
  <1>5. UNCHANGED <<now, row, changedAt, session>>
    BY DEF KeyAnswered, Finish
  <1>6. Due(n, Idle)'
    BY <1>1, <1>2, <1>3, <1>5 DEF Due, RowMaySay, Idle, GateIInv
  <1>7. \A o \in Requests : Due(gate[o], requests[o])'
    BY <1>4, <1>5, <1>6 DEF GateIInv, Due, RowMaySay
  <1> QED
    BY <1>3, <1>5, <1>7 DEF GateIInv
-----------------------------------------------------------------------------
\* A request arrives; it is due for whatever it is sent to.
LEMMA ArriveKeeps ==
  ASSUME GateIInv, NEW q \in Requests, NEW call \in Calls, Arrive(q, call)
  PROVE  GateIInv'
  <1> DEFINE p == [Absent EXCEPT !.call = call, !.arrived = now,
                                 !.had = call.cookie /\ session]
  <1>1. /\ requests[q].pc = "idle" /\ call \in Call /\ now \in Time
    BY Numbers, AuthGateAssumption DEF Arrive, GateIInv, Due
  <1>2. PICK n \in Passage :
          /\ Pass(q, n) /\ n.call = call /\ n.arrived = now
          /\ n.had <=> call.cookie /\ session
          /\ \/ n.pc = "answered" /\ n.answer \in {"noContent", "forbidden"}
             \/ n.pc = "answered" /\ n.answer = "login" /\ ~TakesKey(call)
                  /\ ~(TakesSession(call) /\ call.cookie)
             \/ n.pc = "handler" /\ n.answer = "none" /\ call.route = "open"
             \/ n.pc = "session" /\ n.answer = "none" /\ TakesSession(call) /\ call.cookie
             \/ n.pc = "key" /\ n.answer = "none" /\ TakesKey(call)
                  /\ ~(TakesSession(call) /\ call.cookie)
    <2>1. /\ p \in Passage /\ p.pc = "idle" /\ p.call = call /\ p.arrived = now
          /\ p.had <=> call.cookie /\ session
          /\ p.answer = "none"
      BY <1>1 DEF Passage, Absent, Call, GateIInv
    <2>2. ASSUME NEW answer \in {"noContent", "forbidden", "login"}
          PROVE  LET n == [p EXCEPT !.pc = "answered", !.answer = answer]
                 IN  /\ n \in Passage /\ n.pc = "answered" /\ n.answer = answer
                     /\ n.call = call /\ n.arrived = now /\ n.had = p.had
      BY <2>1 DEF Passage
    <2>3. ASSUME NEW pc \in {"session", "key", "handler"}
          PROVE  LET n == [p EXCEPT !.pc = pc]
                 IN  /\ n \in Passage /\ n.pc = pc /\ n.answer = "none"
                     /\ n.call = call /\ n.arrived = now /\ n.had = p.had
      BY <2>1 DEF Passage
    <2>4. \/ Answer(q, p, "noContent") \/ Answer(q, p, "forbidden")
          \/ Answer(q, p, "login") /\ ~TakesKey(call) /\ ~(TakesSession(call) /\ call.cookie)
          \/ Pass(q, [p EXCEPT !.pc = "handler"]) /\ call.route = "open"
          \/ Pass(q, [p EXCEPT !.pc = "session"]) /\ TakesSession(call) /\ call.cookie
          \/ /\ Pass(q, [p EXCEPT !.pc = "key"])
             /\ TakesKey(call) /\ ~(TakesSession(call) /\ call.cookie)
      BY <2>1 DEF Arrive, WithoutSession
    <2>5. ASSUME NEW answer \in {"noContent", "forbidden", "login"}, Answer(q, p, answer)
          PROVE  \E n \in Passage :
                   /\ Pass(q, n) /\ n.call = call /\ n.arrived = now /\ n.had = p.had
                   /\ n.pc = "answered" /\ n.answer = answer
      BY <2>2, <2>5 DEF Answer
    <2>6. ASSUME NEW pc \in {"session", "key", "handler"}, Pass(q, [p EXCEPT !.pc = pc])
          PROVE  \E n \in Passage :
                   /\ Pass(q, n) /\ n.call = call /\ n.arrived = now /\ n.had = p.had
                   /\ n.pc = pc /\ n.answer = "none"
      BY <2>3, <2>6
    <2>7. CASE Answer(q, p, "noContent") \/ Answer(q, p, "forbidden")
      BY <2>1, <2>5, <2>7
    <2>8. CASE Answer(q, p, "login") /\ ~TakesKey(call) /\ ~(TakesSession(call) /\ call.cookie)
      BY <2>1, <2>5, <2>8
    <2>9. CASE Pass(q, [p EXCEPT !.pc = "handler"]) /\ call.route = "open"
      BY <2>1, <2>6, <2>9
    <2>10. CASE Pass(q, [p EXCEPT !.pc = "session"]) /\ TakesSession(call) /\ call.cookie
      BY <2>1, <2>6, <2>10
    <2>11. CASE /\ Pass(q, [p EXCEPT !.pc = "key"])
                /\ TakesKey(call) /\ ~(TakesSession(call) /\ call.cookie)
      BY <2>1, <2>6, <2>11
    <2> QED
      BY <2>4, <2>7, <2>8, <2>9, <2>10, <2>11
  <1>3. Due(n, requests[q])
    <2>1. /\ n.call \in Calls /\ n.arrived <= now /\ requests[q].pc = "idle" /\ n.call = call
      BY <1>1, <1>2, Numbers
    <2>2. n.pc = "session" => TakesSession(n.call) /\ n.call.cookie /\ (session => n.had)
      BY <1>2
    <2> QED
      BY <1>2, <2>1, <2>2 DEF Due
  <1> QED
    BY <1>2, <1>3, PassKeeps DEF Arrive

\* The session is there, or not, or cannot be read.
LEMMA ReadKeeps ==
  ASSUME GateIInv, NEW q \in Requests, ReadSession(q) PROVE GateIInv'
  <1> DEFINE p == gate[q]
  <1>1. /\ p \in Passage /\ p.call \in Calls /\ p.arrived <= now
        /\ requests[q].pc = "idle"
        /\ TakesSession(p.call) /\ p.call.cookie /\ (session => p.had)
        /\ UNCHANGED <<vars, session>>
    BY DEF ReadSession, GateIInv, Due
  <1>2. CASE session /\ Pass(q, [p EXCEPT !.pc = "handler"])
    <2> DEFINE n == [p EXCEPT !.pc = "handler"]
    <2>1. /\ n \in Passage /\ n.pc = "handler" /\ n.call = p.call /\ n.had = p.had
          /\ n.arrived = p.arrived /\ n.answer = p.answer
      BY <1>1 DEF Passage
    <2>2. Due(n, requests[q])
      BY <1>1, <1>2, <2>1 DEF Due, GateIInv, RowMaySay
    <2> QED
      BY <1>1, <1>2, <2>1, <2>2, PassKeeps
  <1>3. CASE ~session /\ TakesKey(p.call) /\ Pass(q, [p EXCEPT !.pc = "key"])
    <2> DEFINE n == [p EXCEPT !.pc = "key"]
    <2>1. /\ n \in Passage /\ n.pc = "key" /\ n.call = p.call /\ n.had = p.had
          /\ n.arrived = p.arrived /\ n.answer = p.answer
      BY <1>1 DEF Passage
    <2>2. Due(n, requests[q])
      BY <1>1, <1>3, <2>1 DEF Due, GateIInv, RowMaySay
    <2> QED
      BY <1>1, <1>3, <2>1, <2>2, PassKeeps
  <1>4. ASSUME NEW answer \in {"login", "failed"}, Answer(q, p, answer),
               answer = "login" => ~session /\ ~TakesKey(p.call)
        PROVE  GateIInv'
    <2> DEFINE n == [p EXCEPT !.pc = "answered", !.answer = answer]
    <2>1. /\ n \in Passage /\ n.pc = "answered" /\ n.call = p.call
          /\ n.arrived = p.arrived /\ n.answer = answer
      BY <1>1 DEF Passage
    <2>2. Due(n, requests[q])
      BY <1>1, <1>4, <2>1 DEF Due
    <2> QED
      BY <1>1, <1>4, <2>1, <2>2, PassKeeps DEF Answer
  <1> QED
    BY <1>2, <1>3, <1>4 DEF ReadSession, WithoutSession

\* A request without a key is refused, one that was served is answered, and
\* one that was answered is gone.
LEMMA LeaveKeeps ==
  ASSUME GateIInv, NEW q \in Requests, NoKey(q) \/ Handle(q) \/ Leave(q)
  PROVE  GateIInv'
  <1> DEFINE p == gate[q]
  <1>1. p \in Passage /\ UNCHANGED <<vars, session>>
    BY DEF NoKey, Handle, Leave, GateIInv
  <1>2. /\ p.call \in Calls /\ p.arrived <= now
        /\ requests[q].pc = "idle"
    BY DEF NoKey, Handle, Leave, GateIInv, Due
  <1>3. CASE Leave(q)
    <2>1. Absent \in Passage /\ Due(Absent, requests[q])
      BY <1>2, ApiKeyLookupAssumption DEF Absent, Passage, Time, Due
    <2> QED
      BY <1>1, <1>3, <2>1, PassKeeps DEF Leave
  <1>4. ASSUME NEW answer \in {"unauthorized", "ok", "failed"}, Answer(q, p, answer),
               answer = "unauthorized" =>
                 /\ TakesSession(p.call) /\ p.call.cookie => ~session
                 /\ ~p.call.key
        PROVE  GateIInv'
    <2> DEFINE n == [p EXCEPT !.pc = "answered", !.answer = answer]
    <2>1. /\ n \in Passage /\ n.pc = "answered" /\ n.call = p.call
          /\ n.arrived = p.arrived /\ n.answer = answer
      BY <1>1 DEF Passage
    <2>2. Due(n, requests[q])
      BY <1>2, <1>4, <2>1 DEF Due
    <2> QED
      BY <1>1, <1>4, <2>1, <2>2, PassKeeps DEF Answer
  <1>5. CASE NoKey(q)
    <2>1. TakesSession(p.call) /\ p.call.cookie => ~session
      BY <1>5 DEF NoKey, GateIInv, Due
    <2> QED
      BY <1>4, <1>5, <2>1 DEF NoKey
  <1> QED
    BY <1>3, <1>4, <1>5 DEF Handle
-----------------------------------------------------------------------------
\* The gate implements ApiKeyLookup, whatever is called and whatever fails.
THEOREM GateImplementsLookup == GateSpec => Spec
  <1>1. GateInit => Init
    BY DEF GateInit
  <1> QED
    BY <1>1, StepImplements, PTL DEF GateSpec, Spec

\* The inductive invariant of the gate, the lookup's among it.
THEOREM GateInvariance == GateSpec => []GateIInv
  <1>1. GateIInv /\ IInv' /\ [GateNext]_allVars => GateIInv'
    <2> SUFFICES ASSUME GateIInv, IInv', [GateNext]_allVars PROVE GateIInv'
      OBVIOUS
    <2>1. ASSUME UNCHANGED allVars PROVE GateIInv'
      BY <2>1 DEF allVars, vars, gateVars, GateIInv, Due, RowMaySay
    <2> QED
      BY <2>1, LookUpKeeps, TimeKeeps, AnswerKeeps, ArriveKeeps, ReadKeeps, LeaveKeeps
      DEF GateNext
  <1> QED
    BY <1>1, InitGate, Invariance, GateImplementsLookup, PTL DEF GateSpec

\* Types hold, of the gate and of the lookup.
THEOREM GateTypeCorrect == GateSpec => []GateTypeOK
  <1>1. GateIInv => GateTypeOK
    BY DEF GateIInv, IInv, GateTypeOK
  <1> QED
    BY <1>1, GateInvariance, PTL

\* Behind the gate too, a changed row is noticed in time (lookup.go:54-58).
THEOREM GateNoticesChanges == GateSpec => []AnswersCatchUp
  BY GateImplementsLookup, ChangesAreNoticed, PTL

\* No request reaches a handler without a session or a key that is due.
THEOREM OnlyTheDueAreAdmitted == GateSpec => []AdmittedIsDue
  <1>1. GateIInv => AdmittedIsDue
    BY DEF GateIInv, Due, AdmittedIsDue
  <1> QED
    BY <1>1, GateInvariance, PTL

\* No request with a session or a key that is due is sent away.
THEOREM NobodyDueIsRefused == GateSpec => []RefusedIsDue
  <1>1. GateIInv => RefusedIsDue
    BY DEF GateIInv, Due, RefusedIsDue
  <1> QED
    BY <1>1, GateInvariance, PTL
=============================================================================

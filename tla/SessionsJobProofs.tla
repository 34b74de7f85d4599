------------------------- MODULE SessionsJobProofs -------------------------
(***************************************************************************)
(* For all sessions, caps, intervals and times to live, and whatever       *)
(* fails: the sessions history is in order without repeats, and a          *)
(* successful run leaves both keys with the same sessions.                 *)
(*                                                                         *)
(* The invariant adds what the one run knows: before its first write Redis *)
(* holds nothing as new as the run itself, and between its two writes the  *)
(* snapshot is the run's own or has expired.  That a success is fresh, and *)
(* that what a reader of the sessions was offered is known, rests on this  *)
(* and on the run being the only one since the last success.               *)
(* A snapshot about to be replaced is in the run's hands (KeptInv).        *)
(***************************************************************************)
EXTENDS SessionReads, HistoryTheorems

SingleRun == \A r, q \in runs : r = q

ActiveInPast == active # Missing => active.at <= now

\* What a run has put together is in order and not newer than the clock.
InOrder(next) ==
  /\ next \in Refresh
  /\ next.at <= now
  /\ Len(next.past) <= MaxHistory
  /\ StrictlyOrdered(next.past)
  /\ \A i \in 1 .. Len(next.past) : next.past[i] < next.at

\* Where the run stands with respect to Redis.
RunInv(r) ==
  /\ r.pc \in {"fetch", "sessions"} =>
       (active # Missing => active.at < r.started)
  /\ r.started <= now
  /\ r.pc # "fetch" => r.started <= r.next.at /\ InOrder(r.next)
  /\ r.pc = "names" => (active # Missing => active.listed = r.next.listed)

IInv ==
  /\ TypeOK
  /\ SingleRun
  /\ ActiveInPast
  /\ PastInOrder
  /\ SuccessStoresBoth
  /\ \A r \in runs : RunInv(r)
-----------------------------------------------------------------------------
LEMMA TimeIsNat == Time \subseteq Nat
BY SessionsJobAssumption DEF Time

LEMMA OnlyRun ==
  ASSUME SingleRun, NEW r \in runs, NEW r2, Continue(r, r2)
  PROVE  runs' = {r2} /\ SingleRun' /\ UNCHANGED metrics
BY DEF SingleRun, Continue

LEMMA RunEnds ==
  ASSUME SingleRun, NEW r \in runs, runs' = runs \ {r}
  PROVE  runs' = {} /\ SingleRun'
BY DEF SingleRun

\* The times of the stored snapshot are numbers.
LEMMA ActiveTimes ==
  ASSUME TypeOK, active # Missing
  PROVE  active \in Snapshot /\ active.at \in Nat /\ active.past \in Seq(Nat)
<1>1. active \in Snapshot /\ active.at \in Nat /\ active.past \in Seq(Time)
  BY TimeIsNat DEF TypeOK, Snapshot
<1> QED
  BY <1>1, TimeIsNat, SeqMonotonic

LEMMA InitInv == Init => IInv
<1> SUFFICES ASSUME Init
             PROVE  IInv
  OBVIOUS
<1>1. TypeOK
  BY SessionsJobAssumption DEF Init, TypeOK, Time
<1> QED
  BY <1>1 DEF Init, IInv, SingleRun, ActiveInPast, PastInOrder, SuccessStoresBoth

LEMMA TickInv == IInv /\ Tick => IInv'
<1> SUFFICES ASSUME IInv, Tick
             PROVE  IInv'
  OBVIOUS
<1>1. now \in Nat /\ now' = now + 1 /\ now' \in Time
  BY SessionsJobAssumption DEF IInv, TypeOK, Tick, Time
<1>2. active' # Missing => active' = active
  BY DEF Tick
<1>3. runs' \subseteq runs \cup {NewRun(now + 1)} /\ (runs # {} => runs' = runs)
  BY DEF Tick, Fire
<1>4. UNCHANGED <<up, names, outcome, lastSuccess>>
  BY DEF Tick, metrics
<1>5. NewRun(now + 1) \in Run
  BY <1>1 DEF NewRun, Run
<1>6. TypeOK' /\ SingleRun'
  BY <1>1, <1>2, <1>3, <1>4, <1>5 DEF IInv, TypeOK, SingleRun
<1>7. ActiveInPast' /\ PastInOrder'
  <2>1. ActiveInPast'
    BY <1>1, <1>2, ActiveTimes DEF IInv, ActiveInPast
  <2>2. PastInOrder'
    BY <1>2 DEF IInv, PastInOrder
  <2> QED
    BY <2>1, <2>2
<1>8. SuccessStoresBoth'
  <2>1. \A r \in runs : (\A q \in runs' : q.pc # "names") => r.pc # "names"
    BY <1>3
  <2> QED
    BY <1>2, <1>4, <2>1 DEF IInv, SuccessStoresBoth
<1>9. ASSUME NEW r \in runs'
      PROVE  RunInv(r)'
  <2>1. CASE r \in runs
    <3>1. RunInv(r) /\ r \in Run
      BY <2>1 DEF IInv, TypeOK
    <3>2. r.pc # "fetch" => InOrder(r.next)'
      BY <1>1, <3>1, TimeIsNat DEF RunInv, InOrder, Refresh
    <3>3. r.started <= now'
      <4>1. r.started \in Nat /\ r.started <= now
        BY <3>1, TimeIsNat DEF RunInv, Run
      <4> QED
        BY <4>1, <1>1
    <3> QED
      BY <1>2, <3>1, <3>2, <3>3 DEF RunInv
  <2>2. CASE r = NewRun(now + 1)
    <3>1. r.pc = "fetch" /\ r.started = now + 1
      BY <2>2 DEF NewRun
    <3>2. active' # Missing => active'.at < r.started
      BY <1>1, <1>2, <3>1, ActiveTimes DEF IInv, ActiveInPast
    <3>3. r.started <= now'
      BY <1>1, <3>1
    <3> QED
      BY <3>1, <3>2, <3>3 DEF RunInv
  <2> QED
    BY <1>3, <2>1, <2>2
<1> QED
  BY <1>6, <1>7, <1>8, <1>9 DEF IInv

LEMMA FetchSessionsInv ==
  ASSUME IInv, NEW r \in runs, FetchSessions(r)
  PROVE  IInv'
<1>1. PICK listed \in SUBSET Sessions, existing \in {active, Missing} :
        Continue(r, [r EXCEPT !.pc = "sessions",
                              !.next = [at |-> now, listed |-> listed,
                                        past |-> PastOf(existing)]])
  BY DEF FetchSessions, GetSessions
<1>0. PICK next : next = [at |-> now, listed |-> listed, past |-> PastOf(existing)]
  OBVIOUS
<1> DEFINE r2 == [r EXCEPT !.pc = "sessions", !.next = next]
<1>2. r \in Run /\ r.pc = "fetch" /\ RunInv(r) /\ now \in Time /\ now \in Nat
  BY TimeIsNat DEF IInv, TypeOK, FetchSessions
<1>3. /\ PastOf(existing) \in Seq(Time)
      /\ Len(PastOf(existing)) <= MaxHistory
      /\ StrictlyOrdered(PastOf(existing))
      /\ \A i \in 1 .. Len(PastOf(existing)) : PastOf(existing)[i] < now
  <2>1. CASE existing = Missing
    BY <2>1, EmptySeq, SessionsJobAssumption DEF PastOf, StrictlyOrdered
  <2>2. CASE existing # Missing
    <3>1. existing = active /\ active \in Snapshot
      BY <2>2, <1>1 DEF IInv, TypeOK
    <3>2. active.past \in Seq(Time) /\ active.at \in Time /\ active.at \in Nat
      BY <3>1, TimeIsNat DEF Snapshot
    <3>3. active.past \in Seq(Nat)
      BY <3>2, TimeIsNat, SeqMonotonic
    <3> DEFINE past == NextHistory(active.past, active.at, MaxHistory)
    <3>4. past \in Seq(Time) /\ Len(past) <= MaxHistory
      BY <3>2, NextHistoryType, SessionsJobAssumption
    <3>5. StrictlyOrdered(past) /\ UpTo(past, active.at)
      BY <2>2, <3>1, <3>2, <3>3, NextHistoryStrict, SessionsJobAssumption
         DEF IInv, PastInOrder
    <3>6. active.at < now
      <4>1. r.started \in Nat /\ active.at < r.started /\ r.started <= now
        BY <2>2, <3>1, <1>2, TimeIsNat DEF RunInv, Run
      <4> QED
        BY <4>1, <3>2, <1>2
    <3>7. past = PastOf(existing)
      BY <2>2, <3>1 DEF PastOf
    <3>8. \A i \in 1 .. Len(past) : past[i] \in Nat
      BY <3>4, TimeIsNat, ElementOfSeq
    <3> HIDE DEF past
    <3>9. \A i \in 1 .. Len(past) : past[i] < now
      BY <1>2, <3>2, <3>5, <3>6, <3>8 DEF UpTo
    <3> QED
      BY <3>4, <3>5, <3>7, <3>9
  <2> QED
    BY <2>1, <2>2
<1>4. next \in Refresh /\ next.at = now /\ next.past = PastOf(existing)
  BY <1>2, <1>3, <1>0 DEF Refresh
<1>5. r2 \in Run /\ r2.pc = "sessions" /\ r2.next = next /\ r2.started = r.started
  BY <1>2, <1>4 DEF Run
<1>6. Continue(r, r2) /\ UNCHANGED <<now, up, active, names>>
  BY <1>1, <1>0 DEF FetchSessions
<1> HIDE DEF r2
<1>7. runs' = {r2} /\ SingleRun' /\ UNCHANGED metrics
  BY <1>6, OnlyRun DEF IInv
<1>8. InOrder(next)'
  BY <1>2, <1>3, <1>4, <1>6 DEF InOrder
<1>9. RunInv(r2)'
  BY <1>2, <1>4, <1>5, <1>6, <1>8 DEF RunInv
<1>10. TypeOK' /\ ActiveInPast' /\ PastInOrder'
  BY <1>5, <1>6, <1>7 DEF IInv, TypeOK, ActiveInPast, PastInOrder, metrics
<1>11. SuccessStoresBoth'
  BY <1>2, <1>6, <1>7 DEF IInv, SuccessStoresBoth, SingleRun, metrics
<1> QED
  BY <1>7, <1>9, <1>10, <1>11 DEF IInv

\* A snapshot put together by the run keeps the invariant once it is stored.
LEMMA StoredSnapshot ==
  ASSUME TypeOK, NEW next, InOrder(next)
  PROVE  /\ Stored(next) \in Snapshot
         /\ Stored(next).at = next.at /\ Stored(next).listed = next.listed
         /\ Stored(next).past = next.past
<1>1. now + TTL \in Nat
  BY TimeIsNat, SessionsJobAssumption DEF TypeOK
<1> QED
  BY <1>1 DEF Stored, Snapshot, InOrder, Refresh

LEMMA StoreSessionsInv ==
  ASSUME IInv, NEW r \in runs, StoreSessions(r)
  PROVE  IInv'
<1> DEFINE r2 == [r EXCEPT !.pc = "names"]
<1>1. r \in Run /\ r.pc = "sessions" /\ RunInv(r) /\ InOrder(r.next)
  BY DEF IInv, TypeOK, StoreSessions, RunInv
<1>2. r2 \in Run /\ r2.pc = "names" /\ r2.next = r.next /\ r2.started = r.started
  BY <1>1 DEF Run
<1>3. runs' = {r2} /\ SingleRun' /\ UNCHANGED <<now, up, names, outcome, lastSuccess>>
  BY OnlyRun DEF StoreSessions, IInv, metrics
<1> HIDE DEF r2
<1>4. /\ active' \in Snapshot /\ active'.at = r.next.at
      /\ active'.listed = r.next.listed /\ active'.past = r.next.past
  BY <1>1, StoredSnapshot DEF StoreSessions, IInv
<1>5. TypeOK'
  BY <1>1, <1>2, <1>3, <1>4 DEF IInv, TypeOK, InOrder
<1>6. ActiveInPast' /\ PastInOrder'
  BY <1>1, <1>3, <1>4 DEF ActiveInPast, PastInOrder, InOrder
<1>7. SuccessStoresBoth'
  BY <1>2, <1>3 DEF SuccessStoresBoth
<1>8. RunInv(r2)'
  BY <1>1, <1>2, <1>3, <1>4 DEF RunInv, InOrder
<1> QED
  BY <1>3, <1>5, <1>6, <1>7, <1>8 DEF IInv

LEMMA StoreSessionsFailsInv ==
  ASSUME IInv, NEW r \in runs, StoreSessionsFails(r)
  PROVE  IInv'
<1>1. RunInv(r) /\ InOrder(r.next)
  BY DEF IInv, StoreSessionsFails, RunInv
<1>2. /\ runs' = {} /\ SingleRun' /\ outcome' = "error"
      /\ UNCHANGED <<now, up, names, lastSuccess>>
  BY RunEnds DEF StoreSessionsFails, Fail, IInv
<1>3. \/ active' = active
      \/ /\ active' \in Snapshot /\ active'.at = r.next.at
         /\ active'.listed = r.next.listed /\ active'.past = r.next.past
  BY <1>1, StoredSnapshot DEF StoreSessionsFails, IInv
<1>4. TypeOK'
  BY <1>1, <1>2, <1>3 DEF IInv, TypeOK, InOrder
<1>5. ActiveInPast' /\ PastInOrder'
  BY <1>1, <1>2, <1>3 DEF IInv, ActiveInPast, PastInOrder, InOrder
<1> QED
  BY <1>2, <1>4, <1>5 DEF IInv, SuccessStoresBoth

LEMMA StoreNamesInv ==
  ASSUME IInv, NEW r \in runs, StoreNames(r) \/ StoreNamesFails(r)
  PROVE  IInv'
<1>1. RunInv(r) /\ InOrder(r.next) /\ r.pc = "names"
  BY DEF IInv, StoreNames, StoreNamesFails, RunInv
<1>2. NamesOf(r.next.listed) \subseteq Names
  BY <1>1, SessionsJobAssumption DEF InOrder, Refresh, NamesOf
<1>3. /\ runs' = {} /\ SingleRun' /\ UNCHANGED <<now, up, active>>
      /\ outcome' \in {"success", "error"} /\ lastSuccess' \in {now, lastSuccess}
      /\ names' \in {names, NamesOf(r.next.listed)}
      /\ outcome' = "success" => names' = NamesOf(r.next.listed)
  BY RunEnds DEF StoreNames, StoreNamesFails, Succeed, Fail, IInv
<1>4. TypeOK'
  BY <1>2, <1>3 DEF IInv, TypeOK
<1>5. ActiveInPast' /\ PastInOrder'
  BY <1>3 DEF IInv, ActiveInPast, PastInOrder
<1>6. SuccessStoresBoth'
  BY <1>1, <1>3 DEF SuccessStoresBoth, RunInv
<1> QED
  BY <1>3, <1>4, <1>5, <1>6 DEF IInv

\* A run that ends early, a crash, a restart: Redis stays, no run is left.
LEMMA NoRunLeft ==
  ASSUME IInv, runs' = {}, up' \in BOOLEAN, outcome' \in {"none", "error"},
         lastSuccess' \in {lastSuccess, Missing}, UNCHANGED <<now, active, names>>
  PROVE  IInv'
<1>1. TypeOK' /\ SingleRun'
  BY DEF IInv, TypeOK, SingleRun
<1>2. ActiveInPast' /\ PastInOrder' /\ SuccessStoresBoth'
  BY DEF IInv, ActiveInPast, PastInOrder, SuccessStoresBoth
<1> QED
  BY <1>1, <1>2 DEF IInv

LEMMA NextInv == IInv /\ [Next]_vars => IInv'
<1> SUFFICES ASSUME IInv, [Next]_vars
             PROVE  IInv'
  OBVIOUS
<1>1. CASE Tick
  BY <1>1, TickInv
<1>2. CASE RunStep
  <2>1. PICK r \in runs :
          \/ FetchSessions(r) \/ FetchFails(r)
          \/ StoreSessions(r) \/ StoreSessionsFails(r)
          \/ StoreNames(r) \/ StoreNamesFails(r)
    BY <1>2 DEF RunStep
  <2>2. CASE FetchFails(r)
    BY <2>2, RunEnds, NoRunLeft DEF FetchFails, Fail, IInv, TypeOK
  <2> QED
    BY <2>1, <2>2, FetchSessionsInv, StoreSessionsInv, StoreSessionsFailsInv,
       StoreNamesInv
<1>3. CASE Crash
  BY <1>3, NoRunLeft DEF Crash
<1>4. CASE Restart \/ UNCHANGED vars
  <2>1. /\ UNCHANGED <<now, runs, active, names, outcome, lastSuccess>>
        /\ up' \in BOOLEAN
    BY <1>4 DEF Restart, vars, metrics, IInv, TypeOK
  <2>2. TypeOK' /\ SingleRun' /\ ActiveInPast' /\ PastInOrder' /\ SuccessStoresBoth'
    BY <2>1 DEF IInv, TypeOK, SingleRun, ActiveInPast, PastInOrder, SuccessStoresBoth
  <2>3. \A r \in runs' : RunInv(r)'
    BY <2>1 DEF IInv, RunInv, InOrder
  <2> QED
    BY <2>2, <2>3 DEF IInv
<1> QED
  BY <1>1, <1>2, <1>3, <1>4 DEF Next, Terminating

THEOREM Invariance == Spec => []IInv
<1>1. Init => IInv
  BY InitInv
<1>2. IInv /\ [Next]_vars => IInv'
  BY NextInv
<1> QED
  BY <1>1, <1>2, PTL DEF Spec

\* The sessions job keeps to its types, and the history to its cap.
THEOREM TypeCorrect == Spec => []TypeOK
<1>1. IInv => TypeOK
  BY DEF IInv
<1> QED
  BY <1>1, Invariance, PTL

\* The sessions history is in order, without repeats, before the snapshot.
THEOREM HistoryInOrder == Spec => []PastInOrder
<1>1. IInv => PastInOrder
  BY DEF IInv
<1> QED
  BY <1>1, Invariance, PTL

\* After a successful run the names are those of the stored sessions.
THEOREM SuccessAgrees == Spec => []SuccessStoresBoth
<1>1. IInv => SuccessStoresBoth
  BY DEF IInv
<1> QED
  BY <1>1, Invariance, PTL
-----------------------------------------------------------------------------
\* The last success was before the run; what is stored while it writes its
\* names is its own.
RunFresh(r) ==
  /\ now <= r.started + MaxRunTicks
  /\ lastSuccess # Missing => lastSuccess < r.started
  /\ r.pc = "names" /\ active # Missing => active.at = r.next.at

\* Names of a snapshot no newer than the last success are those of the snapshot.
NamesAgree ==
  active # Missing /\ lastSuccess # Missing =>
    (active.at <= lastSuccess => names = NamesOf(active.listed))

FreshInv ==
  /\ SuccessIsFresh
  /\ lastSuccess # Missing => lastSuccess <= now
  /\ NamesAgree
  /\ \A r \in runs : RunFresh(r)

\* The times of the clock, the keys, the metric and the runs are numbers.
LEMMA Times ==
  ASSUME IInv
  PROVE  /\ now \in Nat /\ MaxRunTicks \in Nat
         /\ active # Missing => active.at \in Nat /\ active.at <= now
         /\ lastSuccess # Missing => lastSuccess \in Nat
         /\ \A r \in runs : /\ r \in Run /\ r.started \in Nat /\ r.started <= now
                            /\ r.pc # "fetch" => /\ r.next.at \in Nat
                                                 /\ r.started <= r.next.at
<1>1. now \in Nat /\ MaxRunTicks \in Nat
  BY TimeIsNat, SessionsJobAssumption DEF IInv, TypeOK
<1>2. active # Missing => active.at \in Nat /\ active.at <= now
  BY ActiveTimes DEF IInv, ActiveInPast
<1>3. lastSuccess # Missing => lastSuccess \in Nat
  BY TimeIsNat DEF IInv, TypeOK
<1>4. ASSUME NEW r \in runs
      PROVE  /\ r \in Run /\ r.started \in Nat /\ r.started <= now
             /\ r.pc # "fetch" => r.next.at \in Nat /\ r.started <= r.next.at
  BY TimeIsNat DEF IInv, TypeOK, Run, RunInv, InOrder, Refresh
<1> QED
  BY <1>1, <1>2, <1>3, <1>4

\* A run that goes on, without a success, over the same snapshot.
LEMMA FreshStays ==
  ASSUME IInv, FreshInv, UNCHANGED <<now, active, lastSuccess>>, UNCHANGED names,
         \A r \in runs' : \E o \in runs : r.started = o.started /\ r.pc # "names"
  PROVE  FreshInv'
BY DEF FreshInv, SuccessIsFresh, NamesAgree, RunFresh

\* No run is left, and no success is new.
LEMMA FreshWithoutRun ==
  ASSUME IInv, FreshInv, UNCHANGED <<now, active, names>>, runs' = {},
         lastSuccess' \in {lastSuccess, Missing}
  PROVE  FreshInv'
BY DEF FreshInv, SuccessIsFresh, NamesAgree

LEMMA TickFresh == ASSUME IInv, FreshInv, Tick PROVE FreshInv'
<1>1. /\ now' = now + 1 /\ lastSuccess' = lastSuccess /\ names' = names
      /\ active' # Missing => active' = active
      /\ runs' \subseteq runs \cup {NewRun(now + 1)}
      /\ \A r \in runs : now < r.started + MaxRunTicks
  BY DEF Tick, Fire, metrics
<1>2. SuccessIsFresh' /\ NamesAgree'
  BY <1>1 DEF FreshInv, SuccessIsFresh, NamesAgree
<1>3. lastSuccess' # Missing => lastSuccess' <= now'
  BY <1>1, Times DEF FreshInv
<1>4. ASSUME NEW r \in runs' PROVE RunFresh(r)'
  <2>1. CASE r \in runs
    BY <1>1, <2>1, Times DEF FreshInv, RunFresh
  <2>2. CASE r = NewRun(now + 1)
    <3>1. r.pc = "fetch" /\ r.started = now + 1
      BY <2>2 DEF NewRun
    <3> QED
      BY <1>1, <3>1, Times DEF FreshInv, RunFresh
  <2> QED
    BY <1>1, <2>1, <2>2
<1> QED
  BY <1>2, <1>3, <1>4 DEF FreshInv

\* What a run stores is newer than the last success, and no older than the run.
LEMMA StoreFresh ==
  ASSUME IInv, FreshInv, NEW r \in runs, StoreSessions(r) \/ StoreSessionsFails(r)
  PROVE  FreshInv'
<1>1. /\ r.pc = "sessions" /\ InOrder(r.next) /\ UNCHANGED <<now, names, lastSuccess>>
      /\ active' = active \/ active' = Stored(r.next)
      /\ runs' = {} \/ active' = Stored(r.next)
  BY RunEnds DEF StoreSessions, StoreSessionsFails, Continue, Fail, metrics, IInv, RunInv
<1>2. /\ r.started \in Nat /\ r.next.at \in Nat /\ r.started <= r.next.at
      /\ lastSuccess # Missing => lastSuccess \in Nat /\ lastSuccess < r.started
  BY <1>1, Times DEF FreshInv, RunFresh
<1>3. Stored(r.next).at = r.next.at
  BY <1>1, StoredSnapshot DEF IInv
<1>4. SuccessIsFresh' /\ NamesAgree'
  BY <1>1, <1>2, <1>3, Times DEF FreshInv, SuccessIsFresh, NamesAgree
<1>5. ASSUME NEW o \in runs' PROVE RunFresh(o)'
  <2>1. StoreSessions(r) /\ o.started = r.started /\ o.next = r.next
    <3>1. StoreSessions(r)
      BY RunEnds DEF StoreSessionsFails, Fail, IInv
    <3>2. o = [r EXCEPT !.pc = "names"]
      BY <3>1, OnlyRun DEF StoreSessions, IInv
    <3> QED
      BY <3>1, <3>2, Times DEF Run
  <2>2. active' = Stored(r.next)
    BY <2>1 DEF StoreSessions
  <2> QED
    BY <1>1, <1>2, <1>3, <2>1, <2>2 DEF FreshInv, RunFresh
<1> QED
  BY <1>1, <1>4, <1>5 DEF FreshInv

LEMMA StoreNamesFresh ==
  ASSUME IInv, FreshInv, NEW r \in runs, StoreNames(r) \/ StoreNamesFails(r)
  PROVE  FreshInv'
<1>1. /\ r.pc = "names" /\ runs' = {} /\ UNCHANGED <<now, active>>
      /\ \/ names' = NamesOf(r.next.listed) /\ lastSuccess' = now
         \/ lastSuccess' = lastSuccess
  BY RunEnds DEF StoreNames, StoreNamesFails, Succeed, Fail, IInv
<1>2. /\ r.started \in Nat /\ r.next.at \in Nat /\ r.started <= r.next.at
      /\ now <= r.started + MaxRunTicks
      /\ lastSuccess # Missing => lastSuccess \in Nat /\ lastSuccess < r.started
      /\ active # Missing => active.at = r.next.at /\ active.listed = r.next.listed
  BY <1>1, Times DEF FreshInv, RunFresh, IInv, RunInv
<1>3. SuccessIsFresh'
  BY <1>1, <1>2, Times DEF FreshInv, SuccessIsFresh
<1>4. NamesAgree'
  BY <1>1, <1>2, Times DEF FreshInv, NamesAgree
<1> QED
  BY <1>1, <1>3, <1>4, Times DEF FreshInv

LEMMA NextFresh == IInv /\ FreshInv /\ [Next]_vars => FreshInv'
<1> SUFFICES ASSUME IInv, FreshInv, [Next]_vars
             PROVE  FreshInv'
  OBVIOUS
<1>1. ASSUME NEW r \in runs, FetchSessions(r) PROVE FreshInv'
  <2>1. PICK r2 : /\ Continue(r, r2) /\ r2.started = r.started /\ r2.pc = "sessions"
                  /\ UNCHANGED <<now, active, names>>
    BY <1>1, Times DEF FetchSessions, Run
  <2>2. runs' = {r2} /\ lastSuccess' = lastSuccess
    BY <2>1, OnlyRun DEF IInv, metrics
  <2> QED
    BY <2>1, <2>2, FreshStays
<1>2. ASSUME NEW r \in runs, FetchFails(r) PROVE FreshInv'
  BY <1>2, RunEnds, FreshWithoutRun DEF FetchFails, Fail, IInv
<1>3. CASE Crash
  BY <1>3, FreshWithoutRun DEF Crash
<1>4. CASE Restart \/ UNCHANGED vars
  <2>1. UNCHANGED <<now, runs, active, names, lastSuccess>>
    BY <1>4 DEF Restart, vars, metrics
  <2> QED
    BY <2>1 DEF FreshInv, SuccessIsFresh, NamesAgree, RunFresh
<1> QED
  BY <1>1, <1>2, <1>3, <1>4, TickFresh, StoreFresh, StoreNamesFresh
  DEF Next, RunStep, Terminating

THEOREM Freshness == Spec => [](IInv /\ FreshInv)
<1>1. Init => FreshInv
  BY DEF Init, FreshInv, SuccessIsFresh, NamesAgree
<1> QED
  BY <1>1, InitInv, NextInv, NextFresh, PTL DEF Spec

\* A success means a snapshot no older than a run may last.
THEOREM SuccessMeansFresh == Spec => []SuccessIsFresh
<1>1. FreshInv => SuccessIsFresh
  BY DEF FreshInv
<1> QED
  BY <1>1, Freshness, PTL
-----------------------------------------------------------------------------
\* A run about to write has the stored snapshot in the history it writes, or
\* could not read it.
KeptInv ==
  \A r \in runs : r.pc = "sessions" /\ active # Missing =>
    r.next.past \in {NextHistory(active.past, active.at, MaxHistory), << >>}

LEMMA NextKept == IInv /\ KeptInv /\ [Next]_vars => KeptInv'
<1> SUFFICES ASSUME IInv, KeptInv, [Next]_vars
             PROVE  KeptInv'
  OBVIOUS
<1>1. CASE Tick
  <2>1. /\ active' # Missing => active' = active
        /\ \A r \in runs' : r \in runs \/ r.pc = "fetch"
    BY <1>1 DEF Tick, Fire, NewRun
  <2> QED
    BY <2>1 DEF KeptInv
<1>2. CASE RunStep
  <2>1. PICK r \in runs :
          \/ FetchSessions(r) \/ FetchFails(r)
          \/ StoreSessions(r) \/ StoreSessionsFails(r)
          \/ StoreNames(r) \/ StoreNamesFails(r)
    BY <1>2 DEF RunStep
  <2>2. r \in Run
    BY DEF IInv, TypeOK
  <2>3. CASE FetchSessions(r)
    <3>1. PICK listed \in SUBSET Sessions, existing \in {active, Missing} :
            Continue(r, [r EXCEPT !.pc = "sessions",
                                  !.next = [at |-> now, listed |-> listed,
                                            past |-> PastOf(existing)]])
      BY <2>3 DEF FetchSessions, GetSessions
    <3> DEFINE r2 == [r EXCEPT !.pc = "sessions",
                               !.next = [at |-> now, listed |-> listed,
                                         past |-> PastOf(existing)]]
    <3>2. r2.next.past = PastOf(existing)
      BY <2>2 DEF Run
    <3>3. Continue(r, r2)
      BY <3>1
    <3> HIDE DEF r2
    <3>4. runs' = {r2} /\ active' = active
      BY <2>3, <3>3, OnlyRun DEF FetchSessions, IInv
    <3> QED
      BY <3>2, <3>4 DEF KeptInv, PastOf
  <2>4. CASE StoreSessions(r)
    <3> DEFINE r2 == [r EXCEPT !.pc = "names"]
    <3>1. r2.pc = "names" /\ Continue(r, r2)
      BY <2>2, <2>4 DEF Run, StoreSessions
    <3> HIDE DEF r2
    <3>2. runs' = {r2}
      BY <3>1, OnlyRun DEF IInv
    <3> QED
      BY <3>1, <3>2 DEF KeptInv
  <2>5. CASE FetchFails(r) \/ StoreSessionsFails(r) \/ StoreNames(r) \/ StoreNamesFails(r)
    BY <2>5, RunEnds
       DEF FetchFails, StoreSessionsFails, StoreNames, StoreNamesFails,
           Succeed, Fail, IInv, KeptInv
  <2> QED
    BY <2>1, <2>3, <2>4, <2>5
<1>3. CASE Crash \/ Restart \/ UNCHANGED vars
  BY <1>3 DEF Crash, Restart, vars, KeptInv
<1> QED
  BY <1>1, <1>2, <1>3 DEF Next, Terminating

\* Whatever fails, a snapshot that is replaced while it is there is in the
\* history of its successor, or that history begins anew.
THEOREM ReplacedAreKept == Spec => ReplacedIsKept
<1> DEFINE Kept == active # Missing /\ active' # Missing /\ active' # active =>
             active'.past \in {NextHistory(active.past, active.at, MaxHistory), << >>}
<1>1. Init => KeptInv
  BY DEF Init, KeptInv
<1>2. IInv /\ KeptInv /\ [Next]_vars => [Kept]_vars
  <2> SUFFICES ASSUME IInv, KeptInv, Next,
                      active # Missing, active' # Missing, active' # active
               PROVE  active'.past \in
                        {NextHistory(active.past, active.at, MaxHistory), << >>}
    OBVIOUS
  <2>1. PICK r \in runs : StoreSessions(r) \/ StoreSessionsFails(r)
    BY DEF Next, Tick, RunStep, FetchSessions, FetchFails, StoreNames,
           StoreNamesFails, Crash, Restart, Terminating, vars
  <2>2. r.pc = "sessions" /\ active' = Stored(r.next)
    BY <2>1 DEF StoreSessions, StoreSessionsFails
  <2>3. Stored(r.next).past = r.next.past
    BY DEF Stored
  <2> QED
    BY <2>2, <2>3 DEF KeptInv
<1>3. Spec => [][Kept]_vars
  BY <1>1, <1>2, NextKept, Invariance, PTL DEF Spec
<1> QED
  BY <1>3 DEF ReplacedIsKept
-----------------------------------------------------------------------------
(* The readers of the sessions endpoint.                                   *)

\* A run that has begun is newer than the offer o, or is the one that made it.
NewerRun(o, r) ==
  /\ r.pc \in {"fetch", "sessions"} => o.at < r.started
  /\ r.pc = "names" => o.at < r.next.at \/ (o.at = r.next.at /\ o.listed = r.next.listed)

\* So is the snapshot that is stored.
OfferInv ==
  \A v \in Readers : reading[v].told = "sessions" =>
    LET o == reading[v]
    IN  /\ o.at <= now
        /\ active # Missing =>
             o.at < active.at \/ (o.at = active.at /\ o.listed = active.listed)
        /\ \A r \in runs : NewerRun(o, r)

ReadsIInv ==
  /\ IInv /\ FreshInv
  /\ reading \in [Readers -> Reading]
  /\ OfferInv

LEMMA ReadsImplement == [ReadsNext]_readsVars => [Next]_vars
BY DEF ReadsNext, readsVars, GetActiveSessions, AskForFlights, Tell

\* A step of the job, after which time, the snapshot and the runs are those from
\* before, or fewer.
LEMMA OffersStay ==
  ASSUME OfferInv, UNCHANGED <<now, reading>>, active' \in {active, Missing},
         \A r \in runs' : \E o \in runs : /\ r.started = o.started /\ o.pc = "fetch"
                                         /\ r.pc \in {"fetch", "sessions"}
  PROVE  OfferInv'
<1> SUFFICES ASSUME NEW v \in Readers, reading[v].told = "sessions"
             PROVE  \A r \in runs' : NewerRun(reading[v], r)
  BY DEF OfferInv
<1> QED
  BY DEF OfferInv, NewerRun

LEMMA TickOffers ==
  ASSUME IInv, reading \in [Readers -> Reading], OfferInv, Tick, UNCHANGED reading
  PROVE  OfferInv'
<1> SUFFICES ASSUME NEW v \in Readers, reading[v].told = "sessions"
             PROVE  /\ reading[v].at <= now'
                    /\ \A r \in runs' : NewerRun(reading[v], r)
  BY DEF OfferInv, Tick
<1>1. /\ now' = now + 1 /\ now \in Nat /\ reading[v].at \in Nat /\ reading[v].at <= now
      /\ runs' \subseteq runs \cup {NewRun(now + 1)}
  BY Times, TimeIsNat DEF Tick, Fire, OfferInv, Reading
<1>2. ASSUME NEW r \in runs' PROVE NewerRun(reading[v], r)
  <2>1. CASE r \in runs
    BY <2>1 DEF OfferInv
  <2>2. CASE r = NewRun(now + 1)
    <3>1. r.pc = "fetch" /\ r.started = now + 1
      BY <2>2 DEF NewRun
    <3> QED
      BY <1>1, <3>1 DEF NewerRun
  <2> QED
    BY <1>1, <2>1, <2>2
<1> QED
  BY <1>1, <1>2

\* What is stored is newer than any offer; the run that goes on made it.
LEMMA StoreOffers ==
  ASSUME IInv, reading \in [Readers -> Reading], OfferInv, UNCHANGED reading,
         NEW r \in runs, StoreSessions(r) \/ StoreSessionsFails(r)
  PROVE  OfferInv'
<1> SUFFICES ASSUME NEW v \in Readers, reading[v].told = "sessions"
             PROVE  /\ active' # active => reading[v].at < active'.at
                    /\ \A o \in runs' : NewerRun(reading[v], o)
  BY DEF OfferInv, StoreSessions, StoreSessionsFails
<1>1. /\ r.pc = "sessions" /\ r.started \in Nat /\ r.next.at \in Nat
      /\ r.started <= r.next.at /\ InOrder(r.next)
  BY Times DEF StoreSessions, StoreSessionsFails, IInv, RunInv
<1>2. reading[v].at \in Nat /\ reading[v].at < r.started
  BY <1>1, TimeIsNat DEF OfferInv, NewerRun, Reading
<1>3. Stored(r.next).at = r.next.at
  BY <1>1, StoredSnapshot DEF IInv
<1>4. CASE StoreSessions(r)
  <2>1. active' = Stored(r.next)
    BY <1>4 DEF StoreSessions
  <2>2. ASSUME NEW o \in runs' PROVE o.pc = "names" /\ o.next = r.next
    <3>1. o = [r EXCEPT !.pc = "names"]
      BY <1>4, OnlyRun DEF StoreSessions, IInv
    <3> QED
      BY <3>1, Times DEF Run
  <2>3. ASSUME NEW o \in runs' PROVE NewerRun(reading[v], o)
    BY <1>1, <1>2, <2>2 DEF NewerRun
  <2> QED
    BY <1>1, <1>2, <1>3, <2>1, <2>3
<1>5. CASE StoreSessionsFails(r)
  BY <1>1, <1>2, <1>3, <1>5, RunEnds DEF StoreSessionsFails, Fail, IInv
<1> QED
  BY <1>4, <1>5

\* What the endpoint answers with is what is stored.
LEMMA GetOffers ==
  ASSUME IInv, FreshInv, reading \in [Readers -> Reading], OfferInv,
         NEW v \in Readers, GetActiveSessions(v) \/ \E n \in Names : AskForFlights(v, n)
  PROVE  reading' \in [Readers -> Reading] /\ OfferInv'
<1> DEFINE offer == [told |-> "sessions", at |-> active.at, listed |-> active.listed]
<1>1. UNCHANGED vars
  BY DEF GetActiveSessions, AskForFlights, Tell
<1>2. PICK o \in Reading :
        /\ reading' = [reading EXCEPT ![v] = o]
        /\ o.told = "sessions" => active # Missing /\ o.at = active.at /\ o.listed = active.listed
  <2>1. CASE active # Missing /\ reading' = [reading EXCEPT ![v] = offer]
    <3>1. offer \in Reading
      BY <2>1 DEF IInv, TypeOK, Snapshot, Reading
    <3> QED
      BY <2>1, <3>1
  <2>2. CASE reading' = [reading EXCEPT ![v] = Nothing]
    <3>1. Nothing \in Reading
      BY SessionsJobAssumption DEF Nothing, Reading, Time
    <3> QED
      BY <2>2, <3>1 DEF Nothing
  <2>3. CASE reading' = [reading EXCEPT ![v] = [reading[v] EXCEPT !.told = "unknownServer"]]
    <3>1. [reading[v] EXCEPT !.told = "unknownServer"] \in Reading
      BY DEF Reading
    <3> QED
      BY <2>3, <3>1 DEF Reading
  <2> QED
    BY <2>1, <2>2, <2>3 DEF GetActiveSessions, AskForFlights, Tell
<1>3. \A w \in Readers : reading'[w] = IF w = v THEN o ELSE reading[w]
  BY <1>2
<1>4. o.told = "sessions" =>
        /\ o.at <= now
        /\ \A r \in runs : NewerRun(o, r)
  <2> SUFFICES ASSUME o.told = "sessions"
               PROVE  o.at <= now /\ \A r \in runs : NewerRun(o, r)
    OBVIOUS
  <2>1. active # Missing /\ o.at = active.at /\ o.listed = active.listed
    BY <1>2
  <2> QED
    BY <2>1, Times DEF IInv, RunInv, FreshInv, RunFresh, NewerRun
<1>5. OfferInv'
  BY <1>1, <1>2, <1>3, <1>4 DEF OfferInv, vars, NewerRun
<1> QED
  BY <1>2, <1>5

LEMMA NextOffers == IInv' /\ FreshInv' /\ ReadsIInv /\ [ReadsNext]_readsVars => ReadsIInv'
<1> SUFFICES ASSUME IInv', FreshInv', ReadsIInv, [ReadsNext]_readsVars
             PROVE  reading' \in [Readers -> Reading] /\ OfferInv'
  BY DEF ReadsIInv
<1> USE DEF ReadsIInv
<1>1. ASSUME NEW r \in runs, FetchSessions(r), UNCHANGED reading PROVE OfferInv'
  <2>1. PICK r2 : /\ Continue(r, r2) /\ r2.started = r.started /\ r2.pc = "sessions"
                  /\ r.pc = "fetch" /\ UNCHANGED <<now, active, names>>
    BY <1>1, Times DEF FetchSessions, Run
  <2>2. runs' = {r2}
    BY <2>1, OnlyRun DEF IInv
  <2> QED
    BY <1>1, <2>1, <2>2, OffersStay
<1>2. ASSUME NEW r \in runs, FetchFails(r) \/ StoreNames(r) \/ StoreNamesFails(r),
             UNCHANGED reading
      PROVE  OfferInv'
  <2>1. runs' = {} /\ UNCHANGED <<now, active>>
    BY <1>2, RunEnds DEF FetchFails, StoreNames, StoreNamesFails, Fail, Succeed, IInv
  <2> QED
    BY <1>2, <2>1, OffersStay
<1>3. CASE Crash /\ UNCHANGED reading
  BY <1>3, OffersStay DEF Crash
<1>4. CASE (Restart \/ UNCHANGED vars) /\ UNCHANGED reading
  <2>1. UNCHANGED <<now, runs, active>>
    BY <1>4 DEF Restart, vars
  <2> QED
    BY <1>4, <2>1 DEF OfferInv, NewerRun
<1>5. CASE Next /\ UNCHANGED reading
  BY <1>1, <1>2, <1>3, <1>4, <1>5, TickOffers, StoreOffers DEF Next, RunStep, Terminating
<1> QED
  BY <1>4, <1>5, GetOffers DEF ReadsNext, readsVars

\* The endpoint and its readers leave the job as it is.
THEOREM ReadsImplementJob == ReadsSpec => Spec
<1>1. ReadsInit => Init
  BY DEF ReadsInit
<1> QED
  BY <1>1, ReadsImplement, PTL DEF ReadsSpec, Spec

THEOREM ReadsInvariance == ReadsSpec => []ReadsIInv
<1>1. ReadsInit => reading \in [Readers -> Reading] /\ OfferInv
  BY SessionsJobAssumption DEF ReadsInit, Nothing, Reading, Time, OfferInv
<1>2. ReadsInit /\ IInv /\ FreshInv => ReadsIInv
  BY <1>1 DEF ReadsIInv
<1>3. ReadsSpec => [](IInv /\ FreshInv)
  BY ReadsImplementJob, Freshness, PTL
<1> QED
  BY <1>2, <1>3, NextOffers, PTL DEF ReadsSpec

\* Types hold, of the job and of its readers.
THEOREM ReadsTypeCorrect == ReadsSpec => []ReadsTypeOK
<1>1. ReadsIInv => ReadsTypeOK
  BY DEF ReadsIInv, IInv, ReadsTypeOK
<1> QED
  BY <1>1, ReadsInvariance, PTL

\* A server that was offered is refused only for a newer refresh, or an offer
\* that was never made good.
THEOREM OffersAreGood == ReadsSpec => OfferedIsKnown
<1>1. ReadsIInv /\ [ReadsNext]_readsVars =>
        [\A v \in Readers :
           reading[v].told = "sessions" /\ reading'[v].told = "unknownServer" =>
             \/ active = Missing \/ active.at > reading[v].at
             \/ lastSuccess = Missing \/ lastSuccess < reading[v].at]_readsVars
  <2> SUFFICES ASSUME ReadsIInv, ReadsNext, NEW v \in Readers,
                      reading[v].told = "sessions", reading'[v].told = "unknownServer"
               PROVE  \/ active = Missing \/ active.at > reading[v].at
                      \/ lastSuccess = Missing \/ lastSuccess < reading[v].at
    OBVIOUS
  <2>1. PICK n \in Names : n \in NamesOf(reading[v].listed) /\ ~Known(n)
    <3>1. reading \in [Readers -> Reading] /\ reading' # reading
      BY DEF ReadsIInv
    <3>2. PICK w \in Readers : GetActiveSessions(w) \/ \E n \in Names : AskForFlights(w, n)
      BY <3>1 DEF ReadsNext
    <3>3. PICK n \in Names : AskForFlights(w, n) /\ w = v
      BY <3>1, <3>2 DEF GetActiveSessions, AskForFlights, Tell, Nothing
    <3> QED
      BY <3>1, <3>3 DEF AskForFlights, Tell, Nothing
  <2>2. names # NamesOf(reading[v].listed)
    BY <2>1 DEF Known
  <2>3. /\ reading[v].at \in Nat
        /\ active # Missing => active.at \in Nat
        /\ lastSuccess # Missing => lastSuccess \in Nat
    BY Times, TimeIsNat DEF ReadsIInv, Reading
  <2> QED
    BY <2>2, <2>3 DEF ReadsIInv, OfferInv, FreshInv, NamesAgree
<1> QED
  BY <1>1, ReadsInvariance, PTL DEF ReadsSpec, OfferedIsKnown
=============================================================================

-------------------------- MODULE GameReadsProofs --------------------------
(***************************************************************************)
(* Proofs about GameReads, for any sessions, flights, times to live,       *)
(* requests and faults.  Each of the two jobs does nothing beside the      *)
(* other that it does not do alone, so that what is proved of it in        *)
(* SessionsJobProofs and FlightsJobProofs holds here; what is proved of    *)
(* the requests rests on that.                                             *)
(***************************************************************************)
EXTENDS GameReads, Integers, TLAPS

SJP == INSTANCE SessionsJobProofs
  WITH Names <- Names \cup {NoName}, TTL <- SessionsTTL, Faults <- SessionsFaults,
       runs <- sessionRuns, lastSuccess <- sessionsSuccess,
       Readers <- {}, ReadFaults <- {}, reading <- << >>

FJP == INSTANCE FlightsJobProofs
  WITH TTL <- FlightsTTL, Faults <- FlightsFaults, None <- MaxTime + 1,
       runs <- flightRuns, lastSuccess <- flightsSuccess
-----------------------------------------------------------------------------
(* The jobs are those whose proofs are cited.                              *)

LEMMA SameSessionsJob ==
  /\ SJ!Init <=> SJP!Init
  /\ SJ!Next <=> SJP!Next
  /\ SJ!vars = SJP!vars
  /\ SJ!TypeOK <=> SJP!TypeOK
<1>1. SJ!Tick <=> SJP!Tick
  BY DEF SJ!Tick, SJP!Tick, SJ!Fire, SJP!Fire, SJ!Due, SJP!Due, SJ!NewRun, SJP!NewRun,
         SJ!metrics, SJP!metrics
<1>2. \A r : SJ!FetchSessions(r) <=> SJP!FetchSessions(r)
  BY DEF SJ!FetchSessions, SJP!FetchSessions, SJ!Continue, SJP!Continue, SJ!GetSessions,
         SJP!GetSessions, SJ!PastOf, SJP!PastOf, SJ!NextHistory, SJP!NextHistory,
         SJ!Newest, SJP!Newest, SJ!metrics, SJP!metrics
<1>3. \A r : /\ SJ!FetchFails(r) <=> SJP!FetchFails(r)
             /\ SJ!StoreSessions(r) <=> SJP!StoreSessions(r)
             /\ SJ!StoreSessionsFails(r) <=> SJP!StoreSessionsFails(r)
  BY DEF SJ!FetchFails, SJP!FetchFails, SJ!StoreSessions, SJP!StoreSessions,
         SJ!StoreSessionsFails, SJP!StoreSessionsFails, SJ!GetSessions, SJP!GetSessions,
         SJ!Fail, SJP!Fail, SJ!Continue, SJP!Continue, SJ!Stored, SJP!Stored,
         SJ!metrics, SJP!metrics
<1>4. \A r : /\ SJ!StoreNames(r) <=> SJP!StoreNames(r)
             /\ SJ!StoreNamesFails(r) <=> SJP!StoreNamesFails(r)
  BY DEF SJ!StoreNames, SJP!StoreNames, SJ!StoreNamesFails, SJP!StoreNamesFails,
         SJ!NamesOf, SJP!NamesOf, SJ!Succeed, SJP!Succeed, SJ!Fail, SJP!Fail
<1>5. SJ!RunStep <=> SJP!RunStep
  BY <1>2, <1>3, <1>4 DEF SJ!RunStep, SJP!RunStep
<1>6. SJ!Crash \/ SJ!Restart \/ SJ!Terminating <=> SJP!Crash \/ SJP!Restart \/ SJP!Terminating
  BY DEF SJ!Crash, SJP!Crash, SJ!Restart, SJP!Restart, SJ!Terminating, SJP!Terminating,
         SJ!metrics, SJP!metrics, SJ!vars, SJP!vars
<1>7. SJ!Init <=> SJP!Init
  BY DEF SJ!Init, SJP!Init
<1>8. SJ!TypeOK <=> SJP!TypeOK
  BY DEF SJ!TypeOK, SJP!TypeOK, SJ!Time, SJP!Time, SJ!Run, SJP!Run, SJ!Refresh, SJP!Refresh,
         SJ!Snapshot, SJP!Snapshot
<1> QED
  BY <1>1, <1>5, <1>6, <1>7, <1>8 DEF SJ!Next, SJP!Next, SJ!vars, SJP!vars

LEMMA SameFlightsJob ==
  /\ FJ!Init <=> FJP!Init
  /\ FJ!Next <=> FJP!Next
  /\ FJ!vars = FJP!vars
  /\ FJ!TypeOK <=> FJP!TypeOK
<1>1. FJ!Tick <=> FJP!Tick
  BY DEF FJ!Tick, FJP!Tick, FJ!Fire, FJP!Fire, FJ!NewRun, FJP!NewRun,
         FJ!Unexpired, FJP!Unexpired
<1>2. \A r, cached : FJ!ReadActiveSessions(r, cached) <=> FJP!ReadActiveSessions(r, cached)
  BY DEF FJ!ReadActiveSessions, FJP!ReadActiveSessions, FJ!Continue, FJP!Continue,
         FJ!Succeed, FJP!Succeed, FJ!redis, FJP!redis
<1>3. \A r, s : /\ FJ!PassOver(r, s) <=> FJP!PassOver(r, s)
                /\ FJ!FetchFlights(r, s) <=> FJP!FetchFlights(r, s)
  BY DEF FJ!PassOver, FJP!PassOver, FJ!FetchFlights, FJP!FetchFlights,
         FJ!Refreshable, FJP!Refreshable, FJ!GetSessionFlights, FJP!GetSessionFlights,
         FJ!ReadOutcomes, FJP!ReadOutcomes, FJ!Continuing, FJP!Continuing,
         FJ!Continue, FJP!Continue, FJ!redis, FJP!redis
<1>4. \A r, f : FJ!LoadHistory(r, f) <=> FJP!LoadHistory(r, f)
  BY DEF FJ!LoadHistory, FJP!LoadHistory, FJ!ReadOutcomes, FJP!ReadOutcomes,
         FJ!Continue, FJP!Continue, FJ!redis, FJP!redis
<1>5. \A r : FJ!StoreHistory(r) <=> FJP!StoreHistory(r)
  BY DEF FJ!StoreHistory, FJP!StoreHistory, FJ!Applied, FJP!Applied, FJ!NextHistory,
         FJP!NextHistory, FJ!Newest, FJP!Newest, FJ!Continue, FJP!Continue
<1>6. \A r : /\ FJ!StoreSnapshot(r) <=> FJP!StoreSnapshot(r)
             /\ FJ!Finish(r) <=> FJP!Finish(r)
  BY DEF FJ!StoreSnapshot, FJP!StoreSnapshot, FJ!Finish, FJP!Finish, FJ!Applied, FJP!Applied,
         FJ!Stored, FJP!Stored, FJ!Continue, FJP!Continue, FJ!Succeed, FJP!Succeed,
         FJ!redis, FJP!redis
<1>7. FJ!RunStep <=> FJP!RunStep
  <2>1. FJ!CachedSessions = FJP!CachedSessions
    BY DEF FJ!CachedSessions, FJP!CachedSessions
  <2> QED
    BY <1>2, <1>3, <1>4, <1>5, <1>6, <2>1 DEF FJ!RunStep, FJP!RunStep
<1>8. FJ!Crash \/ FJ!Restart \/ FJ!Terminating <=> FJP!Crash \/ FJP!Restart \/ FJP!Terminating
  BY DEF FJ!Crash, FJP!Crash, FJ!Restart, FJP!Restart, FJ!Terminating, FJP!Terminating,
         FJ!redis, FJP!redis, FJ!vars, FJP!vars
<1>9. FJ!Init <=> FJP!Init
  BY DEF FJ!Init, FJP!Init
<1>10. FJ!TypeOK <=> FJP!TypeOK
  BY DEF FJ!TypeOK, FJP!TypeOK, FJ!Time, FJP!Time, FJ!Run, FJP!Run, FJ!Snapshot, FJP!Snapshot,
         FJ!StoredHistory, FJP!StoredHistory
<1> QED
  BY <1>1, <1>7, <1>8, <1>9, <1>10 DEF FJ!Next, FJP!Next, FJ!vars, FJP!vars
-----------------------------------------------------------------------------
(* The jobs in company.                                                    *)

\* What the two jobs' proofs assume.
LEMMA JobsAssumptions ==
  /\ SJP!SessionsJobAssumption /\ SJP!SessionReadsAssumption
  /\ FJP!FlightsJobAssumption /\ FJP!FlightsJobTrailAssumption
<1>1. SJP!SessionsJobAssumption /\ SJP!SessionReadsAssumption
  BY GameReadsAssumption
     DEF SJ!AllFaults, SJP!AllFaults, SJP!SessionsJobAssumption, SJP!SessionReadsAssumption
<1>2. FJP!FlightsJobAssumption
  BY GameReadsAssumption DEF FJ!AllFaults, FJP!AllFaults, FJP!FlightsJobAssumption
<1>3. FJP!FlightsJobTrailAssumption
  <2>1. MaxTime + 1 \notin FJP!Time
    BY GameReadsAssumption DEF FJP!Time
  <2>2. FJP!Snapshot = FJ!Snapshot /\ FJP!StoredHistory = FJ!StoredHistory
    BY DEF FJP!Snapshot, FJ!Snapshot, FJP!StoredHistory, FJ!StoredHistory, FJP!Time, FJ!Time
  <2> QED
    BY <2>1, <2>2, GameReadsAssumption DEF FJP!FlightsJobTrailAssumption
<1> QED
  BY <1>1, <1>2, <1>3

\* A step of GameReads is one of the sessions job, or leaves it alone.
LEMMA SessionsInCompany == [Next]_vars => [SJP!Next]_(SJP!vars)
<1> SUFFICES ASSUME Next PROVE [SJ!Next]_(SJ!vars)
  BY SameSessionsJob DEF vars, clock, sessionsVars, SJ!vars, SJP!vars
<1>1. CASE Tick \/ SessionsStep \/ Crash \/ Restart
  BY <1>1 DEF Tick, SessionsStep, Crash, Restart, SJ!Next
<1>2. CASE FlightsStep
  BY <1>2 DEF FlightsStep, FJ!ReadActiveSessions, FJ!PassOver, FJ!FetchFlights, FJ!LoadHistory,
              FJ!StoreHistory, FJ!StoreSnapshot, FJ!Finish, sessionsVars, SJ!vars
<1>3. CASE Terminating
  BY <1>3 DEF Terminating, vars, clock, sessionsVars, SJ!vars
<1>4. ASSUME NEW q \in Requests,
             \/ \E n \in Names : AskList(q, n)
             \/ CheckServer(q) \/ ReadList(q) \/ AnswerPage(q) \/ AnswerMarkers(q)
             \/ \E f \in Flights : AskFlight(q, f)
             \/ ReadFlight(q) \/ AnswerFlight(q)
      PROVE  UNCHANGED <<clock, sessionsVars>>
  BY <1>4 DEF AskList, CheckServer, ReadList, AnswerPage, AnswerMarkers, AskFlight,
              ReadFlight, AnswerFlight, Become
<1> QED
  BY <1>1, <1>2, <1>3, <1>4 DEF Next, clock, sessionsVars, SJ!vars

LEMMA SessionsUndisturbed == Spec => SJP!Spec
<1>1. Init => SJP!Init
  BY SameSessionsJob DEF Init
<1> QED
  BY <1>1, SessionsInCompany, PTL DEF Spec, SJP!Spec

LEMMA SessionsTypes == Spec => []SJP!TypeOK
<1>1. SJP!Spec => []SJP!TypeOK
  BY SJP!TypeCorrect, JobsAssumptions
<1> QED
  BY <1>1, SessionsUndisturbed, PTL

\* A step of GameReads is one of the flights job, or leaves it alone: what is
\* cached of the sessions is what that job may find.
LEMMA FlightsInCompany == SJP!TypeOK /\ [Next]_vars => [FJP!Next]_(FJP!vars)
<1> SUFFICES ASSUME SJP!TypeOK, Next PROVE [FJ!Next]_(FJ!vars)
  BY SameFlightsJob DEF vars, clock, flightsVars, FJ!vars, FJP!vars
<1>1. CASE Tick \/ Crash \/ Restart
  BY <1>1 DEF Tick, Crash, Restart, FJ!Next
<1>2. CASE SessionsStep
  <2>1. UNCHANGED clock
    BY <1>2 DEF SessionsStep, SJ!RunStep, SJ!FetchSessions, SJ!FetchFails, SJ!StoreSessions,
                SJ!StoreSessionsFails, SJ!StoreNames, SJ!StoreNamesFails, clock
  <2> QED
    BY <1>2, <2>1 DEF SessionsStep, clock, flightsVars, FJ!vars
<1>3. CASE FlightsStep
  <2>1. PICK r \in flightRuns :
          \/ \E cached \in CachedNow : FJ!ReadActiveSessions(r, cached)
          \/ \E s \in Sessions : FJ!PassOver(r, s) \/ FJ!FetchFlights(r, s)
          \/ \E f \in Flights : FJ!LoadHistory(r, f)
          \/ FJ!StoreHistory(r) \/ FJ!StoreSnapshot(r) \/ FJ!Finish(r)
    BY <1>3 DEF FlightsStep
  <2>2. ASSUME NEW cached \in CachedNow, FJ!ReadActiveSessions(r, cached)
        PROVE  \E found \in FJ!CachedSessions : FJ!ReadActiveSessions(r, found)
    <3>1. cached = Missing \/ cached \in SUBSET Sessions
      BY DEF CachedNow, SJP!TypeOK, SJP!Snapshot
    <3>2. cached = Missing => FJ!ReadActiveSessions(r, {})
      BY <2>2 DEF FJ!ReadActiveSessions
    <3> QED
      BY <2>2, <3>1, <3>2 DEF FJ!CachedSessions
  <2> QED
    BY <2>1, <2>2 DEF FJ!RunStep, FJ!Next
<1>4. CASE Terminating
  BY <1>4 DEF Terminating, vars, clock, flightsVars, FJ!vars
<1>5. ASSUME NEW q \in Requests,
             \/ \E n \in Names : AskList(q, n)
             \/ CheckServer(q) \/ ReadList(q) \/ AnswerPage(q) \/ AnswerMarkers(q)
             \/ \E f \in Flights : AskFlight(q, f)
             \/ ReadFlight(q) \/ AnswerFlight(q)
      PROVE  UNCHANGED <<clock, flightsVars>>
  BY <1>5 DEF AskList, CheckServer, ReadList, AnswerPage, AnswerMarkers, AskFlight,
              ReadFlight, AnswerFlight, Become
<1> QED
  BY <1>1, <1>2, <1>3, <1>4, <1>5 DEF Next, clock, flightsVars, FJ!vars

LEMMA FlightsUndisturbed == Spec => FJP!Spec
<1>1. Init => FJP!Init
  BY SameFlightsJob DEF Init
<1> QED
  BY <1>1, FlightsInCompany, SessionsTypes, PTL DEF Spec, FJP!Spec

\* With requests at any time, and each beside the other, the two jobs do nothing
\* that they do not do alone.
THEOREM JobsUndisturbed == Spec => SJ!Spec /\ FJ!Spec
<1>1. Init => SJ!Init /\ FJ!Init
  BY DEF Init
<1>2. [Next]_vars => [SJ!Next]_(SJ!vars)
  BY SessionsInCompany, SameSessionsJob DEF SJ!vars, SJP!vars
<1>3. SJP!TypeOK /\ [Next]_vars => [FJ!Next]_(FJ!vars)
  BY FlightsInCompany, SameFlightsJob DEF FJ!vars, FJP!vars
<1> QED
  BY <1>1, <1>2, <1>3, SessionsTypes, PTL DEF Spec, SJ!Spec, FJ!Spec

\* So all that is proved of them holds.
JobsInv == FJP!IInv /\ FJP!SnapshotsLive /\ SJP!TypeOK

LEMMA JobsInvariance == Spec => []JobsInv
<1>1. FJP!Spec => [](FJP!IInv /\ FJP!TrailInv /\ FJP!SnapshotsLive)
  BY FJP!SnapshotsExpire, JobsAssumptions
<1>2. FJP!IInv /\ FJP!TrailInv /\ FJP!SnapshotsLive /\ SJP!TypeOK => JobsInv
  BY DEF JobsInv
<1> QED
  BY <1>1, <1>2, FlightsUndisturbed, SessionsTypes, PTL
-----------------------------------------------------------------------------
(* The requests.                                                           *)

\* The server a flight is on.
Server(f) == NameOf[SessionOf[f]]

RequestsTyped ==
  /\ requests \in [Requests -> Request]
  /\ marked \in [Flights -> Time \cup {Missing}]
  /\ returned \in [Names -> Time \cup {Missing}]
  /\ restarted \in Time \cup {Missing}

\* What a request has in hand was stored for its server, and nothing that is
\* read there from now on is older than what a marker of it may name.
RequestOK(r) ==
  /\ r.pc # "idle" => r.server \in Names /\ r.sent <= now /\ now <= r.sent + MaxRequestTicks
  /\ r.pc = "listed" =>
       /\ \A f \in r.kept : Server(f) = r.server
       /\ FJP!NothingOlder(r.server, r.at)
  /\ r.pc = "flight" => FJP!NothingOlder(r.server, r.floor)
  /\ r.pc = "found" => r.floor <= r.at /\ r.sent < r.at + MaxRunTicks + FlightsTTL

\* The same of what a map was given.
MarkOK(f) ==
  marked[f] # Missing => Server(f) \in Names /\ FJP!NothingOlder(Server(f), marked[f])

IInv ==
  /\ RequestsTyped
  /\ \A q \in Requests : RequestOK(requests[q])
  /\ \A f \in Flights : MarkOK(f)

LEMMA Numbers ==
  /\ MaxTime \in Nat /\ MaxRunTicks \in Nat /\ FlightsTTL \in Nat /\ MaxRequestTicks \in Nat
  /\ \A t \in Time : t \in Nat
  /\ FJP!Time = Time
BY GameReadsAssumption DEF Time, FJP!Time

\* What was the oldest to be read of a server stays so.
LEMMA NothingOlderKept ==
  ASSUME JobsInv, Next, NEW n \in Names, NEW t \in Nat, FJP!NothingOlder(n, t)
  PROVE  FJP!NothingOlder(n, t)'
<1>1. [FJP!Next]_(FJP!vars)
  BY FlightsInCompany DEF JobsInv
<1>2. CASE FJP!Next
  BY <1>2, FJP!NothingOlderStays, JobsAssumptions DEF JobsInv
<1>3. CASE UNCHANGED FJP!vars
  BY <1>3 DEF FJP!vars, FJP!NothingOlder
<1> QED
  BY <1>1, <1>2, <1>3

\* While the clock stands and the requests wait, what is true of them stays true.
LEMMA OthersStay ==
  ASSUME JobsInv, IInv, Next, NEW r \in Request, RequestOK(r),
         r.pc # "idle" => now' <= r.sent + MaxRequestTicks
  PROVE  RequestOK(r)'
<1>1. now \in Nat /\ now' \in {now, now + 1}
  <2>1. now \in FJP!Time
    BY DEF JobsInv, FJP!IInv, FJP!TypeOK
  <2>2. [FJP!Next]_(FJP!vars)
    BY FlightsInCompany DEF JobsInv
  <2>3. FJP!Next => now' \in {now, now + 1}
    BY FJP!StepEffect, JobsAssumptions DEF JobsInv
  <2> QED
    BY <2>1, <2>2, <2>3, Numbers DEF FJP!vars
<1>2. r.at \in Nat /\ r.floor \in Nat /\ r.sent \in Nat
  BY Numbers DEF Request
<1>3. r.pc # "idle" => r.server \in Names /\ r.sent <= now'
  BY <1>1, <1>2 DEF RequestOK
<1>4. r.pc = "listed" => FJP!NothingOlder(r.server, r.at)'
  BY <1>2, <1>3, NothingOlderKept DEF RequestOK
<1>5. r.pc = "flight" => FJP!NothingOlder(r.server, r.floor)'
  BY <1>2, <1>3, NothingOlderKept DEF RequestOK
<1> QED
  BY <1>3, <1>4, <1>5 DEF RequestOK, Server

LEMMA MarksStay ==
  ASSUME JobsInv, IInv, Next, NEW f \in Flights, marked'[f] = marked[f]
  PROVE  MarkOK(f)'
<1>1. marked[f] # Missing => marked[f] \in Nat
  BY Numbers DEF IInv, RequestsTyped
<1> QED
  BY <1>1, NothingOlderKept DEF IInv, MarkOK, Server

\* A request goes on as r2; what is true of the others stays true.
LEMMA RequestGoesOn ==
  ASSUME JobsInv, IInv, Next, NEW q \in Requests, NEW r2 \in Request, Become(q, r2),
         RequestOK(r2), UNCHANGED marked
  PROVE  IInv'
<1>1. UNCHANGED <<clock, returned, restarted>> /\ requests' = [requests EXCEPT ![q] = r2]
  BY DEF Become
<1>2. RequestsTyped'
  BY <1>1 DEF IInv, RequestsTyped
<1>3. ASSUME NEW p \in Requests PROVE RequestOK(requests[p])'
  <2>1. /\ requests'[p] \in Request /\ RequestOK(requests'[p])
    BY <1>1 DEF IInv, RequestsTyped
  <2>2. requests'[p].pc # "idle" => now' <= requests'[p].sent + MaxRequestTicks
    BY <1>1, <2>1 DEF RequestOK, clock
  <2> QED
    BY <2>2, <1>1, <2>1, OthersStay
<1>4. \A f \in Flights : MarkOK(f)'
  BY MarksStay
<1> QED
  BY <1>2, <1>3, <1>4 DEF IInv

LEMMA IdleOK == Idle \in Request /\ RequestOK(Idle)
<1>1. 0 \in Time
  BY Numbers DEF Time
<1> QED
  BY <1>1 DEF Idle, Request, RequestOK

\* A request ends.
LEMMA RequestEnds ==
  ASSUME JobsInv, IInv, Next, NEW q \in Requests, Become(q, Idle), UNCHANGED marked
  PROVE  IInv'
BY IdleOK, RequestGoesOn

\* A request is made, now.
LEMMA NowIsTime == JobsInv => now \in Time /\ now \in Nat
BY Numbers DEF JobsInv, FJP!IInv, FJP!TypeOK

LEMMA AskListInv ==
  ASSUME JobsInv, IInv, Next, NEW q \in Requests, NEW n \in Names, AskList(q, n)
  PROVE  IInv'
<1> DEFINE r2 == [Idle EXCEPT !.pc = "names", !.sent = now, !.server = n]
<1>1. r2 \in Request /\ r2.pc = "names" /\ r2.server = n /\ r2.sent = now
  BY IdleOK, NowIsTime DEF Idle, Request
<1>2. Become(q, r2) /\ UNCHANGED marked
  BY DEF AskList
<1> HIDE DEF r2
<1>3. now \in Nat /\ MaxRequestTicks \in Nat
  BY NowIsTime, Numbers
<1>4. RequestOK(r2)
  BY <1>1, <1>3 DEF RequestOK
<1> QED
  BY <1>1, <1>2, <1>4, RequestGoesOn

LEMMA CheckServerInv ==
  ASSUME JobsInv, IInv, Next, NEW q \in Requests, CheckServer(q)
  PROVE  IInv'
<1> DEFINE r == requests[q]
           r2 == [r EXCEPT !.pc = "snapshot"]
<1>1. r \in Request /\ RequestOK(r) /\ r.pc = "names"
  BY DEF IInv, RequestsTyped, CheckServer
<1>2. r2 \in Request /\ r2.pc = "snapshot" /\ r2.server = r.server /\ r2.sent = r.sent
  BY <1>1 DEF Request
<1>3. (Become(q, r2) \/ Become(q, Idle)) /\ UNCHANGED marked
  BY DEF CheckServer
<1> HIDE DEF r2, r
<1>4. RequestOK(r2)
  BY <1>1, <1>2 DEF RequestOK
<1> QED
  BY <1>2, <1>3, <1>4, RequestGoesOn, RequestEnds

\* What is read of a server is of its flights, and nothing older is read later.
LEMMA SnapshotRead ==
  ASSUME JobsInv, NEW n \in Names, snapshots[n] # Missing
  PROVE  /\ snapshots[n].at \in Time /\ snapshots[n].flights \subseteq Flights
         /\ \A f \in snapshots[n].flights : Server(f) = n
         /\ FJP!NothingOlder(n, snapshots[n].at)
         /\ now < snapshots[n].at + MaxRunTicks + FlightsTTL
<1>1. snapshots[n] \in FJP!Snapshot
  BY DEF JobsInv, FJP!IInv, FJP!TypeOK
<1>2. \A f \in snapshots[n].flights : Server(f) = n
  BY DEF JobsInv, FJP!IInv, FJP!SnapshotsInPast, FJP!Server, Server
<1>3. FJP!NothingOlder(n, snapshots[n].at)
  BY FJP!NothingOlderNow, JobsAssumptions DEF JobsInv
<1>4. now < snapshots[n].exp /\ snapshots[n].exp <= snapshots[n].at + MaxRunTicks + FlightsTTL
  BY DEF JobsInv, FJP!SnapshotsLive
<1>5. snapshots[n].at \in Time /\ snapshots[n].flights \subseteq Flights /\ snapshots[n].exp \in Nat
  BY <1>1, Numbers DEF FJP!Snapshot
<1>6. now < snapshots[n].at + MaxRunTicks + FlightsTTL
  <2>1. /\ now \in Nat /\ snapshots[n].at \in Nat /\ snapshots[n].exp \in Nat
        /\ MaxRunTicks \in Nat /\ FlightsTTL \in Nat
    BY <1>5, NowIsTime, Numbers
  <2> QED
    BY <1>4, <2>1
<1> QED
  BY <1>2, <1>3, <1>5, <1>6

LEMMA ReadListInv ==
  ASSUME JobsInv, IInv, Next, NEW q \in Requests, ReadList(q)
  PROVE  IInv'
<1> DEFINE r == requests[q]
<1>1. r \in Request /\ RequestOK(r) /\ r.pc = "snapshot" /\ r.server \in Names
  BY DEF IInv, RequestsTyped, ReadList, RequestOK
<1>2. CASE Become(q, Idle) /\ UNCHANGED marked
  BY <1>2, RequestEnds
<1>3. ASSUME snapshots[r.server] # Missing, UNCHANGED marked,
             NEW kept \in SUBSET snapshots[r.server].flights,
             Become(q, [r EXCEPT !.pc = "listed", !.kept = kept, !.at = snapshots[r.server].at])
      PROVE  IInv'
  <2> DEFINE at == snapshots[r.server].at
             r2 == [r EXCEPT !.pc = "listed", !.kept = kept, !.at = at]
  <2>1. /\ at \in Time /\ kept \subseteq Flights
        /\ \A f \in kept : Server(f) = r.server
        /\ FJP!NothingOlder(r.server, at)
    BY <1>1, <1>3, SnapshotRead
  <2>2. /\ r2 \in Request /\ r2.pc = "listed" /\ r2.server = r.server /\ r2.sent = r.sent
        /\ r2.kept = kept /\ r2.at = at
    BY <1>1, <2>1 DEF Request
  <2>3. Become(q, r2)
    BY <1>3
  <2> HIDE DEF r2, r, at
  <2>4. RequestOK(r2)
    BY <1>1, <2>1, <2>2 DEF RequestOK
  <2> QED
    BY <1>3, <2>2, <2>3, <2>4, RequestGoesOn
<1> QED
  BY <1>2, <1>3 DEF ReadList

\* What a map is given of a flight is what was read for its server.
LEMMA AnswerMarkersInv ==
  ASSUME JobsInv, IInv, Next, NEW q \in Requests, AnswerMarkers(q)
  PROVE  IInv'
<1> DEFINE r == requests[q]
<1>1. r \in Request /\ RequestOK(r) /\ r.pc = "listed" /\ r.server \in Names
  BY DEF IInv, RequestsTyped, AnswerMarkers, RequestOK
<1>2. PICK newer \in SUBSET r.kept :
        marked' = [f \in Flights |-> IF f \in newer THEN r.at ELSE marked[f]]
  BY DEF AnswerMarkers
<1>3. UNCHANGED <<clock, flightsVars, returned, restarted>>
      /\ requests' = [requests EXCEPT ![q] = Idle]
  BY DEF AnswerMarkers, Become
<1>4. RequestsTyped'
  <2>1. r.at \in Time
    BY <1>1 DEF Request
  <2>2. marked' \in [Flights -> Time \cup {Missing}]
    BY <1>2, <2>1 DEF IInv, RequestsTyped
  <2> QED
    BY <1>3, <2>2, IdleOK DEF IInv, RequestsTyped
<1>5. ASSUME NEW p \in Requests PROVE RequestOK(requests[p])'
  <2>1. requests'[p] \in Request /\ RequestOK(requests'[p])
    BY <1>3, IdleOK DEF IInv, RequestsTyped
  <2>2. requests'[p].pc # "idle" => now' <= requests'[p].sent + MaxRequestTicks
    BY <1>3, <2>1 DEF RequestOK, clock
  <2> QED
    BY <2>1, <2>2, OthersStay
<1>6. ASSUME NEW f \in Flights PROVE MarkOK(f)'
  <2>1. CASE marked'[f] = marked[f]
    BY <2>1, MarksStay
  <2>2. CASE f \in r.kept /\ marked'[f] = r.at
    <3>1. PICK n \in Names, t \in Nat : n = Server(f) /\ t = r.at /\ FJP!NothingOlder(n, t)
      BY <1>1, <2>2, Numbers DEF RequestOK, Request
    <3>2. FJP!NothingOlder(n, t)'
      BY <3>1, NothingOlderKept
    <3> QED
      BY <2>2, <3>1, <3>2 DEF MarkOK, Server
  <2> QED
    BY <1>2, <2>1, <2>2
<1> QED
  BY <1>4, <1>5, <1>6 DEF IInv

LEMMA AskFlightInv ==
  ASSUME JobsInv, IInv, Next, NEW q \in Requests, NEW f \in Flights, AskFlight(q, f)
  PROVE  IInv'
<1> DEFINE r2 == [Idle EXCEPT !.pc = "flight", !.sent = now, !.server = Server(f),
                              !.flight = f, !.floor = marked[f]]
<1>1. marked[f] \in Time /\ Server(f) \in Names /\ FJP!NothingOlder(Server(f), marked[f])
  BY DEF IInv, RequestsTyped, MarkOK, AskFlight
<1>2. /\ r2 \in Request /\ r2.pc = "flight" /\ r2.server = Server(f) /\ r2.sent = now
      /\ r2.floor = marked[f]
  BY <1>1, IdleOK, NowIsTime DEF Idle, Request
<1>3. Become(q, r2) /\ UNCHANGED marked
  BY DEF AskFlight, Server
<1> HIDE DEF r2
<1>4. now \in Nat /\ MaxRequestTicks \in Nat
  BY NowIsTime, Numbers
<1>5. RequestOK(r2)
  BY <1>1, <1>2, <1>4 DEF RequestOK
<1> QED
  BY <1>2, <1>3, <1>5, RequestGoesOn

\* What is found is no older than the marker, and was not stored too long ago.
LEMMA ReadFlightInv ==
  ASSUME JobsInv, IInv, Next, NEW q \in Requests, ReadFlight(q)
  PROVE  IInv'
<1> DEFINE r == requests[q]
<1>1. r \in Request /\ RequestOK(r) /\ r.pc = "flight" /\ r.server \in Names
  BY DEF IInv, RequestsTyped, ReadFlight, RequestOK
<1>2. CASE Become(q, Idle) /\ UNCHANGED marked
  BY <1>2, RequestEnds
<1>3. ASSUME snapshots[r.server] # Missing, UNCHANGED marked,
             Become(q, [r EXCEPT !.pc = "found", !.at = snapshots[r.server].at])
      PROVE  IInv'
  <2> DEFINE at == snapshots[r.server].at
             r2 == [r EXCEPT !.pc = "found", !.at = at]
  <2>1. at \in Time /\ now < at + MaxRunTicks + FlightsTTL
    BY <1>1, <1>3, SnapshotRead
  <2>2. r.floor <= at
    BY <1>1, <1>3 DEF RequestOK, FJP!NothingOlder
  <2>3. /\ r2 \in Request /\ r2.pc = "found" /\ r2.server = r.server /\ r2.sent = r.sent
        /\ r2.floor = r.floor /\ r2.at = at
    BY <1>1, <2>1 DEF Request
  <2>4. Become(q, r2)
    BY <1>3
  <2> HIDE DEF r2, r, at
  <2>5. r.sent <= now /\ now <= r.sent + MaxRequestTicks
    BY <1>1 DEF RequestOK
  <2>6. /\ r.sent \in Nat /\ at \in Nat /\ now \in Nat
        /\ MaxRunTicks \in Nat /\ FlightsTTL \in Nat
    BY <1>1, <2>1, NowIsTime, Numbers DEF Request
  <2>7. r.sent < at + MaxRunTicks + FlightsTTL
    BY <2>1, <2>5, <2>6
  <2>8. RequestOK(r2)
    BY <1>1, <2>2, <2>3, <2>5, <2>7 DEF RequestOK
  <2> QED
    BY <1>3, <2>3, <2>4, <2>8, RequestGoesOn
<1> QED
  BY <1>2, <1>3 DEF ReadFlight

\* The jobs, the clock and the scheduler leave the requests in peace.
LEMMA RequestsWait ==
  ASSUME JobsInv, IInv, Next, UNCHANGED <<requests, marked>>, RequestsTyped',
         \A q \in Requests : requests[q].pc # "idle" => now' <= requests[q].sent + MaxRequestTicks
  PROVE  IInv'
<1>1. \A q \in Requests : RequestOK(requests[q])'
  BY OthersStay DEF IInv, RequestsTyped
<1>2. \A f \in Flights : MarkOK(f)'
  BY MarksStay
<1> QED
  BY <1>1, <1>2 DEF IInv

LEMMA TickInv ==
  ASSUME JobsInv, IInv, Tick
  PROVE  IInv'
<1>1. now \in Nat /\ now < MaxTime /\ now' = now + 1 /\ now' \in Time
  BY NowIsTime, Numbers DEF Tick, FJ!Tick, Time
<1>2. RequestsTyped'
  BY <1>1 DEF Tick, Track, IInv, RequestsTyped
<1>3. ASSUME NEW q \in Requests, requests[q].pc # "idle"
      PROVE  now' <= requests[q].sent + MaxRequestTicks
  <2>1. requests[q].sent \in Nat /\ MaxRequestTicks \in Nat
    BY Numbers DEF IInv, RequestsTyped, Request
  <2> QED
    BY <1>1, <1>3, <2>1 DEF Tick
<1> QED
  BY <1>2, <1>3, RequestsWait DEF Tick, Next

LEMMA StepsInv ==
  ASSUME JobsInv, IInv, SessionsStep \/ FlightsStep \/ Restart
  PROVE  IInv'
<1>1. UNCHANGED <<requests, marked>>
  BY DEF SessionsStep, FlightsStep, Restart
<1>2. UNCHANGED now
  BY DEF SessionsStep, FlightsStep, Restart, SJ!Restart,
         SJ!RunStep, SJ!FetchSessions, SJ!FetchFails, SJ!StoreSessions,
         SJ!StoreSessionsFails, SJ!StoreNames, SJ!StoreNamesFails,
         FJ!ReadActiveSessions, FJ!PassOver, FJ!FetchFlights, FJ!LoadHistory,
         FJ!StoreHistory, FJ!StoreSnapshot, FJ!Finish
<1>3. RequestsTyped'
  BY <1>1, <1>2, NowIsTime DEF SessionsStep, FlightsStep, Restart, Track, IInv, RequestsTyped
<1>4. \A q \in Requests : requests[q].pc # "idle" => now' <= requests[q].sent + MaxRequestTicks
  BY <1>2 DEF IInv, RequestOK
<1> QED
  BY <1>1, <1>3, <1>4, RequestsWait DEF Next

LEMMA CrashInv ==
  ASSUME JobsInv, IInv, Crash
  PROVE  IInv'
<1>1. requests' = [q \in Requests |-> Idle] /\ UNCHANGED <<marked, returned, restarted>>
  BY DEF Crash
<1>2. RequestsTyped'
  BY <1>1, IdleOK DEF IInv, RequestsTyped
<1>3. \A q \in Requests : RequestOK(requests[q])'
  BY <1>1 DEF RequestOK, Idle
<1>4. \A f \in Flights : MarkOK(f)'
  BY <1>1, MarksStay DEF Next
<1> QED
  BY <1>2, <1>3, <1>4 DEF IInv

LEMMA NextInv == JobsInv /\ IInv /\ [Next]_vars => IInv'
<1> SUFFICES ASSUME JobsInv, IInv, [Next]_vars PROVE IInv'
  OBVIOUS
<1>1. CASE Tick \/ SessionsStep \/ FlightsStep \/ Crash \/ Restart
  BY <1>1, TickInv, StepsInv, CrashInv
<1>2. CASE Terminating \/ UNCHANGED vars
  <2>1. UNCHANGED <<clock, flightsVars, requests, marked, returned, restarted>>
    BY <1>2 DEF Terminating, vars
  <2> QED
    BY <2>1 DEF IInv, RequestsTyped, RequestOK, MarkOK, FJP!NothingOlder, clock, flightsVars,
                Server
<1>3. ASSUME Next, NEW q \in Requests, AnswerPage(q) \/ AnswerFlight(q)
      PROVE  IInv'
  BY <1>3, RequestEnds DEF AnswerPage, AnswerFlight
<1> QED
  BY <1>1, <1>2, <1>3, AskListInv, CheckServerInv, ReadListInv, AnswerMarkersInv,
     AskFlightInv, ReadFlightInv DEF Next
-----------------------------------------------------------------------------
(* The theorems.                                                           *)

LEMMA InitInv == Init => IInv
BY IdleOK DEF Init, IInv, RequestsTyped, RequestOK, MarkOK, Idle

THEOREM Invariance == Spec => [](JobsInv /\ IInv)
<1>1. Init => IInv
  BY InitInv
<1>2. JobsInv /\ IInv /\ [Next]_vars => IInv'
  BY NextInv
<1> QED
  BY <1>1, <1>2, JobsInvariance, PTL DEF Spec

\* Types, those of both jobs among them.
THEOREM TypeCorrect == Spec => []TypeOK
<1>1. JobsInv /\ IInv => TypeOK
  BY SameSessionsJob, SameFlightsJob DEF JobsInv, FJP!IInv, IInv, RequestsTyped, TypeOK
<1> QED
  BY <1>1, Invariance, PTL

\* Whatever fails and wherever the process dies, the flight a marker leads to
\* is never seen at an older position than any map was given of it.
THEOREM ClickedFlightsNeverJumpBack == Spec => []MarkersLeadOn
<1>1. IInv => MarkersLeadOn
  <2> SUFFICES ASSUME IInv, NEW q \in Requests, requests[q].pc = "found"
               PROVE  requests[q].at >= requests[q].floor
    BY DEF MarkersLeadOn
  <2>1. requests[q].at \in Nat /\ requests[q].floor \in Nat
    BY Numbers DEF IInv, RequestsTyped, Request
  <2> QED
    BY <2>1 DEF IInv, RequestOK
<1> QED
  BY <1>1, Invariance, PTL

\* Whatever fails, a marker leads to no position that is older than a snapshot
\* lives.
THEOREM FlightsComeToAnEnd == Spec => []MarkersExpire
<1>1. JobsInv /\ IInv => MarkersExpire
  <2> SUFFICES ASSUME JobsInv, IInv, NEW q \in Requests, requests[q].pc = "found"
               PROVE  now < requests[q].at + FlightsTTL + MaxRunTicks + MaxRequestTicks
    BY DEF MarkersExpire
  <2> DEFINE r == requests[q]
  <2>1. /\ now \in Nat /\ r.at \in Nat /\ r.sent \in Nat
        /\ MaxRunTicks \in Nat /\ FlightsTTL \in Nat /\ MaxRequestTicks \in Nat
    BY Numbers, NowIsTime DEF IInv, RequestsTyped, Request
  <2>2. now <= r.sent + MaxRequestTicks /\ r.sent < r.at + MaxRunTicks + FlightsTTL
    BY DEF IInv, RequestOK
  <2> QED
    BY <2>1, <2>2
<1> QED
  BY <1>1, Invariance, PTL
-----------------------------------------------------------------------------
(* How fresh the lists are.                                                *)

\* What the times of the runs are besides.
JobsTimely ==
  /\ \A r, o \in flightRuns : r = o
  /\ \A r \in flightRuns : now <= r.at + MaxRunTicks
  /\ \A r, o \in sessionRuns : r = o
  /\ \A r \in sessionRuns :
       /\ r.started <= now /\ now <= r.started + MaxRunTicks
       /\ r.pc # "fetch" => r.next \in SJP!Refresh
       /\ r.pc = "names" /\ active # Missing => active.listed = r.next.listed

LEMMA JobsAreTimely == Spec => []JobsTimely
<1>1. FJP!Spec => [](FJP!IInv /\ FJP!TrailInv /\ FJP!SnapshotsLive)
  BY FJP!SnapshotsExpire, JobsAssumptions
<1>2. SJP!Spec => [](SJP!IInv /\ SJP!FreshInv)
  BY SJP!Freshness, JobsAssumptions
<1>3. FJP!IInv /\ FJP!TrailInv /\ SJP!IInv /\ SJP!FreshInv => JobsTimely
  BY DEF FJP!IInv, FJP!SingleRun, FJP!TrailInv, FJP!HoldsOn, SJP!IInv, SJP!SingleRun,
         SJP!RunInv, SJP!InOrder, SJP!FreshInv, SJP!RunFresh, JobsTimely
<1> QED
  BY <1>1, <1>2, <1>3, SessionsUndisturbed, FlightsUndisturbed, PTL

SafeInv == JobsInv /\ IInv /\ JobsTimely

\* Times are numbers, and those of runs not in the future.
LEMMA Times ==
  ASSUME SafeInv
  PROVE  /\ now \in Nat /\ MaxRunTicks \in Nat /\ MaxRequestTicks \in Nat
         /\ Interval \in Nat \ {0} /\ SessionsTTL \in Nat
         /\ restarted # Missing => restarted \in Nat
         /\ \A n \in Names : returned[n] # Missing => returned[n] \in Nat
         /\ \A n \in Names : snapshots[n] # Missing => snapshots[n].at \in Nat
         /\ \A r \in flightRuns : r \in FJP!Run /\ r.at \in Nat /\ r.at <= now
                                  /\ now <= r.at + MaxRunTicks
         /\ \A r \in sessionRuns : r \in SJP!Run /\ r.started \in Nat /\ r.started <= now
                                   /\ now <= r.started + MaxRunTicks
         /\ active # Missing => active \in SJP!Snapshot /\ active.exp \in Nat
         /\ \A q \in Requests : requests[q] \in Request /\ requests[q].sent \in Nat
<1>1. /\ now \in Nat /\ MaxRunTicks \in Nat /\ MaxRequestTicks \in Nat
      /\ Interval \in Nat \ {0} /\ SessionsTTL \in Nat
  BY NowIsTime, Numbers, GameReadsAssumption DEF SafeInv
<1>2. /\ restarted # Missing => restarted \in Nat
      /\ \A n \in Names : returned[n] # Missing => returned[n] \in Nat
  BY Numbers DEF SafeInv, IInv, RequestsTyped
<1>3. \A n \in Names : snapshots[n] # Missing => snapshots[n].at \in Nat
  BY SnapshotRead, Numbers DEF SafeInv
<1>4. \A r \in flightRuns : r \in FJP!Run /\ r.at \in Nat /\ r.at <= now
                            /\ now <= r.at + MaxRunTicks
  BY Numbers DEF SafeInv, JobsInv, FJP!IInv, FJP!TypeOK, FJP!Run, FJP!RunIsNewest, JobsTimely
<1>5. \A r \in sessionRuns : r \in SJP!Run /\ r.started \in Nat /\ r.started <= now
                             /\ now <= r.started + MaxRunTicks
  BY Numbers DEF SafeInv, JobsInv, SJP!TypeOK, SJP!Run, SJP!Time, Time, JobsTimely
<1>6. active # Missing => active \in SJP!Snapshot /\ active.exp \in Nat
  BY DEF SafeInv, JobsInv, SJP!TypeOK, SJP!Snapshot
<1>7. \A q \in Requests : requests[q] \in Request /\ requests[q].sent \in Nat
  BY Numbers DEF SafeInv, IInv, RequestsTyped, Request
<1> QED
  BY <1>1, <1>2, <1>3, <1>4, <1>5, <1>6, <1>7

\* What is read of the server n, now and later, is no older than t, or n
\* returned at t or later, or the process came up so late that n need not yet
\* have been refreshed.
Fresh(n, t) ==
  \/ t < 0 \/ FJP!NothingOlder(n, t)
  \/ returned[n] # Missing /\ t <= returned[n]
  \/ restarted # Missing /\ t <= restarted + Interval

\* The run has yet to store a snapshot of n.
Covers(r, n) ==
  \/ \E s \in r.todo : NameOf[s] = n
  \/ r.pc \in {"histories", "store"} /\ r.name = n

\* How fresh the snapshot is of a server that has a session.
KeepsUp(n) ==
  /\ flightRuns = {} => Fresh(n, now - MaxRunTicks)
  /\ \A r \in flightRuns :
       IF r.pc = "sessions" THEN Fresh(n, r.at - MaxRunTicks - 1)
       ELSE /\ Fresh(n, r.at - 2 * MaxRunTicks - 1)
            /\ Covers(r, n) \/ Fresh(n, r.at)

\* How fresh the snapshot is of a server that had a session at u.
KeptUp(n, u) ==
  \/ Fresh(n, u - 2 * MaxRunTicks - 1)
  \/ \E r \in flightRuns : /\ r.pc # "sessions" /\ Covers(r, n)
                           /\ u - MaxRunTicks <= r.at
                           /\ Fresh(n, r.at - 2 * MaxRunTicks - 1)

\* When the sessions were last due.
LastDue == now - (now % Interval)

\* The sessions have not been refreshed since the process came up.
Young ==
  /\ restarted # Missing
  /\ \/ sessionRuns = {} /\ LastDue <= restarted
     \/ \E r \in sessionRuns : r.started <= restarted + Interval

\* Nor has anything ever been stored.
Untouched ==
  /\ names = Missing /\ active = Missing
  /\ \A n \in Names : snapshots[n] = Missing
  /\ \A r \in flightRuns : r.pc = "sessions"

ReturnsInPast ==
  /\ restarted # Missing => restarted <= now
  /\ \A n \in Names : /\ returned[n] # Missing => returned[n] <= now
                      /\ n \in Listed(active) => returned[n] # Missing

NothingWhileDown ==
  ~up => sessionRuns = {} /\ flightRuns = {} /\ \A q \in Requests : requests[q].pc = "idle"

ServersKeepUp == up => \A n \in Names : n \in Listed(active) => KeepsUp(n)

\* A server that is known has a session, or had one until this run.
KnownHaveSessions ==
  up => \A n \in Names : Known(n) =>
          \/ n \in Listed(active)
          \/ \E r \in sessionRuns : r.pc = "names" /\ KeptUp(n, r.started)
          \/ Young \/ Untouched

\* The sessions do not expire before the next run stores them again.
SessionsStay ==
  up =>
    /\ sessionRuns = {} /\ active # Missing =>
         Young \/ LastDue + Interval + MaxRunTicks < active.exp
    /\ \A r \in sessionRuns :
         IF r.pc = "names" THEN active # Missing /\ r.started + SessionsTTL <= active.exp
         ELSE active # Missing => Young \/ r.started + MaxRunTicks < active.exp

\* Whoever has been told that a server is known.
CheckedHold ==
  \A q \in Requests :
    requests[q].pc = "snapshot" => KeptUp(requests[q].server, requests[q].sent - MaxRunTicks)

ListsInv ==
  /\ ReturnsInPast /\ NothingWhileDown
  /\ ServersKeepUp /\ KnownHaveSessions /\ SessionsStay /\ CheckedHold

\* The earlier, the easier.
LEMMA FreshEarlier ==
  ASSUME SafeInv, NEW n \in Names, NEW t \in Int, NEW u \in Int, u <= t, Fresh(n, t)
  PROVE  Fresh(n, u)
<1>1. t < 0 => u < 0
  OBVIOUS
<1>2. FJP!NothingOlder(n, t) => FJP!NothingOlder(n, u)
  BY Times DEF FJP!NothingOlder
<1>3. returned[n] # Missing /\ t <= returned[n] => u <= returned[n]
  BY Times
<1>4. restarted # Missing /\ t <= restarted + Interval => u <= restarted + Interval
  BY Times
<1> QED
  BY <1>1, <1>2, <1>3, <1>4 DEF Fresh

Eases == \A n \in Names : \A t, u \in Int : u <= t /\ Fresh(n, t) => Fresh(n, u)

LEMMA FreshEases == SafeInv' => Eases'
<1>1. SafeInv => Eases
  BY FreshEarlier DEF Eases
<1> QED
  BY <1>1, PTL

\* A step sets the times to now, if to anything.
LEMMA TimeEffect ==
  ASSUME SafeInv, Next
  PROVE  /\ now' \in {now, now + 1}
         /\ \A n \in Names :
              returned'[n] = IF n \in Listed(active') \ Listed(active) THEN now'
                             ELSE returned[n]
         /\ restarted' \in {restarted, now}
<1>1. now' \in {now, now + 1}
  <2>1. [FJP!Next]_(FJP!vars)
    BY FlightsInCompany DEF SafeInv, JobsInv
  <2>2. FJP!Next => now' \in {now, now + 1}
    BY FJP!StepEffect, JobsAssumptions DEF SafeInv, JobsInv
  <2> QED
    BY <2>1, <2>2 DEF FJP!vars
<1>2. CASE Tick \/ SessionsStep
  BY <1>1, <1>2 DEF Tick, SessionsStep, Track
<1>3. CASE FlightsStep \/ Crash \/ Restart \/ Terminating
  BY <1>1, <1>3 DEF FlightsStep, Crash, SJ!Crash, Restart, SJ!Restart, Terminating, vars,
                    sessionsVars
<1>4. ASSUME NEW q \in Requests,
             \/ \E n \in Names : AskList(q, n)
             \/ CheckServer(q) \/ ReadList(q) \/ AnswerPage(q) \/ AnswerMarkers(q)
             \/ \E f \in Flights : AskFlight(q, f)
             \/ ReadFlight(q) \/ AnswerFlight(q)
      PROVE  UNCHANGED <<active, returned, restarted>>
  BY <1>4 DEF AskList, CheckServer, ReadList, AnswerPage, AnswerMarkers, AskFlight,
              ReadFlight, AnswerFlight, Become, sessionsVars
<1> QED
  BY <1>1, <1>2, <1>3, <1>4 DEF Next

\* No time is mistaken for none.
LEMMA NowIsThere == (SafeInv => now # Missing) /\ (SafeInv' => now' # Missing)
BY GameReadsAssumption DEF SafeInv, JobsInv, FJP!IInv, FJP!TypeOK, FJP!Time, FJ!Time

\* What is as fresh stays so.
LEMMA FreshStays ==
  ASSUME SafeInv, SafeInv', ReturnsInPast, Next, NEW n \in Names, NEW t \in Int, Fresh(n, t)
  PROVE  Fresh(n, t)'
<1>1. /\ now \in Nat /\ Interval \in Nat /\ now' \in {now, now + 1}
      /\ restarted # Missing => restarted \in Nat /\ restarted <= now
      /\ returned[n] # Missing => returned[n] \in Nat /\ returned[n] <= now
      /\ now # Missing /\ now' # Missing
  BY Times, TimeEffect, NowIsThere DEF ReturnsInPast
<1>2. CASE t < 0
  BY <1>2 DEF Fresh
<1>3. CASE t \in Nat /\ FJP!NothingOlder(n, t)
  BY <1>3, NothingOlderKept DEF SafeInv, Fresh
<1>4. CASE returned[n] # Missing /\ t <= returned[n]
  <2>1. returned'[n] \in {returned[n], now'}
    BY TimeEffect
  <2>2. returned'[n] # Missing /\ t <= returned'[n]
    BY <1>1, <1>4, <2>1
  <2> QED
    BY <2>2 DEF Fresh
<1>5. CASE restarted # Missing /\ t <= restarted + Interval
  <2>1. restarted' \in {restarted, now}
    BY TimeEffect
  <2>2. restarted' # Missing /\ t <= restarted' + Interval
    BY <1>1, <1>5, <2>1
  <2> QED
    BY <2>2 DEF Fresh
<1> QED
  BY <1>2, <1>3, <1>4, <1>5 DEF Fresh

\* What a run of the flights job does about n in a step: it ends, or begins, or
\* goes on, and leaves n to be done or stored.
RunGoesOn(r, n) ==
  \/ r.pc = "sessions" /\ flightRuns' = {} /\ n \notin Listed(active)
  \/ /\ r.pc = "sessions"
     /\ \E o : /\ flightRuns' = {o} /\ o.pc # "sessions" /\ o.at = now
               /\ n \in Listed(active) => Covers(o, n)
  \/ /\ r.pc # "sessions"
     /\ \E o : /\ flightRuns' = {o} /\ o.pc # "sessions" /\ o.at = r.at
               /\ Covers(r, n) => Covers(o, n) \/ Fresh(n, r.at)'
  \/ r.pc # "sessions" /\ flightRuns' = {} /\ ~Covers(r, n)

LEMMA RunEffect ==
  ASSUME RefreshesSucceed, SafeInv, SafeInv', FlightsStep, NEW n \in Names
  PROVE  \E r \in flightRuns : RunGoesOn(r, n)
<1>1. PICK r \in flightRuns :
        \/ \E cached \in CachedNow : FJ!ReadActiveSessions(r, cached)
        \/ \E s \in Sessions : FJ!PassOver(r, s) \/ FJ!FetchFlights(r, s)
        \/ \E f \in Flights : FJ!LoadHistory(r, f)
        \/ FJ!StoreHistory(r) \/ FJ!StoreSnapshot(r) \/ FJ!Finish(r)
  BY DEF FlightsStep
<1>2. r \in FJP!Run /\ n # NoName /\ flightRuns = {r}
  BY Times, GameReadsAssumption DEF SafeInv, JobsTimely
<1>3. \A o : FJ!Continue(r, o) => flightRuns' = {o}
  BY <1>2 DEF FJ!Continue
<1>4. ASSUME NEW cached \in CachedNow, FJ!ReadActiveSessions(r, cached)
      PROVE  RunGoesOn(r, n)
  <2>1. cached = IF active = Missing THEN Missing ELSE active.listed
    BY DEF CachedNow, RefreshesSucceed
  <2>2. CASE cached = Missing \/ cached = {}
    <3>1. flightRuns' = {} /\ r.pc = "sessions"
      BY <1>2, <1>4, <2>2 DEF FJ!ReadActiveSessions, FJ!Succeed
    <3>2. active # Missing => active.listed # Missing
      BY Times, GameReadsAssumption DEF SJP!Snapshot
    <3>3. n \notin Listed(active)
      BY <2>1, <2>2, <3>2 DEF Listed, SJ!NamesOf
    <3> QED
      BY <3>1, <3>3 DEF RunGoesOn
  <2>3. CASE ~(cached = Missing \/ cached = {})
    <3> DEFINE o == [r EXCEPT !.pc = "refresh", !.at = now, !.todo = cached]
    <3>1. flightRuns' = {o} /\ r.pc = "sessions"
      BY <1>3, <1>4, <2>3 DEF FJ!ReadActiveSessions
    <3>2. o.pc # "sessions" /\ o.at = now /\ o.todo = cached
      BY <1>2 DEF FJP!Run
    <3> HIDE DEF o
    <3>3. n \in Listed(active) => Covers(o, n)
      BY <2>1, <2>3, <3>2 DEF Covers, Listed, SJ!NamesOf
    <3> QED
      BY <3>1, <3>2, <3>3 DEF RunGoesOn
  <2> QED
    BY <2>2, <2>3
<1>5. ASSUME NEW o, FJ!Continue(r, o), r.pc # "sessions", o.pc # "sessions", o.at = r.at,
             Covers(r, n) => Covers(o, n) \/ Fresh(n, r.at)'
      PROVE  RunGoesOn(r, n)
  BY <1>3, <1>5 DEF RunGoesOn
<1>6. ASSUME NEW s \in Sessions, FJ!PassOver(r, s)
      PROVE  RunGoesOn(r, n)
  <2> DEFINE o == [r EXCEPT !.todo = @ \ {s}]
  <2>1. FJ!Continue(r, o) /\ r.pc = "refresh"
    BY <1>6 DEF FJ!PassOver
  <2>2. o.pc = r.pc /\ o.at = r.at /\ o.todo = r.todo \ {s} /\ o.name = r.name
    BY <1>2 DEF FJP!Run
  <2>3. NameOf[s] = NoName
    <3>1. ~FJ!Refreshable(s)
      <4>1. Missing \notin SUBSET {f \in Flights : SessionOf[f] = s}
        BY GameReadsAssumption
      <4> QED
        BY <1>6, <4>1 DEF FJ!PassOver, FJ!GetSessionFlights, RefreshesSucceed
    <3> QED
      BY <3>1 DEF FJ!Refreshable, RefreshesSucceed
  <2> HIDE DEF o
  <2>4. Covers(r, n) => Covers(o, n)
    BY <1>2, <2>2, <2>3 DEF Covers
  <2> QED
    BY <1>5, <2>1, <2>2, <2>4
<1>7. ASSUME NEW s \in Sessions, FJ!FetchFlights(r, s)
      PROVE  RunGoesOn(r, n)
  <2>1. PICK found, prior :
          FJ!Continue(r, [r EXCEPT !.pc = "histories", !.todo = @ \ {s},
                                   !.name = NameOf[s], !.prior = prior, !.found = found,
                                   !.pending = FJ!Continuing(prior, found)])
    BY <1>7 DEF FJ!FetchFlights
  <2> DEFINE o == [r EXCEPT !.pc = "histories", !.todo = @ \ {s},
                            !.name = NameOf[s], !.prior = prior, !.found = found,
                            !.pending = FJ!Continuing(prior, found)]
  <2>2. /\ o.pc = "histories" /\ o.at = r.at /\ o.todo = r.todo \ {s} /\ o.name = NameOf[s]
        /\ r.pc = "refresh"
    BY <1>2, <1>7 DEF FJP!Run, FJ!FetchFlights
  <2>3. FJ!Continue(r, o)
    BY <2>1
  <2> HIDE DEF o
  <2>4. Covers(r, n) => Covers(o, n)
    BY <2>2 DEF Covers
  <2> QED
    BY <1>5, <2>2, <2>3, <2>4
<1>8. ASSUME NEW f \in Flights, FJ!LoadHistory(r, f)
      PROVE  RunGoesOn(r, n)
  <2>1. PICK trail : FJ!Continue(r, [r EXCEPT !.pc = "store", !.flight = f, !.loaded = trail])
    BY <1>8 DEF FJ!LoadHistory
  <2> DEFINE o == [r EXCEPT !.pc = "store", !.flight = f, !.loaded = trail]
  <2>2. /\ o.pc = "store" /\ o.at = r.at /\ o.todo = r.todo /\ o.name = r.name
        /\ r.pc = "histories"
    BY <1>2, <1>8 DEF FJP!Run, FJ!LoadHistory
  <2>3. FJ!Continue(r, o)
    BY <2>1
  <2> HIDE DEF o
  <2>4. Covers(r, n) => Covers(o, n)
    BY <2>2 DEF Covers
  <2> QED
    BY <1>5, <2>2, <2>3, <2>4
<1>9. ASSUME FJ!StoreHistory(r)
      PROVE  RunGoesOn(r, n)
  <2> DEFINE o == [r EXCEPT !.pc = "histories", !.pending = @ \ {r.flight},
                            !.flight = Missing, !.loaded = << >>]
  <2>1. FJ!Continue(r, o) /\ r.pc = "store"
    BY <1>9 DEF FJ!StoreHistory
  <2>2. o.pc = "histories" /\ o.at = r.at /\ o.todo = r.todo /\ o.name = r.name
    BY <1>2 DEF FJP!Run
  <2> HIDE DEF o
  <2>3. Covers(r, n) => Covers(o, n)
    BY <2>1, <2>2 DEF Covers
  <2> QED
    BY <1>5, <2>1, <2>2, <2>3
<1>10. ASSUME FJ!StoreSnapshot(r)
       PROVE  RunGoesOn(r, n)
  <2> DEFINE o == [r EXCEPT !.pc = "refresh", !.name = NoName, !.prior = Missing, !.found = {}]
  <2>1. FJ!Continue(r, o) /\ r.pc = "histories"
    BY <1>10 DEF FJ!StoreSnapshot
  <2>2. o.pc = "refresh" /\ o.at = r.at /\ o.todo = r.todo
    BY <1>2 DEF FJP!Run
  <2> HIDE DEF o
  <2>3. ASSUME r.name = n PROVE Fresh(n, r.at)'
    <3>1. snapshots' = [snapshots EXCEPT ![n] = FJ!Stored(r)] /\ UNCHANGED now
      BY <1>10, <2>3 DEF FJ!StoreSnapshot, FJ!Applied, RefreshesSucceed
    <3>2. snapshots'[n].at = r.at
      <4>1. snapshots \in [Names -> FJP!Snapshot \cup {Missing}]
        BY DEF SafeInv, JobsInv, FJP!IInv, FJP!TypeOK
      <4> QED
        BY <3>1, <4>1 DEF FJ!Stored
    <3>3. flightRuns' = {o}
      BY <1>3, <2>1
    <3>4. r.at \in Nat /\ r.at <= now
      BY Times
    <3>5. FJP!NothingOlder(n, r.at)'
      BY <2>2, <3>1, <3>2, <3>3, <3>4 DEF FJP!NothingOlder
    <3> QED
      BY <3>5 DEF Fresh
  <2>4. Covers(r, n) => Covers(o, n) \/ Fresh(n, r.at)'
    BY <2>2, <2>3 DEF Covers
  <2> QED
    BY <1>5, <2>1, <2>2, <2>4
<1>11. ASSUME FJ!Finish(r)
       PROVE  RunGoesOn(r, n)
  BY <1>2, <1>11 DEF FJ!Finish, FJ!Succeed, RunGoesOn, Covers
<1> QED
  BY <1>1, <1>4, <1>6, <1>7, <1>8, <1>9, <1>10, <1>11

\* What any step does, short of the death of the process.
LEMMA FlightsEffect ==
  ASSUME RefreshesSucceed, SafeInv, SafeInv', NothingWhileDown, Next, up', NEW n \in Names
  PROVE  \/ now' = now /\ flightRuns' = flightRuns
         \/ now' = now + 1 /\ flightRuns' = flightRuns /\ flightRuns # {}
         \/ /\ now' = now + 1 /\ flightRuns = {}
            /\ \E o : flightRuns' = {o} /\ o.pc = "sessions" /\ o.at = now'
         \/ now' = now /\ \E r \in flightRuns : RunGoesOn(r, n)
<1>1. CASE Tick
  <2>1. now' = now + 1 /\ up /\ FJ!Fire(now + 1)
    BY <1>1 DEF Tick, FJ!Tick
  <2>2. CASE flightRuns = {}
    <3>1. flightRuns' = {FJ!NewRun(now + 1)}
      BY <2>1, <2>2 DEF FJ!Fire
    <3>2. FJ!NewRun(now + 1).pc = "sessions" /\ FJ!NewRun(now + 1).at = now + 1
      BY DEF FJ!NewRun
    <3> QED
      BY <2>1, <2>2, <3>1, <3>2
  <2>3. CASE flightRuns # {}
    BY <2>1, <2>3 DEF FJ!Fire
  <2> QED
    BY <2>2, <2>3
<1>2. CASE FlightsStep
  <2>1. now' = now
    BY <1>2 DEF FlightsStep, FJ!ReadActiveSessions, FJ!PassOver, FJ!FetchFlights,
                FJ!LoadHistory, FJ!StoreHistory, FJ!StoreSnapshot, FJ!Finish
  <2> QED
    BY <1>2, <2>1, RunEffect
<1>3. CASE SessionsStep
  BY <1>3 DEF SessionsStep, flightsVars, SJ!RunStep, SJ!FetchSessions, SJ!FetchFails,
              SJ!StoreSessions, SJ!StoreSessionsFails, SJ!StoreNames, SJ!StoreNamesFails
<1>4. CASE Crash \/ Restart \/ Terminating
  BY <1>4 DEF Crash, FJ!Crash, Restart, FJ!Restart, Terminating, vars, clock, flightsVars
<1>5. ASSUME NEW q \in Requests,
             \/ \E m \in Names : AskList(q, m)
             \/ CheckServer(q) \/ ReadList(q) \/ AnswerPage(q) \/ AnswerMarkers(q)
             \/ \E f \in Flights : AskFlight(q, f)
             \/ ReadFlight(q) \/ AnswerFlight(q)
      PROVE  now' = now /\ flightRuns' = flightRuns
  BY <1>5 DEF AskList, CheckServer, ReadList, AnswerPage, AnswerMarkers, AskFlight,
              ReadFlight, AnswerFlight, Become, clock, flightsVars
<1> QED
  BY <1>1, <1>2, <1>3, <1>4, <1>5 DEF Next

\* A server that has just returned, or a process that has just come up, is
\* excused.
Excuses ==
  \A n \in Names :
    \/ returned[n] # Missing /\ now <= returned[n]
    \/ restarted # Missing /\ now <= restarted
    => KeepsUp(n)

LEMMA KeepsUpAnew == SafeInv => Excuses
<1> SUFFICES ASSUME SafeInv, NEW n \in Names,
                    \/ returned[n] # Missing /\ now <= returned[n]
                    \/ restarted # Missing /\ now <= restarted
             PROVE  KeepsUp(n)
  BY DEF Excuses
<1>1. ASSUME NEW t \in Int, t <= now
      PROVE  Fresh(n, t)
  BY <1>1, Times DEF Fresh
<1>2. now - MaxRunTicks \in Int /\ now - MaxRunTicks <= now
  BY Times
<1>3. ASSUME NEW r \in flightRuns
      PROVE  /\ r.at \in Int /\ r.at <= now
             /\ r.at - MaxRunTicks - 1 \in Int /\ r.at - MaxRunTicks - 1 <= now
             /\ r.at - 2 * MaxRunTicks - 1 \in Int /\ r.at - 2 * MaxRunTicks - 1 <= now
  BY Times
<1> QED
  BY <1>1, <1>2, <1>3 DEF KeepsUp

LEMMA KeepsUpAnewThen == SafeInv' => Excuses'
BY KeepsUpAnew, PTL

\* The flights job keeps up with a server for as long as it has a session.
LEMMA KeepsUpStays ==
  ASSUME RefreshesSucceed, SafeInv, SafeInv', ReturnsInPast, NothingWhileDown, Next,
         up', NEW n \in Names, n \in Listed(active), KeepsUp(n)
  PROVE  KeepsUp(n)'
<1> DEFINE R == MaxRunTicks
<1>1. now \in Nat /\ R \in Nat
  BY Times
<1>2. \A t \in Int : Fresh(n, t) => Fresh(n, t)'
  BY FreshStays
<1>3. ASSUME NEW t \in Int, NEW u \in Int, Fresh(n, t), u <= t
      PROVE  Fresh(n, u)'
  BY <1>2, <1>3, FreshEarlier
<1>4. \A r \in flightRuns :
        /\ r.at \in Int /\ r.at - R - 1 \in Int /\ r.at - 2 * R - 1 \in Int
        /\ r.at <= now /\ now <= r.at + R
  BY Times
<1>5. CASE flightRuns' = flightRuns /\ flightRuns # {}
  BY <1>2, <1>4, <1>5 DEF KeepsUp
<1>6. CASE flightRuns' = {} /\ flightRuns = {} /\ now' = now
  <2>1. PICK t \in Int : t = now - R
    BY <1>1
  <2> QED
    BY <1>2, <1>6, <2>1 DEF KeepsUp
<1>7. ASSUME now' = now + 1, flightRuns = {},
             NEW o, flightRuns' = {o}, o.pc = "sessions", o.at = now'
      PROVE  KeepsUp(n)'
  <2>1. PICK t \in Int : t = now - R
    BY <1>1
  <2>2. t = o.at - R - 1
    BY <1>1, <1>7, <2>1
  <2>3. Fresh(n, o.at - R - 1)'
    BY <1>2, <1>7, <2>1, <2>2 DEF KeepsUp
  <2> QED
    BY <1>7, <2>3 DEF KeepsUp
<1>8. ASSUME now' = now, NEW r \in flightRuns, RunGoesOn(r, n)
      PROVE  KeepsUp(n)'
  <2>1. r.at \in Int /\ r.at <= now /\ now <= r.at + R
    BY <1>4
  <2>2. ASSUME NEW o, r.pc = "sessions", flightRuns' = {o}, o.pc # "sessions", o.at = now,
               Covers(o, n)
        PROVE  KeepsUp(n)'
    <3>1. Fresh(n, r.at - R - 1) /\ r.at - R - 1 \in Int
      BY <1>4, <2>2 DEF KeepsUp
    <3>2. o.at - 2 * R - 1 \in Int /\ o.at - 2 * R - 1 <= r.at - R - 1
      BY <1>1, <2>1, <2>2
    <3>3. Fresh(n, o.at - 2 * R - 1)'
      BY <1>3, <3>1, <3>2
    <3> QED
      BY <2>2, <3>3 DEF KeepsUp
  <2>3. CASE r.pc # "sessions"
    <3>1. /\ Fresh(n, r.at - 2 * R - 1)'
          /\ Covers(r, n) \/ Fresh(n, r.at)'
      BY <1>2, <1>4, <2>3 DEF KeepsUp
    <3>2. ASSUME NEW o, flightRuns' = {o}, o.pc # "sessions", o.at = r.at,
                 Covers(r, n) => Covers(o, n) \/ Fresh(n, r.at)'
          PROVE  KeepsUp(n)'
      BY <3>1, <3>2 DEF KeepsUp
    <3>3. ASSUME flightRuns' = {}, ~Covers(r, n)
          PROVE  KeepsUp(n)'
      <4>1. Fresh(n, r.at)
        BY <2>3, <3>3 DEF KeepsUp
      <4>2. PICK t \in Int : t = now - R
        BY <1>1
      <4>3. Fresh(n, t)'
        BY <1>1, <1>3, <2>1, <4>1, <4>2
      <4> QED
        BY <1>8, <3>3, <4>2, <4>3 DEF KeepsUp
    <3> QED
      BY <1>8, <2>3, <3>2, <3>3 DEF RunGoesOn
  <2> QED
    BY <1>8, <2>2, <2>3 DEF RunGoesOn
<1> QED
  BY <1>5, <1>6, <1>7, <1>8, FlightsEffect

LEMMA KeptUpEarlier ==
  ASSUME SafeInv, NEW n \in Names, NEW u \in Int, NEW v \in Int, v <= u, KeptUp(n, u)
  PROVE  KeptUp(n, v)
<1>1. /\ u - 2 * MaxRunTicks - 1 \in Int /\ v - 2 * MaxRunTicks - 1 \in Int
      /\ v - 2 * MaxRunTicks - 1 <= u - 2 * MaxRunTicks - 1
  BY Times
<1>2. \A r \in flightRuns : u - MaxRunTicks <= r.at => v - MaxRunTicks <= r.at
  BY Times
<1> QED
  BY <1>1, <1>2, FreshEarlier DEF KeptUp

LEMMA FreshIsKept ==
  ASSUME SafeInv, NEW n \in Names, NEW u \in Int, Fresh(n, u)
  PROVE  KeptUp(n, u)
<1>1. u - 2 * MaxRunTicks - 1 \in Int /\ u - 2 * MaxRunTicks - 1 <= u
  BY Times
<1> QED
  BY <1>1, FreshEarlier DEF KeptUp

LEMMA KeepsUpIsKept ==
  ASSUME SafeInv, NEW n \in Names, KeepsUp(n)
  PROVE  KeptUp(n, now)
<1> DEFINE R == MaxRunTicks
<1>1. now \in Nat /\ R \in Nat
  BY Times
<1>2. /\ now - 2 * R - 1 \in Int
      /\ now - R \in Int /\ now - 2 * R - 1 <= now - R
  BY <1>1
<1>3. CASE flightRuns = {}
  BY <1>2, <1>3, FreshEarlier DEF KeepsUp, KeptUp
<1>4. ASSUME NEW r \in flightRuns PROVE KeptUp(n, now)
  <2>1. /\ r.at \in Int /\ r.at - R - 1 \in Int /\ now - R <= r.at
        /\ now - 2 * R - 1 <= r.at - R - 1 /\ now - 2 * R - 1 <= r.at
    BY <1>1, Times
  <2>2. CASE r.pc = "sessions"
    BY <1>2, <2>1, <2>2, FreshEarlier DEF KeepsUp, KeptUp
  <2>3. CASE r.pc # "sessions" /\ Fresh(n, r.at)
    BY <1>2, <2>1, <2>3, FreshEarlier DEF KeepsUp, KeptUp
  <2>4. CASE r.pc # "sessions" /\ Covers(r, n)
    BY <2>1, <2>4 DEF KeepsUp, KeptUp
  <2> QED
    BY <2>2, <2>3, <2>4 DEF KeepsUp
<1> QED
  BY <1>3, <1>4

\* What was fresh when a server had its session stays so when it has none.
LEMMA KeptUpStays ==
  ASSUME RefreshesSucceed, SafeInv, SafeInv', ReturnsInPast, NothingWhileDown, Next,
         up', NEW n \in Names, NEW u \in Int, KeptUp(n, u)
  PROVE  KeptUp(n, u)'
<1> DEFINE R == MaxRunTicks
<1>1. R \in Nat /\ u - 2 * R - 1 \in Int
  BY Times
<1>2. \A t \in Int : Fresh(n, t) => Fresh(n, t)'
  BY FreshStays
<1>3. CASE Fresh(n, u - 2 * R - 1)
  BY <1>1, <1>2, <1>3 DEF KeptUp
<1>4. ASSUME NEW r \in flightRuns, r.pc # "sessions", Covers(r, n), u - R <= r.at,
             Fresh(n, r.at - 2 * R - 1)
      PROVE  KeptUp(n, u)'
  <2>1. /\ r.at \in Int /\ r.at - 2 * R - 1 \in Int
        /\ u - 2 * R - 1 <= r.at
        /\ \A o \in flightRuns : r = o
    BY <1>1, <1>4, Times DEF SafeInv, JobsTimely
  <2>2. Fresh(n, r.at - 2 * R - 1)'
    BY <1>2, <1>4, <2>1
  <2>3. CASE flightRuns' = flightRuns
    BY <1>4, <2>2, <2>3 DEF KeptUp
  <2>4. CASE RunGoesOn(r, n)
    <3>1. PICK o : flightRuns' = {o} /\ o.pc # "sessions" /\ o.at = r.at
                   /\ (Covers(o, n) \/ Fresh(n, r.at)')
      BY <1>4, <2>4 DEF RunGoesOn
    <3>2. CASE Covers(o, n)
      BY <1>4, <2>2, <3>1, <3>2 DEF KeptUp
    <3>3. CASE Fresh(n, r.at)'
      <4>1. Fresh(n, u - 2 * R - 1)'
        BY <1>1, <2>1, <3>3, FreshEases DEF Eases
      <4> QED
        BY <4>1 DEF KeptUp
    <3> QED
      BY <3>1, <3>2, <3>3
  <2> QED
    BY <1>4, <2>1, <2>3, <2>4, FlightsEffect
<1> QED
  BY <1>3, <1>4 DEF KeptUp

\* The clock goes round every Interval.
LEMMA Rounds ==
  ASSUME NEW t \in Nat, NEW m \in Nat \ {0}
  PROVE  \/ (t + 1) % m = 0 /\ t % m = m - 1
         \/ (t + 1) % m = (t % m) + 1
<1> DEFINE a == t \div m
           b == (t + 1) \div m
           x == t % m
           y == (t + 1) % m
<1>1. t = m * a + x /\ x \in 0 .. m - 1 /\ a \in Int
  OBVIOUS
<1>2. t + 1 = m * b + y /\ y \in 0 .. m - 1 /\ b \in Int
  OBVIOUS
<1>3. m * (b - a) = x + 1 - y
  <2>1. m * (b - a) = m * b - m * a
    BY <1>1, <1>2
  <2> QED
    BY <1>1, <1>2, <2>1
<1> HIDE DEF a, b, x, y
<1>4. b - a = 0 \/ b - a = 1
  <2>1. CASE b - a >= 2
    <3>1. m * (b - a) >= m * 2
      BY <1>1, <1>2, <2>1
    <3> QED
      BY <1>1, <1>2, <1>3, <3>1
  <2>2. CASE b - a <= -1
    <3>1. m * (b - a) <= m * (-1)
      BY <1>1, <1>2, <2>2
    <3> QED
      BY <1>1, <1>2, <1>3, <3>1
  <2> QED
    BY <1>1, <1>2, <2>1, <2>2
<1>5. (b - a = 0 => y = x + 1) /\ (b - a = 1 => x + 1 - y = m)
  BY <1>1, <1>2, <1>3
<1>6. (y = 0 /\ x = m - 1) \/ y = x + 1
  BY <1>1, <1>2, <1>4, <1>5
<1> QED
  BY <1>6 DEF x, y

LEMMA DueAgain ==
  ASSUME SafeInv
  PROVE  /\ LastDue \in Int /\ LastDue <= now /\ now < LastDue + Interval
         /\ SJ!Due(now + 1) => now + 1 = LastDue + Interval
         /\ now' = now + 1 /\ ~SJ!Due(now + 1) => LastDue' = LastDue
<1> DEFINE x == now % Interval
           y == (now + 1) % Interval
<1>1. now \in Nat /\ Interval \in Nat \ {0}
  BY Times
<1>2. x \in Nat /\ x < Interval
  BY <1>1
<1>3. (y = 0 /\ x = Interval - 1) \/ y = x + 1
  BY <1>1, Rounds, Zenon
<1>4. LastDue = now - x /\ (SJ!Due(now + 1) <=> y = 0)
      /\ (now' = now + 1 => LastDue' = (now + 1) - y)
  BY DEF LastDue, SJ!Due
<1> HIDE DEF x, y
<1> QED
  BY <1>1, <1>2, <1>3, <1>4

\* The process has not been up for long.
LEMMA YoungIsFresh ==
  ASSUME SafeInv, ReturnsInPast, Young, NEW n \in Names
  PROVE  Fresh(n, now - MaxRunTicks)
<1>1. now - MaxRunTicks <= restarted + Interval
  BY Times, DueAgain DEF Young
<1> QED
  BY <1>1 DEF Young, Fresh

LEMMA UntouchedIsFresh ==
  ASSUME SafeInv, Untouched, NEW n \in Names
  PROVE  Fresh(n, now - MaxRunTicks)
<1>1. /\ now - MaxRunTicks <= now
      /\ \A r \in flightRuns : now - MaxRunTicks <= r.at
  BY Times
<1> QED
  BY <1>1 DEF Fresh, FJP!NothingOlder, Untouched

\* Who is told that a server is known will find it fresh.
LEMMA KnownIsKept ==
  ASSUME SafeInv, ListsInv, up, NEW n \in Names, Known(n)
  PROVE  KeptUp(n, now - MaxRunTicks)
<1>1. now - MaxRunTicks \in Int /\ now - MaxRunTicks <= now /\ now \in Int
  BY Times
<1>2. CASE n \in Listed(active)
  BY <1>1, <1>2, KeepsUpIsKept, KeptUpEarlier DEF ListsInv, ServersKeepUp
<1>3. ASSUME NEW r \in sessionRuns, KeptUp(n, r.started)
      PROVE  KeptUp(n, now - MaxRunTicks)
  <2>1. r.started \in Int /\ now - MaxRunTicks <= r.started
    BY Times
  <2> QED
    BY <1>1, <1>3, <2>1, KeptUpEarlier
<1>4. CASE Young \/ Untouched
  BY <1>1, <1>4, YoungIsFresh, UntouchedIsFresh, FreshIsKept DEF ListsInv
<1> QED
  BY <1>2, <1>3, <1>4 DEF ListsInv, KnownHaveSessions

-----------------------------------------------------------------------------
(* ListsInv, conjunct by conjunct.                                         *)

LEMMA ReturnsStay ==
  ASSUME SafeInv, SafeInv', ReturnsInPast, Next
  PROVE  ReturnsInPast'
<1>1. now \in Nat /\ now' \in {now, now + 1} /\ now' # Missing /\ now # Missing
  BY Times, TimeEffect, NowIsThere
<1>2. restarted' # Missing => restarted' <= now'
  BY <1>1, Times, TimeEffect DEF ReturnsInPast
<1>3. ASSUME NEW n \in Names
      PROVE  /\ returned'[n] # Missing => returned'[n] <= now'
             /\ n \in Listed(active') => returned'[n] # Missing
  BY <1>1, Times, TimeEffect DEF ReturnsInPast
<1> QED
  BY <1>2, <1>3 DEF ReturnsInPast

\* A request is only under way while the process is up.
LEMMA DownStays ==
  ASSUME SafeInv, NothingWhileDown, Next
  PROVE  NothingWhileDown'
<1>1. CASE Tick
  BY <1>1 DEF Tick, SJ!Tick, FJ!Tick, SJ!Fire, FJ!Fire, NothingWhileDown
<1>2. CASE SessionsStep \/ FlightsStep
  <2>1. up
    BY <1>2 DEF SessionsStep, SJ!RunStep, FlightsStep, NothingWhileDown
  <2>2. UNCHANGED up
    BY <1>2 DEF SessionsStep, FlightsStep,
         SJ!RunStep, SJ!FetchSessions, SJ!FetchFails, SJ!StoreSessions,
         SJ!StoreSessionsFails, SJ!StoreNames, SJ!StoreNamesFails,
         FJ!ReadActiveSessions, FJ!PassOver, FJ!FetchFlights, FJ!LoadHistory,
         FJ!StoreHistory, FJ!StoreSnapshot, FJ!Finish
  <2> QED
    BY <2>1, <2>2 DEF NothingWhileDown
<1>3. CASE Crash
  BY <1>3 DEF Crash, SJ!Crash, FJ!Crash, Idle, NothingWhileDown
<1>4. CASE Restart
  BY <1>4 DEF Restart, SJ!Restart, NothingWhileDown
<1>5. CASE Terminating
  BY <1>5 DEF Terminating, NothingWhileDown, vars, clock, sessionsVars, flightsVars
<1>6. ASSUME NEW q \in Requests,
             \/ \E n \in Names : AskList(q, n)
             \/ CheckServer(q) \/ ReadList(q) \/ AnswerPage(q) \/ AnswerMarkers(q)
             \/ \E f \in Flights : AskFlight(q, f)
             \/ ReadFlight(q) \/ AnswerFlight(q)
      PROVE  NothingWhileDown'
  <2>1. up \/ requests[q].pc # "idle"
    BY <1>6 DEF AskList, CheckServer, ReadList, AnswerPage, AnswerMarkers, AskFlight,
                ReadFlight, AnswerFlight
  <2>2. UNCHANGED clock
    BY <1>6 DEF AskList, CheckServer, ReadList, AnswerPage, AnswerMarkers, AskFlight,
                ReadFlight, AnswerFlight, Become
  <2> QED
    BY <2>1, <2>2 DEF NothingWhileDown, clock
<1> QED
  BY <1>1, <1>2, <1>3, <1>4, <1>5, <1>6 DEF Next

\* What a step does to the sessions.
LEMMA SessionsEffect ==
  ASSUME RefreshesSucceed, SafeInv, NothingWhileDown, Next, up'
  PROVE  \/ Tick
         \/ \E r \in sessionRuns :
              /\ SessionsStep /\ sessionRuns = {r}
              /\ SJ!FetchSessions(r) \/ SJ!StoreSessions(r) \/ SJ!StoreNames(r)
         \/ Restart
         \/ up /\ UNCHANGED <<now, sessionRuns, active, names>>
<1>1. CASE SessionsStep
  <2>1. PICK r \in sessionRuns :
          \/ SJ!FetchSessions(r) \/ SJ!FetchFails(r)
          \/ SJ!StoreSessions(r) \/ SJ!StoreSessionsFails(r)
          \/ SJ!StoreNames(r) \/ SJ!StoreNamesFails(r)
    BY <1>1 DEF SessionsStep, SJ!RunStep
  <2>2. ~SJ!FetchFails(r) /\ ~SJ!StoreSessionsFails(r) /\ ~SJ!StoreNamesFails(r)
    <3>1. Missing \notin SUBSET Sessions
      BY GameReadsAssumption
    <3> QED
      BY <3>1 DEF SJ!FetchFails, SJ!GetSessions, SJ!StoreSessionsFails, SJ!StoreNamesFails,
                  RefreshesSucceed
  <2>3. sessionRuns = {r}
    BY DEF SafeInv, JobsTimely
  <2> QED
    BY <1>1, <2>1, <2>2, <2>3
<1>2. CASE FlightsStep
  <2>1. UNCHANGED <<now, up>>
    BY <1>2 DEF FlightsStep, FJ!ReadActiveSessions, FJ!PassOver, FJ!FetchFlights,
                FJ!LoadHistory, FJ!StoreHistory, FJ!StoreSnapshot, FJ!Finish
  <2> QED
    BY <1>2, <2>1 DEF FlightsStep, sessionsVars
<1>3. CASE Crash \/ Terminating
  BY <1>3 DEF Crash, SJ!Crash, Terminating, vars, clock, sessionsVars
<1>4. ASSUME NEW q \in Requests,
             \/ \E n \in Names : AskList(q, n)
             \/ CheckServer(q) \/ ReadList(q) \/ AnswerPage(q) \/ AnswerMarkers(q)
             \/ \E f \in Flights : AskFlight(q, f)
             \/ ReadFlight(q) \/ AnswerFlight(q)
      PROVE  up /\ UNCHANGED <<now, sessionRuns, active, names>>
  BY <1>4 DEF AskList, CheckServer, ReadList, AnswerPage, AnswerMarkers, AskFlight,
              ReadFlight, AnswerFlight, Become, clock, sessionsVars
<1> QED
  BY <1>1, <1>2, <1>3, <1>4 DEF Next


\* A run goes on, and when it was started stays.
LEMMA SessionsRunGoesOn ==
  ASSUME SafeInv, NEW r \in sessionRuns, sessionRuns = {r},
         SJ!FetchSessions(r) \/ SJ!StoreSessions(r)
  PROVE  \E o : /\ sessionRuns' = {o} /\ o.started = r.started
                /\ SJ!FetchSessions(r) => o.pc = "sessions" /\ UNCHANGED <<now, active, names>>
                /\ SJ!StoreSessions(r) => /\ o.pc = "names" /\ UNCHANGED <<now, names>>
                                          /\ active' = SJ!Stored(r.next)
<1>1. r \in SJP!Run
  BY Times
<1>2. \A o : SJ!Continue(r, o) => sessionRuns' = {o}
  BY DEF SJ!Continue
<1>3. ASSUME SJ!FetchSessions(r)
      PROVE  \E o : /\ sessionRuns' = {o} /\ o.started = r.started
                    /\ o.pc = "sessions" /\ UNCHANGED <<now, active, names>>
  <2>1. PICK next : SJ!Continue(r, [r EXCEPT !.pc = "sessions", !.next = next])
    BY <1>3 DEF SJ!FetchSessions
  <2> DEFINE o == [r EXCEPT !.pc = "sessions", !.next = next]
  <2>2. o.pc = "sessions" /\ o.started = r.started
    BY <1>1 DEF SJP!Run
  <2>3. sessionRuns' = {o} /\ UNCHANGED <<now, active, names>>
    BY <1>2, <1>3, <2>1 DEF SJ!FetchSessions
  <2> QED
    BY <2>2, <2>3
<1>4. ASSUME SJ!StoreSessions(r)
      PROVE  \E o : /\ sessionRuns' = {o} /\ o.started = r.started
                    /\ o.pc = "names" /\ UNCHANGED <<now, names>>
                    /\ active' = SJ!Stored(r.next)
  <2> DEFINE o == [r EXCEPT !.pc = "names"]
  <2>1. o.pc = "names" /\ o.started = r.started
    BY <1>1 DEF SJP!Run
  <2>2. sessionRuns' = {o} /\ UNCHANGED <<now, names>> /\ active' = SJ!Stored(r.next)
    BY <1>2, <1>4 DEF SJ!StoreSessions
  <2> QED
    BY <2>1, <2>2
<1>5. SJ!FetchSessions(r) => ~SJ!StoreSessions(r)
  BY DEF SJ!FetchSessions, SJ!StoreSessions
<1> QED
  BY <1>3, <1>4, <1>5

\* The process comes up only so.
LEMMA OnlyRestarts == ASSUME Next, ~Restart PROVE UNCHANGED restarted
BY DEF Next, Tick, SessionsStep, FlightsStep, Crash, Terminating, AskList, CheckServer, ReadList,
       AnswerPage, AnswerMarkers, AskFlight, ReadFlight, AnswerFlight, Become, vars

LEMMA ServersGoOn ==
  ASSUME RefreshesSucceed, SafeInv, SafeInv', ListsInv, Next
  PROVE  ServersKeepUp'
<1> SUFFICES ASSUME up', NEW n \in Names, n \in Listed(active')
             PROVE  KeepsUp(n)'
  BY DEF ServersKeepUp
<1>1. now \in Nat /\ now' \in Nat /\ now' # Missing
  BY Times, TimeEffect, NowIsThere
<1>2. CASE n \notin Listed(active)
  <2>1. returned'[n] = now'
    BY <1>2, TimeEffect
  <2> QED
    BY <1>1, <2>1, KeepsUpAnewThen DEF Excuses
<1>3. CASE n \in Listed(active) /\ up
  BY <1>3, KeepsUpStays DEF ListsInv, ServersKeepUp
<1>4. CASE ~up
  <2>1. CASE Restart
    <3>1. restarted' = now'
      BY <2>1 DEF Restart, SJ!Restart
    <3> QED
      BY <1>1, <3>1, KeepsUpAnewThen DEF Excuses
  <2>2. CASE ~Restart
    <3>1. ~Tick
      BY <1>4 DEF Tick, SJ!Tick
    <3>2. sessionRuns = {}
      BY <1>4 DEF ListsInv, NothingWhileDown
    <3> QED
      BY <1>4, <2>2, <3>1, <3>2, SessionsEffect DEF ListsInv
  <2> QED
    BY <2>1, <2>2
<1> QED
  BY <1>2, <1>3, <1>4

\* The first refresh of the sessions is still to end.
LEMMA YoungStays ==
  ASSUME RefreshesSucceed, SafeInv, SafeInv', ListsInv, Next, up', Young,
         sessionRuns # {} => sessionRuns' # {}
  PROVE  Young'
<1>1. /\ now \in Nat /\ Interval \in Nat \ {0} /\ restarted \in Nat /\ now # Missing
      /\ restarted # Missing
  BY Times, NowIsThere DEF Young
<1>2. restarted' # Missing
  BY <1>1, TimeEffect
<1>3. CASE Tick
  <2>1. now' = now + 1 /\ SJ!Fire(now + 1) /\ up /\ UNCHANGED restarted
    BY <1>3 DEF Tick, SJ!Tick
  <2>2. CASE sessionRuns = {} /\ SJ!Due(now + 1)
    <3>1. sessionRuns' = {SJ!NewRun(now + 1)} /\ SJ!NewRun(now + 1).started = now + 1
      BY <2>1, <2>2 DEF SJ!Fire, SJ!NewRun
    <3>2. now + 1 <= restarted + Interval
      BY <1>1, <2>2, DueAgain DEF Young
    <3> QED
      BY <1>2, <2>1, <3>1, <3>2 DEF Young
  <2>3. CASE sessionRuns = {} /\ ~SJ!Due(now + 1)
    <3>1. sessionRuns' = {} /\ LastDue' = LastDue
      BY <2>1, <2>3, DueAgain DEF SJ!Fire
    <3> QED
      BY <2>1, <2>3, <3>1 DEF Young
  <2>4. CASE sessionRuns # {}
    <3>1. UNCHANGED <<restarted, sessionRuns>>
      BY <2>1, <2>4 DEF SJ!Fire
    <3> QED
      BY <2>4, <3>1 DEF Young
  <2> QED
    BY <2>2, <2>3, <2>4
<1>4. CASE Restart
  <2>1. UNCHANGED now /\ restarted' = now /\ sessionRuns' = {}
    BY <1>4 DEF Restart, SJ!Restart, ListsInv, NothingWhileDown
  <2>2. LastDue' = LastDue
    BY <2>1 DEF LastDue
  <2> QED
    BY <1>2, <2>1, <2>2, DueAgain DEF Young
<1>5. ASSUME NEW r \in sessionRuns, SessionsStep, sessionRuns = {r},
             SJ!FetchSessions(r) \/ SJ!StoreSessions(r)
      PROVE  Young'
  <2>1. \E o : sessionRuns' = {o} /\ o.started = r.started
    BY <1>5, SessionsRunGoesOn
  <2>2. UNCHANGED restarted
    BY <1>5 DEF SessionsStep
  <2> QED
    BY <1>5, <2>1, <2>2 DEF Young
<1>6. CASE up /\ UNCHANGED <<now, sessionRuns, active, names>>
  <2>1. UNCHANGED restarted
    <3>1. ~Restart
      BY <1>6 DEF Restart, SJ!Restart
    <3> QED
      BY <3>1, OnlyRestarts
  <2> QED
    BY <1>6, <2>1 DEF Young, LastDue
<1>7. \A r \in sessionRuns : sessionRuns = {r} => ~SJ!StoreNames(r)
  BY DEF SJ!StoreNames, SJ!Succeed
<1> QED
  BY <1>3, <1>4, <1>5, <1>6, <1>7, SessionsEffect DEF ListsInv

LEMMA UntouchedStays ==
  ASSUME RefreshesSucceed, SafeInv, Next, Untouched, UNCHANGED <<active, names>>
  PROVE  Untouched'
<1>1. CASE Tick
  <2>1. \A r \in flightRuns' : r \in flightRuns \/ r = FJ!NewRun(now + 1)
    BY <1>1 DEF Tick, FJ!Tick, FJ!Fire
  <2>2. \A n \in Names : snapshots'[n] = Missing
    BY <1>1 DEF Tick, FJ!Tick, FJ!Unexpired, Untouched, SafeInv, JobsInv, FJP!IInv, FJP!TypeOK
  <2> QED
    BY <2>1, <2>2 DEF Untouched, FJ!NewRun
<1>2. CASE SessionsStep
  BY <1>2 DEF SessionsStep, flightsVars, Untouched
<1>3. CASE FlightsStep
  <2>1. PICK r \in flightRuns, cached \in CachedNow : FJ!ReadActiveSessions(r, cached)
    BY <1>3 DEF FlightsStep, Untouched, FJ!PassOver, FJ!FetchFlights, FJ!LoadHistory,
                FJ!StoreHistory, FJ!StoreSnapshot, FJ!Finish
  <2>2. cached = Missing
    BY DEF CachedNow, RefreshesSucceed, Untouched
  <2>3. flightRuns' = flightRuns \ {r} /\ UNCHANGED snapshots
    BY <2>1, <2>2 DEF FJ!ReadActiveSessions, FJ!Succeed, FJ!redis
  <2> QED
    BY <1>3, <2>3 DEF FlightsStep, sessionsVars, Untouched
<1>4. CASE Crash \/ Restart \/ Terminating
  BY <1>4 DEF Crash, SJ!Crash, FJ!Crash, FJ!redis, Restart, SJ!Restart, FJ!Restart,
              Terminating, vars, sessionsVars, flightsVars, Untouched
<1>5. ASSUME NEW q \in Requests,
             \/ \E n \in Names : AskList(q, n)
             \/ CheckServer(q) \/ ReadList(q) \/ AnswerPage(q) \/ AnswerMarkers(q)
             \/ \E f \in Flights : AskFlight(q, f)
             \/ ReadFlight(q) \/ AnswerFlight(q)
      PROVE  UNCHANGED <<sessionsVars, flightsVars>>
  BY <1>5 DEF AskList, CheckServer, ReadList, AnswerPage, AnswerMarkers, AskFlight,
              ReadFlight, AnswerFlight, Become
<1> QED
  BY <1>1, <1>2, <1>3, <1>4, <1>5 DEF Next, sessionsVars, flightsVars, Untouched

\* While the process is up, a tick takes the sessions away only if they have not
\* been refreshed since it came up.
LEMMA TickLeaves ==
  ASSUME RefreshesSucceed, SafeInv, SessionsStay, Tick, up, active # Missing
  PROVE  active' = active \/ Young
<1>1. now' = now + 1 /\ (~(active.exp <= now + 1) => active' = active)
      /\ \A r \in sessionRuns : now < r.started + MaxRunTicks
  BY DEF Tick, SJ!Tick
<1>2. now \in Nat /\ active.exp \in Nat /\ MaxRunTicks \in Nat /\ Interval \in Nat
      /\ SessionsTTL \in Nat /\ SessionsTTL > Interval + 2 * MaxRunTicks
  BY Times DEF RefreshesSucceed
<1>3. CASE sessionRuns = {}
  <2>1. Young \/ LastDue + Interval + MaxRunTicks < active.exp
    BY <1>3 DEF SessionsStay
  <2> QED
    BY <1>1, <1>2, <2>1, DueAgain
<1>4. ASSUME NEW r \in sessionRuns PROVE active' = active \/ Young
  <2>1. \/ Young \/ r.started + MaxRunTicks < active.exp
        \/ r.started + SessionsTTL <= active.exp
    BY DEF SessionsStay
  <2>2. r.started \in Nat /\ now < r.started + MaxRunTicks
    BY <1>1, Times
  <2> QED
    BY <1>1, <1>2, <2>1, <2>2
<1> QED
  BY <1>3, <1>4

LEMMA SessionsGoOn ==
  ASSUME RefreshesSucceed, SafeInv, SafeInv', ListsInv, Next
  PROVE  SessionsStay'
<1> SUFFICES ASSUME up' PROVE SessionsStay'
  BY DEF SessionsStay
<1>1. now \in Nat /\ MaxRunTicks \in Nat /\ Interval \in Nat /\ SessionsTTL \in Nat
      /\ SessionsTTL > Interval + 2 * MaxRunTicks
  BY Times DEF RefreshesSucceed
<1>2. \A r \in sessionRuns : r.started \in Nat /\ r.started <= now
                             /\ now <= r.started + MaxRunTicks
  BY Times
<1>3. CASE Young /\ (sessionRuns # {} => sessionRuns' # {})
           /\ ~\E r \in sessionRuns' : r.pc = "names"
  <2>1. Young'
    BY <1>3, YoungStays
  <2> QED
    BY <1>3, <2>1 DEF SessionsStay
<1>4. CASE Tick
  <2>1. now' = now + 1 /\ up /\ SJ!Fire(now + 1)
    BY <1>4 DEF Tick, SJ!Tick
  <2>2. active = Missing => active' = Missing
    BY <1>4 DEF Tick, SJ!Tick
  <2>3. CASE sessionRuns = {} /\ ~Young
    <3>1. active' # Missing => active' = active /\ LastDue + Interval + MaxRunTicks < active.exp
      BY <1>4, <2>1, <2>2, <2>3, TickLeaves DEF ListsInv, SessionsStay
    <3>2. CASE SJ!Due(now + 1)
      <4>1. sessionRuns' = {SJ!NewRun(now + 1)} /\ SJ!NewRun(now + 1).started = now + 1
            /\ SJ!NewRun(now + 1).pc = "fetch"
        BY <2>1, <2>3, <3>2 DEF SJ!Fire, SJ!NewRun
      <4>2. now + 1 = LastDue + Interval
        BY <3>2, DueAgain
      <4> QED
        BY <3>1, <4>1, <4>2 DEF SessionsStay
    <3>3. CASE ~SJ!Due(now + 1)
      <4>1. sessionRuns' = {} /\ LastDue' = LastDue
        BY <2>1, <2>3, <3>3, DueAgain DEF SJ!Fire
      <4> QED
        BY <3>1, <4>1 DEF SessionsStay
    <3> QED
      BY <3>2, <3>3
  <2>4. ASSUME NEW r \in sessionRuns, ~(Young /\ r.pc # "names")
        PROVE  SessionsStay'
    <3>1. sessionRuns' = {r} /\ \A o \in sessionRuns : r = o
      BY <2>1, <2>4 DEF SJ!Fire, SafeInv, JobsTimely
    <3>2. CASE r.pc = "names"
      <4>1. active # Missing /\ r.started + SessionsTTL <= active.exp
        BY <2>1, <3>2 DEF ListsInv, SessionsStay
      <4>2. ~(active.exp <= now + 1)
        <5>1. now < r.started + MaxRunTicks
          BY <1>4 DEF Tick, SJ!Tick
        <5>2. active.exp \in Nat
          BY <4>1, Times
        <5> QED
          BY <1>1, <1>2, <4>1, <5>1, <5>2
      <4>3. active' = active
        BY <1>4, <4>2 DEF Tick, SJ!Tick
      <4> QED
        BY <3>1, <3>2, <4>1, <4>3 DEF SessionsStay
    <3>3. CASE r.pc # "names"
      <4>1. active' # Missing => active' = active /\ r.started + MaxRunTicks < active.exp
        BY <1>4, <2>1, <2>2, <2>4, <3>3, TickLeaves DEF ListsInv, SessionsStay
      <4> QED
        BY <3>1, <3>3, <4>1 DEF SessionsStay
    <3> QED
      BY <3>2, <3>3
  <2>5. CASE Young /\ ~\E r \in sessionRuns : r.pc = "names"
    <3>1. \A r \in sessionRuns' : r \in sessionRuns \/ r = SJ!NewRun(now + 1)
      BY <2>1 DEF SJ!Fire
    <3>2. sessionRuns # {} => sessionRuns' # {}
      BY <2>1 DEF SJ!Fire
    <3> QED
      BY <1>3, <2>5, <3>1, <3>2 DEF SJ!NewRun
  <2> QED
    BY <2>3, <2>4, <2>5
<1>5. ASSUME NEW r \in sessionRuns, SessionsStep, sessionRuns = {r}, SJ!FetchSessions(r)
      PROVE  SessionsStay'
  <2>1. PICK o : /\ sessionRuns' = {o} /\ o.started = r.started
                 /\ o.pc = "sessions" /\ UNCHANGED <<now, active, names>>
    BY <1>5, SessionsRunGoesOn
  <2>2. r.pc = "fetch" /\ up
    BY <1>5 DEF SJ!FetchSessions, ListsInv, NothingWhileDown
  <2>3. CASE Young
    BY <1>3, <2>1, <2>3
  <2>4. CASE ~Young
    <3>1. active # Missing => r.started + MaxRunTicks < active.exp
      BY <2>2, <2>4 DEF ListsInv, SessionsStay
    <3> QED
      BY <2>1, <3>1 DEF SessionsStay
  <2> QED
    BY <2>3, <2>4
<1>6. ASSUME NEW r \in sessionRuns, SessionsStep, sessionRuns = {r}, SJ!StoreSessions(r)
      PROVE  SessionsStay'
  <2>1. PICK o : /\ sessionRuns' = {o} /\ o.started = r.started /\ o.pc = "names"
                 /\ active' = SJ!Stored(r.next)
    BY <1>6, SessionsRunGoesOn
  <2>2. active' # Missing
    <3>1. r.next \in SJP!Refresh
      BY <1>6 DEF SJ!StoreSessions, SafeInv, JobsTimely
    <3>2. now + SessionsTTL \in Nat
      BY <1>1
    <3>3. SJ!Stored(r.next) \in SJ!Snapshot
      BY <3>1, <3>2 DEF SJ!Stored, SJ!Snapshot, SJP!Refresh, SJP!Time, SJ!Time
    <3> QED
      BY <2>1, <3>3, GameReadsAssumption
  <2>3. r.started + SessionsTTL <= active'.exp
    <3>1. active'.exp = now + SessionsTTL
      BY <2>1 DEF SJ!Stored
    <3> QED
      BY <1>1, <1>2, <3>1
  <2> QED
    BY <2>1, <2>2, <2>3 DEF SessionsStay
<1>7. ASSUME NEW r \in sessionRuns, SessionsStep, sessionRuns = {r}, SJ!StoreNames(r)
      PROVE  SessionsStay'
  <2>1. sessionRuns' = {} /\ UNCHANGED <<now, active>> /\ r.pc = "names" /\ up
    BY <1>7 DEF SJ!StoreNames, SJ!Succeed, ListsInv, NothingWhileDown
  <2>2. active # Missing /\ r.started + SessionsTTL <= active.exp
    BY <2>1 DEF ListsInv, SessionsStay
  <2>3. LastDue \in Int /\ LastDue <= now /\ active.exp \in Nat /\ LastDue' = LastDue
    BY <2>1, <2>2, DueAgain, Times DEF LastDue
  <2>4. LastDue + Interval + MaxRunTicks < active.exp
    BY <1>1, <1>2, <2>2, <2>3
  <2> QED
    BY <2>1, <2>3, <2>4 DEF SessionsStay
<1>8. CASE Restart
  <2>1. sessionRuns = {} /\ sessionRuns' = {}
    BY <1>8 DEF Restart, SJ!Restart, ListsInv, NothingWhileDown
  <2>2. Young'
    <3>1. UNCHANGED now /\ restarted' = now /\ LastDue' = LastDue
      BY <1>8 DEF Restart, SJ!Restart, LastDue
    <3> QED
      BY <2>1, <3>1, DueAgain, NowIsThere DEF Young
  <2> QED
    BY <2>1, <2>2 DEF SessionsStay
<1>9. CASE up /\ UNCHANGED <<now, sessionRuns, active, names>>
  <2>1. ~Restart
    BY <1>9 DEF Restart, SJ!Restart
  <2>2. Young => Young'
    BY <1>9, <2>1, OnlyRestarts DEF Young, LastDue
  <2> QED
    BY <1>9, <2>2 DEF ListsInv, SessionsStay, LastDue
<1> QED
  BY <1>4, <1>5, <1>6, <1>7, <1>8, <1>9, SessionsEffect DEF ListsInv

LEMMA KnownGoOn ==
  ASSUME RefreshesSucceed, SafeInv, SafeInv', ListsInv, Next
  PROVE  KnownHaveSessions'
<1> SUFFICES ASSUME up', NEW n \in Names, Known(n)'
             PROVE  \/ n \in Listed(active')
                    \/ \E r \in sessionRuns' : r.pc = "names" /\ KeptUp(n, r.started)'
                    \/ Young' \/ Untouched'
  BY DEF KnownHaveSessions
<1>1. \A r \in sessionRuns : r.started \in Nat /\ r.started <= now
                             /\ now <= r.started + MaxRunTicks
  BY Times
<1>2. \A r \in sessionRuns : KeptUp(n, r.started) => KeptUp(n, r.started)'
  BY <1>1, KeptUpStays DEF ListsInv
<1>3. CASE Tick
  <2>1. up /\ UNCHANGED names /\ SJ!Fire(now + 1)
    BY <1>3 DEF Tick, SJ!Tick
  <2>2. Known(n)
    BY <2>1 DEF Known
  <2>3. Young => Young'
    BY <2>1, YoungStays DEF SJ!Fire
  <2>4. Untouched => Untouched'
    <3>1. active = Missing => active' = Missing
      BY <1>3 DEF Tick, SJ!Tick
    <3> QED
      BY <2>1, <3>1, UntouchedStays DEF Untouched
  <2>5. n \in Listed(active) => n \in Listed(active') \/ Young'
    BY <1>3, <2>1, <2>3, TickLeaves DEF Listed, ListsInv
  <2>6. sessionRuns # {} => sessionRuns' = sessionRuns
    BY <2>1 DEF SJ!Fire
  <2> QED
    BY <1>2, <2>1, <2>2, <2>3, <2>4, <2>5, <2>6 DEF ListsInv, KnownHaveSessions
<1>4. ASSUME NEW r \in sessionRuns, SessionsStep, sessionRuns = {r}, SJ!FetchSessions(r)
      PROVE  n \in Listed(active') \/ Young' \/ Untouched'
  <2>1. UNCHANGED <<active, names>> /\ r.pc = "fetch" /\ up
    BY <1>4 DEF SJ!FetchSessions, ListsInv, NothingWhileDown
  <2>2. sessionRuns' # {}
    BY <1>4, SessionsRunGoesOn
  <2>3. n \in Listed(active) \/ Young \/ Untouched
    BY <1>4, <2>1 DEF ListsInv, KnownHaveSessions, Known
  <2> QED
    BY <1>4, <2>1, <2>2, <2>3, YoungStays, UntouchedStays
<1>5. ASSUME NEW r \in sessionRuns, SessionsStep, sessionRuns = {r}, SJ!StoreSessions(r)
      PROVE  \/ \E o \in sessionRuns' : o.pc = "names" /\ KeptUp(n, o.started)'
             \/ Young'
  <2>1. PICK o : /\ sessionRuns' = {o} /\ o.started = r.started /\ o.pc = "names"
                 /\ UNCHANGED <<now, names>>
    BY <1>5, SessionsRunGoesOn
  <2>2. r.pc = "sessions" /\ up
    BY <1>5 DEF SJ!StoreSessions, ListsInv, NothingWhileDown
  <2>3. n \in Listed(active) \/ Young \/ Untouched
    BY <1>5, <2>1, <2>2 DEF ListsInv, KnownHaveSessions, Known
  <2>4. CASE Young
    BY <2>1, <2>4, YoungStays
  <2>5. CASE n \in Listed(active) \/ Untouched
    <3>1. r.started \in Int /\ r.started <= now /\ now \in Int
      BY <1>1, Times
    <3>2. KeptUp(n, r.started)
      <4>1. CASE n \in Listed(active)
        BY <2>2, <3>1, <4>1, KeepsUpIsKept, KeptUpEarlier DEF ListsInv, ServersKeepUp
      <4>2. CASE Untouched
        <5>1. Fresh(n, now - MaxRunTicks)
          BY <4>2, UntouchedIsFresh
        <5>2. /\ now - MaxRunTicks \in Int /\ r.started - 2 * MaxRunTicks - 1 \in Int
              /\ r.started - 2 * MaxRunTicks - 1 <= now - MaxRunTicks
          BY <3>1, Times
        <5> QED
          BY <5>1, <5>2, FreshEarlier DEF KeptUp
      <4> QED
        BY <2>5, <4>1, <4>2
    <3> QED
      BY <1>2, <2>1, <3>2
  <2> QED
    BY <2>3, <2>4, <2>5
<1>6. ASSUME NEW r \in sessionRuns, SessionsStep, sessionRuns = {r}, SJ!StoreNames(r)
      PROVE  n \in Listed(active')
  <2>1. /\ names' = SJ!NamesOf(r.next.listed) /\ UNCHANGED active /\ r.pc = "names" /\ up
    BY <1>6 DEF SJ!StoreNames, ListsInv, NothingWhileDown
  <2>2. active # Missing /\ active.listed = r.next.listed
    BY <2>1 DEF ListsInv, SessionsStay, SafeInv, JobsTimely
  <2>3. names' # Missing
    <3>1. r.next.listed \in SUBSET Sessions
      BY <2>1 DEF SafeInv, JobsTimely, SJP!Refresh
    <3>2. names' \in SUBSET (Names \cup {NoName})
      BY <2>1, <3>1, GameReadsAssumption DEF SJ!NamesOf
    <3> QED
      BY <3>2, GameReadsAssumption
  <2> QED
    BY <2>1, <2>2, <2>3 DEF Known, Listed
<1>7. CASE Restart
  <2>1. sessionRuns' = {} /\ UNCHANGED now /\ restarted' = now /\ LastDue' = LastDue
    BY <1>7 DEF Restart, SJ!Restart, ListsInv, NothingWhileDown, LastDue
  <2> QED
    BY <2>1, DueAgain, NowIsThere DEF Young
<1>8. CASE up /\ UNCHANGED <<now, sessionRuns, active, names>>
  <2>1. Known(n)
    BY <1>8 DEF Known
  <2> QED
    BY <1>2, <1>8, <2>1, YoungStays, UntouchedStays DEF ListsInv, KnownHaveSessions
<1> QED
  BY <1>3, <1>4, <1>5, <1>6, <1>7, <1>8, SessionsEffect DEF ListsInv

\* A server is looked up once it is known to be there, and a list is what is
\* read of it then.
LEMMA RequestEffect ==
  ASSUME SafeInv, Next, NEW q \in Requests, requests'[q] # requests[q]
  PROVE  /\ requests'[q].pc = "snapshot" =>
              /\ requests[q].pc = "names" /\ Known(requests[q].server)
              /\ requests'[q].sent = requests[q].sent
              /\ requests'[q].server = requests[q].server
         /\ requests'[q].pc = "listed" =>
              LET n == requests[q].server
              IN  /\ requests[q].pc = "snapshot" /\ snapshots[n] # Missing
                  /\ requests'[q].at = snapshots[n].at
<1> DEFINE r == requests[q]
           Goal == /\ requests'[q].pc = "snapshot" =>
                        /\ r.pc = "names" /\ Known(r.server)
                        /\ requests'[q].sent = r.sent /\ requests'[q].server = r.server
                   /\ requests'[q].pc = "listed" =>
                        /\ r.pc = "snapshot" /\ snapshots[r.server] # Missing
                        /\ requests'[q].at = snapshots[r.server].at
<1>1. requests \in [Requests -> Request] /\ r \in Request
  BY DEF SafeInv, IInv, RequestsTyped
<1>2. CASE Crash
  <2>1. requests'[q].pc = "idle"
    BY <1>2 DEF Crash, Idle
  <2> QED
    BY <2>1
<1>3. ASSUME NEW p \in Requests,
             \/ \E m \in Names : AskList(p, m)
             \/ CheckServer(p) \/ ReadList(p) \/ AnswerPage(p) \/ AnswerMarkers(p)
             \/ \E f \in Flights : AskFlight(p, f)
             \/ ReadFlight(p) \/ AnswerFlight(p)
      PROVE  Goal
  <2>1. \A r2 : Become(p, r2) => p = q /\ requests'[q] = r2
    BY <1>1 DEF Become
  <2>2. ASSUME NEW r2, Become(p, r2), r2.pc \notin {"snapshot", "listed"}
        PROVE  Goal
    BY <2>1, <2>2
  <2>3. Idle.pc = "idle"
    BY DEF Idle
  <2>4. ASSUME NEW m, AskList(p, m) PROVE Goal
    <3>1. [Idle EXCEPT !.pc = "names", !.sent = now, !.server = m].pc = "names"
      BY DEF Idle
    <3> QED
      BY <2>2, <2>4, <3>1 DEF AskList
  <2>5. ASSUME NEW f, AskFlight(p, f) PROVE Goal
    <3> DEFINE r2 == [Idle EXCEPT !.pc = "flight", !.sent = now,
                                  !.server = NameOf[SessionOf[f]], !.flight = f,
                                  !.floor = marked[f]]
    <3>1. r2.pc = "flight" /\ Become(p, r2)
      BY <2>5 DEF Idle, AskFlight
    <3> HIDE DEF r2
    <3> QED
      BY <2>2, <3>1
  <2>6. ASSUME CheckServer(p) PROVE Goal
    <3> DEFINE r2 == [r EXCEPT !.pc = "snapshot"]
    <3>1. CASE Become(p, Idle)
      BY <2>2, <2>3, <3>1
    <3>2. CASE ~Become(p, Idle)
      <4>1. p = q /\ Become(q, r2) /\ Known(r.server) /\ r.pc = "names"
        BY <2>1, <2>6, <3>2 DEF CheckServer
      <4>2. r2.pc = "snapshot" /\ r2.sent = r.sent /\ r2.server = r.server
        BY <1>1 DEF Request
      <4> QED
        BY <2>1, <4>1, <4>2
    <3> QED
      BY <3>1, <3>2
  <2>7. ASSUME ReadList(p) PROVE Goal
    <3>1. CASE Become(p, Idle)
      BY <2>2, <2>3, <3>1
    <3>2. CASE ~Become(p, Idle)
      <4>1. PICK kept : /\ p = q /\ r.pc = "snapshot" /\ snapshots[r.server] # Missing
                        /\ Become(q, [r EXCEPT !.pc = "listed", !.kept = kept,
                                               !.at = snapshots[r.server].at])
        BY <2>1, <2>7, <3>2 DEF ReadList
      <4> DEFINE r2 == [r EXCEPT !.pc = "listed", !.kept = kept, !.at = snapshots[r.server].at]
      <4>2. r2.pc = "listed" /\ r2.at = snapshots[r.server].at
        BY <1>1 DEF Request
      <4> QED
        BY <2>1, <4>1, <4>2
    <3> QED
      BY <3>1, <3>2
  <2>8. ASSUME ReadFlight(p) PROVE Goal
    <3>1. \A at : [requests[p] EXCEPT !.pc = "found", !.at = at].pc = "found"
      BY <1>1 DEF Request
    <3> QED
      BY <2>2, <2>3, <2>8, <3>1 DEF ReadFlight
  <2>9. ASSUME AnswerPage(p) \/ AnswerMarkers(p) \/ AnswerFlight(p) PROVE Goal
    BY <2>2, <2>3, <2>9 DEF AnswerPage, AnswerMarkers, AnswerFlight
  <2> QED
    BY <1>3, <2>4, <2>5, <2>6, <2>7, <2>8, <2>9
<1>4. \/ Crash
      \/ \E p \in Requests :
          \/ \E m \in Names : AskList(p, m)
          \/ CheckServer(p) \/ ReadList(p) \/ AnswerPage(p) \/ AnswerMarkers(p)
          \/ \E f \in Flights : AskFlight(p, f)
          \/ ReadFlight(p) \/ AnswerFlight(p)
  BY DEF Next, Tick, SessionsStep, FlightsStep, Restart, Terminating, vars
<1> QED
  BY <1>2, <1>3, <1>4

LEMMA ChecksGoOn ==
  ASSUME RefreshesSucceed, SafeInv, SafeInv', ListsInv, NothingWhileDown', Next
  PROVE  CheckedHold'
<1> SUFFICES ASSUME NEW q \in Requests, requests'[q].pc = "snapshot",
                    NEW u \in Int, u = requests'[q].sent - MaxRunTicks,
                    NEW n, n = requests'[q].server
             PROVE  KeptUp(n, u)'
  <2>1. \A q \in Requests : requests'[q].sent - MaxRunTicks \in Int
    BY Numbers DEF SafeInv, IInv, RequestsTyped, Request
  <2> QED
    BY <2>1 DEF CheckedHold
<1>1. up'
  BY DEF NothingWhileDown
<1>2. n \in Names
  BY DEF SafeInv, IInv, RequestOK
<1>3. CASE requests'[q] = requests[q]
  BY <1>1, <1>2, <1>3, KeptUpStays DEF ListsInv, CheckedHold
<1>4. CASE requests'[q] # requests[q]
  <2>1. /\ requests[q].pc = "names" /\ Known(n) /\ n = requests[q].server
        /\ u = requests[q].sent - MaxRunTicks
    BY <1>4, RequestEffect
  <2>2. up
    BY <2>1 DEF ListsInv, NothingWhileDown
  <2>3. u <= now - MaxRunTicks /\ now - MaxRunTicks \in Int
    BY <2>1, Times DEF SafeInv, IInv, RequestOK
  <2>4. KeptUp(n, u)
    BY <1>2, <2>1, <2>2, <2>3, KnownIsKept, KeptUpEarlier
  <2> QED
    BY <1>1, <1>2, <2>4, KeptUpStays DEF ListsInv
<1> QED
  BY <1>3, <1>4

LEMMA ListsInit == Init => ListsInv
BY DEF Init, SJ!Init, FJ!Init, Idle, ListsInv, ReturnsInPast, NothingWhileDown, ServersKeepUp,
       Listed, KnownHaveSessions, Untouched, SessionsStay, CheckedHold

LEMMA ListsStep ==
  ASSUME RefreshesSucceed
  PROVE  SafeInv /\ SafeInv' /\ ListsInv /\ [Next]_vars => ListsInv'
<1> SUFFICES ASSUME SafeInv, SafeInv', ListsInv, [Next]_vars PROVE ListsInv'
  OBVIOUS
<1>1. CASE Next
  <2>1. ReturnsInPast' /\ NothingWhileDown'
    BY <1>1, ReturnsStay, DownStays DEF ListsInv
  <2>2. ServersKeepUp' /\ KnownHaveSessions' /\ SessionsStay' /\ CheckedHold'
    BY <1>1, <2>1, ServersGoOn, KnownGoOn, SessionsGoOn, ChecksGoOn
  <2> QED
    BY <2>1, <2>2 DEF ListsInv
<1>2. CASE UNCHANGED vars
  BY <1>2 DEF vars, clock, sessionsVars, flightsVars, ListsInv, ReturnsInPast, NothingWhileDown,
              ServersKeepUp, KeepsUp, Fresh, FJP!NothingOlder, Listed, KnownHaveSessions, Known,
              KeptUp, Young, LastDue, Untouched, SessionsStay, CheckedHold
<1> QED
  BY <1>1, <1>2

\* What a server's snapshot says is fresh if whoever reads it was told, within
\* the ticks a request may take, that the server is known.
LEMMA ReadIsFresh ==
  ASSUME SafeInv, ListsInv, NEW q \in Requests, requests[q].pc = "snapshot",
         NEW n \in Names, n = requests[q].server, snapshots[n] # Missing
  PROVE  \/ now <= snapshots[n].at + FreshWithin
         \/ returned[n] # Missing /\ now <= returned[n] + FreshWithin
         \/ restarted # Missing /\ now <= restarted + Interval + FreshWithin
<1> DEFINE R == MaxRunTicks
           sent == requests[q].sent
<1>1. /\ now \in Nat /\ R \in Nat /\ MaxRequestTicks \in Nat /\ Interval \in Nat
      /\ sent \in Nat /\ now <= sent + MaxRequestTicks
      /\ snapshots[n].at \in Nat
      /\ returned[n] # Missing => returned[n] \in Nat
      /\ restarted # Missing => restarted \in Nat
  BY Times DEF SafeInv, IInv, RequestOK
<1>2. PICK t \in Int : Fresh(n, t) /\ now <= t + FreshWithin
  <2>1. KeptUp(n, sent - R)
    BY DEF ListsInv, CheckedHold
  <2>2. CASE Fresh(n, sent - R - 2 * R - 1)
    <3>1. sent - R - 2 * R - 1 \in Int /\ now <= (sent - R - 2 * R - 1) + FreshWithin
      BY <1>1 DEF FreshWithin
    <3> QED
      BY <2>2, <3>1
  <2>3. ASSUME NEW r \in flightRuns, Fresh(n, r.at - 2 * R - 1)
        PROVE  \E t \in Int : Fresh(n, t) /\ now <= t + FreshWithin
    <3>1. r.at - 2 * R - 1 \in Int /\ now <= (r.at - 2 * R - 1) + FreshWithin
      BY <1>1, Times DEF FreshWithin
    <3> QED
      BY <2>3, <3>1
  <2> QED
    BY <2>1, <2>2, <2>3 DEF KeptUp
<1>3. FreshWithin \in Nat
  BY <1>1 DEF FreshWithin
<1> QED
  BY <1>1, <1>2, <1>3 DEF Fresh, FJP!NothingOlder

\* While no refresh fails other than by a crash, a list is as fresh as the runs
\* of the jobs allow, though neither job knows of the other or of the requests,
\* and the names, the sessions and the snapshots are stored, read and expire at
\* different times (jobs/sessions/job.go:69-79, handler.go:220-299).
THEOREM ListsStayFresh ==
  ASSUME RefreshesSucceed
  PROVE  Spec => ListsAreFresh
<1>1. Init => ListsInv
  BY ListsInit
<1>2. SafeInv /\ SafeInv' /\ ListsInv /\ [Next]_vars => ListsInv'
  BY ListsStep
<1>3. Spec => []SafeInv
  <2>1. (JobsInv /\ IInv) /\ JobsTimely => SafeInv
    BY DEF SafeInv
  <2> QED
    BY <2>1, Invariance, JobsAreTimely, PTL
<1> DEFINE Read ==
      \A q \in Requests :
        requests[q].pc = "snapshot" /\ requests'[q].pc = "listed" =>
          LET n == requests[q].server
          IN  \/ now <= requests'[q].at + FreshWithin
              \/ returned[n] # Missing /\ now <= returned[n] + FreshWithin
              \/ restarted # Missing /\ now <= restarted + Interval + FreshWithin
<1>4. SafeInv /\ ListsInv /\ [Next]_vars => [Read]_vars
  <2> SUFFICES ASSUME SafeInv, ListsInv, Next, NEW q \in Requests,
                      requests[q].pc = "snapshot", requests'[q].pc = "listed",
                      NEW n, n = requests[q].server
               PROVE  \/ now <= requests'[q].at + FreshWithin
                      \/ returned[n] # Missing /\ now <= returned[n] + FreshWithin
                      \/ restarted # Missing /\ now <= restarted + Interval + FreshWithin
    OBVIOUS
  <2>1. snapshots[n] # Missing /\ requests'[q].at = snapshots[n].at
    BY RequestEffect
  <2>2. n \in Names
    BY DEF SafeInv, IInv, RequestOK
  <2> QED
    BY <2>1, <2>2, ReadIsFresh
<1>5. Spec => [][Read]_vars
  BY <1>1, <1>2, <1>3, <1>4, PTL DEF Spec
<1> QED
  BY <1>5 DEF ListsAreFresh
=============================================================================

----------------------------- MODULE FlightsJob -----------------------------
(***************************************************************************)
(* The flights refresh job (internal/jobs/flights/job.go) as the scheduler *)
(* runs it: every minute a tick starts a run unless one is still going,    *)
(* and the run works through the active sessions, each with one upstream   *)
(* call and a series of Redis operations any of which may fail.  Two kinds *)
(* of Redis keys are written, with the same time to live: the snapshot of  *)
(* a server's flights, and the history of a flight's earlier positions.    *)
(*                                                                         *)
(* A position is abstracted to refreshedAt, the time of the refresh that   *)
(* produced it.  A flight belongs to one session, a session has one name,  *)
(* and two sessions may have the same name: the snapshot key is the name.  *)
(* What a flight record says besides is left out here, and the aircraft    *)
(* and livery names are the subject of a module of their own.              *)
(***************************************************************************)
EXTENDS History

CONSTANTS
  Flights,       \* upstream flight ids
  Sessions,      \* upstream session ids
  Names,         \* normalized session names, the empty one left out
  SessionOf,     \* [Flights -> Sessions]
  NameOf,        \* [Sessions -> Names \cup {NoName}]
  NoName,        \* the empty normalized name
  Anonymous,     \* the sessions whose id is empty
  NoFlightID,    \* the empty flight id
  Missing,       \* no value: of a key, of a read that failed, of a metric
  MaxHistory,    \* positions a history keeps
  TTL,           \* GameActiveFlightTTL, in ticks
  MaxRunTicks,   \* bound: ticks a run may last; timeouts keep it far below TTL
  MaxTime,       \* bound: the last tick
  Faults         \* what may go wrong

AllFaults == {"readSessions", "fetch", "readSnapshot", "readHistory",
              "storeHistory", "storeSnapshot", "crash"}

ASSUME FlightsJobAssumption ==
  /\ SessionOf \in [Flights -> Sessions]
  /\ NameOf \in [Sessions -> Names \cup {NoName}]
  /\ NoName \notin Names
  /\ Anonymous \subseteq Sessions
  /\ MaxHistory \in Nat \ {0}
  /\ MaxRunTicks \in Nat
  /\ TTL \in Nat /\ TTL > 2 * MaxRunTicks
  /\ MaxTime \in Nat
  /\ Faults \subseteq AllFaults

VARIABLES
  now,           \* minutes since the start
  up,            \* whether the process runs
  runs,          \* the runs going on: what each goroutine has in hand
  snapshots,     \* [Names -> Snapshot \cup {Missing}]
  histories,     \* [Flights -> StoredHistory \cup {Missing}]
  lastSuccess    \* politburo_jobs_last_success_timestamp_seconds

redis == <<snapshots, histories>>
vars == <<now, up, runs, snapshots, histories, lastSuccess>>

Time == 0 .. MaxTime

Snapshot == [at : Time, flights : SUBSET Flights, exp : Nat]

StoredHistory == [trail : Seq(Time), exp : Nat]

\* Where a run is.  "sessions": about to read the active sessions;
\* "refresh": between two sessions; "histories": between two of the flights
\* whose history is written; "store": with one history read and extended;
Run == [pc : {"sessions", "refresh", "histories", "store"},
        at : Time, todo : SUBSET Sessions, name : Names \cup {NoName},
        prior : Snapshot \cup {Missing}, found : SUBSET Flights,
        pending : SUBSET Flights, flight : Flights \cup {Missing},
        loaded : Seq(Time)]

\* A goroutine the tick at t starts.
NewRun(t) == [pc |-> "sessions", at |-> t, todo |-> {}, name |-> NoName,
              prior |-> Missing, found |-> {}, pending |-> {},
              flight |-> Missing, loaded |-> << >>]

\* The run r goes on as r2.
Continue(r, r2) ==
  /\ runs' = (runs \ {r}) \cup {r2}
  /\ UNCHANGED lastSuccess

\* Job.Run returns nil: the scheduler notes the time.
Succeed(r) ==
  /\ runs' = runs \ {r}
  /\ lastSuccess' = now

\* A read of a key that holds value gives that value; one that fails is
\* treated like one that finds nothing, everywhere in this job.
ReadOutcomes(value, fault) ==
  IF fault \in Faults THEN {value, Missing} ELSE {value}

\* A write that fails may or may not have been applied; the job goes on in the
\* same way in both cases.
Applied(fault) == IF fault \in Faults THEN BOOLEAN ELSE {TRUE}

Init ==
  /\ now = 0
  /\ up = TRUE
  /\ runs = {}
  /\ snapshots = [n \in Names |-> Missing]
  /\ histories = [f \in Flights |-> Missing]
  /\ lastSuccess = Missing
-----------------------------------------------------------------------------
(* One minute passes: expired keys are gone and the job is due.            *)

\* Keys whose time to live has passed at t.
Unexpired(keys, t) ==
  [k \in DOMAIN keys |->
     IF keys[k] # Missing /\ keys[k].exp <= t THEN Missing ELSE keys[k]]

\* What ticks would do without SkipIfStillRunning.
FireOverlapping(t) ==
  runs' = IF up THEN runs \cup {NewRun(t)} ELSE runs

\* SkipIfStillRunning: the tick starts a run only when none is going.
Fire(t) ==
  runs' = IF up /\ runs = {} THEN {NewRun(t)} ELSE runs

Tick ==
  /\ now < MaxTime
  /\ \A r \in runs : now < r.at + MaxRunTicks
  /\ now' = now + 1
  /\ snapshots' = Unexpired(snapshots, now + 1)
  /\ histories' = Unexpired(histories, now + 1)
  /\ Fire(now + 1)
  /\ UNCHANGED <<up, lastSuccess>>
-----------------------------------------------------------------------------
(* The steps of a run.                                                     *)

\* Job.Run up to the loop: without cached sessions the run ends, in success.
ReadActiveSessions(r, cached) ==
  /\ r.pc = "sessions"
  /\ IF cached = Missing \/ cached = {}
       THEN Succeed(r)
       ELSE Continue(r, [r EXCEPT !.pc = "refresh", !.at = now, !.todo = cached])
  /\ UNCHANGED <<now, up, redis>>

\* A session has no flights of its own without an id and a name.
Refreshable(s) == s \notin Anonymous /\ NameOf[s] # NoName

\* What Client.GetSessionFlights may return for session s: flights of it, or
\* Missing for an error: no answer, any status but 200, an error code in it.
GetSessionFlights(s) ==
  LET listed == SUBSET {f \in Flights : SessionOf[f] = s}
  IN  IF "fetch" \in Faults THEN listed \cup {Missing} ELSE listed

\* Such a session is passed over, and so is one whose flights cannot be fetched.
PassOver(r, s) ==
  /\ r.pc = "refresh" /\ s \in r.todo
  /\ ~Refreshable(s) \/ \E answer \in GetSessionFlights(s) : answer = Missing
  /\ Continue(r, [r EXCEPT !.todo = @ \ {s}])
  /\ UNCHANGED <<now, up, redis>>

\* What would be recorded if the loop went by the flights that have left.
Departed(prior, found) ==
  IF prior = Missing THEN {} ELSE (prior.flights \ found) \ {NoFlightID}

\* The flights both snapshots have: those cacheHistories writes for.
Continuing(prior, found) ==
  IF prior = Missing THEN {} ELSE (prior.flights \cap found) \ {NoFlightID}

\* What a loop would do that does not leave the session behind.
FetchFlightsAgain(r, s) ==
  /\ r.pc = "refresh" /\ s \in r.todo
  /\ Refreshable(s)
  /\ \E found \in GetSessionFlights(s) \ {Missing},
        prior \in ReadOutcomes(snapshots[NameOf[s]], "readSnapshot") :
       Continue(r, [r EXCEPT !.pc = "histories", !.name = NameOf[s],
                             !.prior = prior, !.found = found,
                             !.pending = Continuing(prior, found)])
  /\ UNCHANGED <<now, up, redis>>

\* refreshSession up to cacheHistories: upstream answers, the existing
\* snapshot is read, and the next one is put together of the flights found.
FetchFlights(r, s) ==
  /\ r.pc = "refresh" /\ s \in r.todo
  /\ Refreshable(s)
  /\ \E found \in GetSessionFlights(s) \ {Missing},
        prior \in ReadOutcomes(snapshots[NameOf[s]], "readSnapshot") :
       Continue(r, [r EXCEPT !.pc = "histories", !.todo = @ \ {s},
                             !.name = NameOf[s], !.prior = prior,
                             !.found = found,
                             !.pending = Continuing(prior, found)])
  /\ UNCHANGED <<now, up, redis>>

\* What a job would do that starts every history anew.
LoadNothing(r, f) ==
  /\ r.pc = "histories" /\ f \in r.pending
  /\ Continue(r, [r EXCEPT !.pc = "store", !.flight = f, !.loaded = << >>])
  /\ UNCHANGED <<now, up, redis>>

\* loadHistory: a history that cannot be read counts as empty.  The fallback
\* to prior.History is left out: UpsertFlights never stores one.
LoadHistory(r, f) ==
  /\ r.pc = "histories" /\ f \in r.pending
  /\ \E stored \in ReadOutcomes(histories[f], "readHistory") :
       LET trail == IF stored = Missing THEN << >> ELSE stored.trail
       IN  Continue(r, [r EXCEPT !.pc = "store", !.flight = f, !.loaded = trail])
  /\ UNCHANGED <<now, up, redis>>

\* What a job would do that records the new position, not the one it replaces.
StoreNewPosition(r) ==
  /\ r.pc = "store"
  /\ histories' = [histories EXCEPT ![r.flight] =
                     [trail |-> NextHistory(r.loaded, r.at, MaxHistory),
                      exp |-> now + TTL]]
  /\ Continue(r, [r EXCEPT !.pc = "histories", !.pending = @ \ {r.flight},
                           !.flight = Missing, !.loaded = << >>])
  /\ UNCHANGED <<now, up, snapshots>>

\* The rest of the loop body of cacheHistories; a failed write is only logged.
StoreHistory(r) ==
  /\ r.pc = "store"
  /\ \E applied \in Applied("storeHistory") :
       histories' =
         IF applied
           THEN [histories EXCEPT ![r.flight] =
                   [trail |-> NextHistory(r.loaded, r.prior.at, MaxHistory),
                    exp |-> now + TTL]]
           ELSE histories
  /\ Continue(r, [r EXCEPT !.pc = "histories", !.pending = @ \ {r.flight},
                           !.flight = Missing, !.loaded = << >>])
  /\ UNCHANGED <<now, up, snapshots>>

\* What a run would leave that stores its snapshot without a time to live.
StoredForGood(r) == [at |-> r.at, flights |-> r.found, exp |-> MaxTime + 1]

\* The snapshot a run leaves.
Stored(r) == [at |-> r.at, flights |-> r.found, exp |-> now + TTL]

\* The end of refreshSession: the snapshot is replaced after the histories.
StoreSnapshot(r) ==
  /\ r.pc = "histories" /\ r.pending = {}
  /\ \E applied \in Applied("storeSnapshot") :
       snapshots' =
         IF applied THEN [snapshots EXCEPT ![r.name] = Stored(r)] ELSE snapshots
  /\ Continue(r, [r EXCEPT !.pc = "refresh", !.name = NoName,
                           !.prior = Missing, !.found = {}])
  /\ UNCHANGED <<now, up, histories>>

\* Job.Run returns nil whatever became of the sessions.
Finish(r) ==
  /\ r.pc = "refresh" /\ r.todo = {}
  /\ Succeed(r)
  /\ UNCHANGED <<now, up, redis>>

\* What a read of the active sessions may give, whatever was cached.
CachedSessions ==
  (SUBSET Sessions) \cup (IF "readSessions" \in Faults THEN {Missing} ELSE {})

RunStep ==
  \E r \in runs :
    \/ \E cached \in CachedSessions : ReadActiveSessions(r, cached)
    \/ \E s \in Sessions : PassOver(r, s) \/ FetchFlights(r, s)
    \/ \E f \in Flights : LoadHistory(r, f)
    \/ StoreHistory(r)
    \/ StoreSnapshot(r)
    \/ Finish(r)
-----------------------------------------------------------------------------
(* The process may die anywhere; what is in Redis stays, metrics do not.   *)

Crash ==
  /\ "crash" \in Faults
  /\ up
  /\ up' = FALSE
  /\ runs' = {}
  /\ lastSuccess' = Missing
  /\ UNCHANGED <<now, redis>>

Restart ==
  /\ ~up
  /\ up' = TRUE
  /\ UNCHANGED <<now, runs, redis, lastSuccess>>

\* The bounded clock has run out.
Terminating ==
  /\ now = MaxTime /\ up /\ runs = {}
  /\ UNCHANGED vars

Next == Tick \/ RunStep \/ Crash \/ Restart \/ Terminating

Spec == Init /\ [][Next]_vars

\* A goroutine that can take a step takes one in the end: the Go scheduler is
\* fair, and every call a run makes has a timeout.
FairSpec == Spec /\ WF_vars(RunStep)
-----------------------------------------------------------------------------
(* Properties.                                                             *)

\* Types; the histories are within their cap.
TypeOK ==
  /\ now \in Time
  /\ up \in BOOLEAN
  /\ runs \subseteq Run
  /\ snapshots \in [Names -> Snapshot \cup {Missing}]
  /\ histories \in [Flights -> StoredHistory \cup {Missing}]
  /\ lastSuccess \in Time \cup {Missing}
  /\ \A f \in Flights : histories[f] # Missing => Len(histories[f].trail) <= MaxHistory

\* The snapshot key of a flight.
Server(f) == NameOf[SessionOf[f]]

Shown(f) ==
  /\ Server(f) # NoName
  /\ snapshots[Server(f)] # Missing
  /\ f \in snapshots[Server(f)].flights

\* Whatever fails and wherever the process dies, a history lists positions
\* from old to new, and none newer than the position now shown: the order in
\* which cacheHistories and the snapshot are written (job.go:96-97) cannot put
\* a position ahead of its time.
HistoryOrdered ==
  \A f \in Flights :
    histories[f] # Missing =>
      /\ Ordered(histories[f].trail)
      /\ Shown(f) => UpTo(histories[f].trail, snapshots[Server(f)].at)

\* A snapshot is never replaced by one of an earlier refresh: a slow run
\* cannot overwrite what a later one stored, because ticks skip while it runs
\* (scheduler.go:37).
SnapshotsNeverGoBack ==
  [][\A n \in Names :
       snapshots[n] # Missing /\ snapshots'[n] # Missing =>
         snapshots'[n].at >= snapshots[n].at]_vars

\* A history that is rewritten keeps all its positions but those the cap
\* pushes out: the read-modify-write of loadHistory and SetJSON loses no
\* update as long as reads succeed.
HistoriesOnlyGrow ==
  [][\A f \in Flights :
       histories[f] # Missing /\ histories'[f] # Missing
         /\ histories'[f] # histories[f] =>
           LET old == histories[f].trail  new == histories'[f].trail
           IN  new # << >> /\ new = NextHistory(old, new[Len(new)], MaxHistory)]_vars

\* A run ends, whatever fails: a session that cannot be refreshed is passed
\* over (job.go:51-53) instead of holding up the others and the later ticks.
RunsEnd == (runs # {}) ~> (runs = {})

\* What docs/conventions.md says of the job metric: the time of the last
\* success shows how fresh the job's data are.
FreshnessVisible ==
  lastSuccess # Missing =>
    \E n \in Names :
      snapshots[n] # Missing /\ snapshots[n].at + MaxRunTicks >= lastSuccess
=============================================================================

---------------------------- MODULE SessionsJob ----------------------------
(***************************************************************************)
(* The sessions refresh job (internal/jobs/sessions/job.go) as the         *)
(* scheduler runs it.  A run fetches the sessions, reads the snapshot of   *)
(* the previous refresh for its history, and then writes two Redis keys    *)
(* one after the other: the snapshot, which expires, and the list of       *)
(* session names, which does not.  The flights endpoints go by the names,  *)
(* the flights job by the snapshot.                                        *)
(*                                                                         *)
(* A snapshot in the history is abstracted to the time of its refresh.     *)
(***************************************************************************)
EXTENDS History

CONSTANTS
  Sessions,      \* upstream sessions
  Names,         \* normalized session names, perhaps with the empty one
  NameOf,        \* [Sessions -> Names]
  Missing,       \* no value: of a key, of a read that failed, of a metric
  MaxHistory,    \* snapshots the history keeps
  TTL,           \* CacheTTL, in ticks
  Interval,      \* ticks between two runs (schedule "0 */5 * * * *")
  MaxRunTicks,   \* bound: ticks a run may last; timeouts keep it short
  MaxTime,       \* bound: the last tick
  Faults         \* what may go wrong

AllFaults == {"fetch", "readSessions", "storeSessions", "storeNames", "crash"}

ASSUME SessionsJobAssumption ==
  /\ NameOf \in [Sessions -> Names]
  /\ MaxHistory \in Nat \ {0}
  /\ Interval \in Nat \ {0}
  /\ MaxRunTicks \in Nat
  /\ TTL \in Nat /\ TTL > 2 * MaxRunTicks
  /\ MaxTime \in Nat
  /\ Faults \subseteq AllFaults

VARIABLES
  now,           \* minutes since the start
  up,            \* whether the process runs
  runs,          \* the runs going on: what each goroutine has in hand
  active,        \* the snapshot under KeyActiveSessions
  names,         \* the names under KeySessionNames
  outcome,       \* of the last run: politburo_jobs_runs_total
  lastSuccess    \* politburo_jobs_last_success_timestamp_seconds

metrics == <<outcome, lastSuccess>>
vars == <<now, up, runs, active, names, outcome, lastSuccess>>

Time == 0 .. MaxTime

\* A refresh: its time, the sessions it found, those it keeps the history of.
Refresh == [at : Time, listed : SUBSET Sessions, past : Seq(Time)]

Snapshot == [at : Time, listed : SUBSET Sessions, past : Seq(Time), exp : Nat]

Run == [pc : {"fetch", "sessions", "names"}, started : Time,
        next : Refresh \cup {Missing}]

NamesOf(listed) == {NameOf[s] : s \in listed}

Init ==
  /\ now = 0
  /\ up = TRUE
  /\ runs = {}
  /\ active = Missing
  /\ names = Missing
  /\ outcome = "none"
  /\ lastSuccess = Missing
-----------------------------------------------------------------------------
(* The scheduler.                                                          *)

NewRun(t) == [pc |-> "fetch", started |-> t, next |-> Missing]

Due(t) == t % Interval = 0

\* SkipIfStillRunning: a tick that is due starts a run only when none is going.
Fire(t) ==
  runs' = IF up /\ Due(t) /\ runs = {} THEN runs \cup {NewRun(t)} ELSE runs

Tick ==
  /\ now < MaxTime
  /\ \A r \in runs : now < r.started + MaxRunTicks
  /\ now' = now + 1
  /\ active' = IF active # Missing /\ active.exp <= now + 1 THEN Missing ELSE active
  /\ Fire(now + 1)
  /\ UNCHANGED <<up, names, metrics>>

Continue(r, r2) ==
  /\ runs' = (runs \ {r}) \cup {r2}
  /\ UNCHANGED metrics

Succeed(r) ==
  /\ runs' = runs \ {r}
  /\ outcome' = "success"
  /\ lastSuccess' = now

Fail(r) ==
  /\ runs' = runs \ {r}
  /\ outcome' = "error"
  /\ UNCHANGED lastSuccess
-----------------------------------------------------------------------------
(* The steps of a run.                                                     *)

\* What a refresh would keep if a full history took nothing more.
PastOfUntilFull(existing) ==
  IF existing = Missing THEN << >>
  ELSE IF Len(existing.past) = MaxHistory THEN existing.past
  ELSE Append(existing.past, existing.at)

\* The history a refresh keeps: that of the existing snapshot, flat, and the
\* existing snapshot itself.
PastOf(existing) ==
  IF existing = Missing THEN << >>
  ELSE NextHistory(existing.past, existing.at, MaxHistory)

\* What Client.GetSessions may return: the sessions upstream lists, or Missing
\* for an error: no answer, any status but 200, an error code in the answer.
GetSessions ==
  (SUBSET Sessions) \cup (IF "fetch" \in Faults THEN {Missing} ELSE {})

FetchSessions(r) ==
  /\ r.pc = "fetch"
  /\ \E listed \in GetSessions \ {Missing},
        existing \in {active} \cup (IF "readSessions" \in Faults THEN {Missing} ELSE {}) :
       Continue(r, [r EXCEPT !.pc = "sessions",
                             !.next = [at |-> now, listed |-> listed,
                                       past |-> PastOf(existing)]])
  /\ UNCHANGED <<now, up, active, names>>

\* What a job would do that returns nil when nothing could be fetched.
FetchFailsQuietly(r) ==
  /\ r.pc = "fetch"
  /\ \E answer \in GetSessions : answer = Missing
  /\ Succeed(r)
  /\ UNCHANGED <<now, up, active, names>>

FetchFails(r) ==
  /\ r.pc = "fetch"
  /\ \E answer \in GetSessions : answer = Missing
  /\ Fail(r)
  /\ UNCHANGED <<now, up, active, names>>

\* The snapshot the run stores.
Stored(next) == [at |-> next.at, listed |-> next.listed, past |-> next.past,
                 exp |-> now + TTL]

StoreSessions(r) ==
  /\ r.pc = "sessions"
  /\ active' = Stored(r.next)
  /\ Continue(r, [r EXCEPT !.pc = "names"])
  /\ UNCHANGED <<now, up, names>>

\* A write that is reported as failed may have been applied all the same.
StoreSessionsFails(r) ==
  /\ r.pc = "sessions"
  /\ "storeSessions" \in Faults
  /\ active' \in {active, Stored(r.next)}
  /\ Fail(r)
  /\ UNCHANGED <<now, up, names>>

StoreNames(r) ==
  /\ r.pc = "names"
  /\ names' = NamesOf(r.next.listed)
  /\ Succeed(r)
  /\ UNCHANGED <<now, up, active>>

\* What a job would do that only logs a failed write of the names.
StoreNamesFailsQuietly(r) ==
  /\ r.pc = "names"
  /\ "storeNames" \in Faults
  /\ names' \in {names, NamesOf(r.next.listed)}
  /\ Succeed(r)
  /\ UNCHANGED <<now, up, active>>

StoreNamesFails(r) ==
  /\ r.pc = "names"
  /\ "storeNames" \in Faults
  /\ names' \in {names, NamesOf(r.next.listed)}
  /\ Fail(r)
  /\ UNCHANGED <<now, up, active>>

RunStep ==
  \E r \in runs :
    \/ FetchSessions(r) \/ FetchFails(r)
    \/ StoreSessions(r) \/ StoreSessionsFails(r)
    \/ StoreNames(r) \/ StoreNamesFails(r)
-----------------------------------------------------------------------------
(* The process may die anywhere; what is in Redis stays, metrics do not.   *)

Crash ==
  /\ "crash" \in Faults
  /\ up
  /\ up' = FALSE
  /\ runs' = {}
  /\ outcome' = "none"
  /\ lastSuccess' = Missing
  /\ UNCHANGED <<now, active, names>>

Restart ==
  /\ ~up
  /\ up' = TRUE
  /\ UNCHANGED <<now, runs, active, names, metrics>>

\* The bounded clock has run out.
Terminating ==
  /\ now = MaxTime /\ up /\ runs = {}
  /\ UNCHANGED vars

Next == Tick \/ RunStep \/ Crash \/ Restart \/ Terminating

Spec == Init /\ [][Next]_vars
-----------------------------------------------------------------------------
(* Properties.                                                             *)

\* Types; the history is within its cap.
TypeOK ==
  /\ now \in Time
  /\ up \in BOOLEAN
  /\ runs \subseteq Run
  /\ active \in Snapshot \cup {Missing}
  /\ names \in (SUBSET Names) \cup {Missing}
  /\ outcome \in {"none", "success", "error"}
  /\ lastSuccess \in Time \cup {Missing}
  /\ active # Missing => Len(active.past) <= MaxHistory

\* Whatever fails, the snapshots of the history are in the order of their
\* refreshes, each once, and all of them before the current one.
PastInOrder ==
  active # Missing =>
    /\ StrictlyOrdered(active.past)
    /\ \A i \in 1 .. Len(active.past) : active.past[i] < active.at

\* After a run that counts as a success, and until the next one writes, both
\* keys tell of the same sessions: whoever goes by the names (knownServer) and
\* whoever goes by the snapshot agree.  The two writes are not atomic; a run
\* that fails or dies between them leaves the old names but no success.
SuccessStoresBoth ==
  outcome = "success" /\ active # Missing /\ (\A r \in runs : r.pc # "names") =>
    names = NamesOf(active.listed)

\* What docs/conventions.md says of the job metric holds for this job: the
\* snapshot is as fresh as the last success, unless it has expired since.
SuccessIsFresh ==
  lastSuccess # Missing /\ active # Missing => active.at + MaxRunTicks >= lastSuccess

\* A snapshot that is replaced while it is there enters the history of the one
\* that replaces it: no refresh is lost, though the history is read long before
\* it is written (job.go:38, 69), and the oldest only makes room for the newest.
\* Only a run that failed to read the snapshot begins the history anew.
ReplacedIsKept ==
  [][active # Missing /\ active' # Missing /\ active' # active =>
       active'.past \in {NextHistory(active.past, active.at, MaxHistory), << >>}]_vars
=============================================================================

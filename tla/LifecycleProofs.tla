-------------------------- MODULE LifecycleProofs --------------------------
(***************************************************************************)
(* Proofs about Lifecycle, for any jobs, environments and number of        *)
(* requests.  That nothing outlives the stores it uses is not inductive:   *)
(* it takes, for each place the main goroutine can be at, which stores are *)
(* open by then and which work there can still be.                         *)
(***************************************************************************)
EXTENDS Lifecycle, TLAPS

\* Before Serve; and from each step of the shutdown on.
Starting == {"load", "database", "redis", "bootstrap", "listen", "schedule"}
Waited == {"closeRedis", "closeDatabase"}
Stopped == {"wait"} \cup Waited
Emptied == {"stop"} \cup Stopped

Idle == running = {} /\ cron = "off"

\* Which stores are open, by where main is.
StoresOpen ==
  /\ main \in {"load", "database", "exited"} \/ db = "open"
  /\ main \in {"load", "database", "redis", "closeDatabase", "exited"} \/ redis = "open"
  /\ main = "closeDatabase" => redis = "closed"

\* Which work there is, by where main is.
WorkLeft ==
  /\ main \in Starting \cup Emptied => requests = 0
  /\ main \in Starting => Idle
  /\ main \in Stopped => cron = "off"
  /\ main \in Waited => running = {}

IInv == TypeOK /\ StoresOpen /\ WorkLeft /\ CleanExit

LEMMA InitIInv == Init => IInv
<1> SUFFICES ASSUME Init
             PROVE  IInv
  OBVIOUS
<1>1. listening \in BOOLEAN /\ cancelled \in BOOLEAN /\ signalled \in BOOLEAN
  BY DEF Init
<1>2. requests \in 0 .. MaxRequests
  BY LifecycleAssumption DEF Init
<1>3. TypeOK
  BY <1>1, <1>2 DEF Init, TypeOK
<1>4. StoresOpen /\ WorkLeft /\ CleanExit
  BY DEF Init, StoresOpen, WorkLeft, CleanExit, Starting, Waited, Stopped, Emptied, Idle
<1>5. QED
  BY <1>3, <1>4 DEF IInv

\* An exit on an error, whatever has been closed by then.
LEMMA ExitKeeps ==
  ASSUME IInv, Exit(1), UNCHANGED <<work, jobs, signalled>>,
         db' \in {db, "closed"}, redis' \in {redis, "closed"}
  PROVE  IInv'
<1>1. main' = "exited" /\ code' = 1
  BY DEF Exit
<1>2. listening' \in BOOLEAN /\ cancelled' \in BOOLEAN /\ signalled' \in BOOLEAN
  BY DEF Exit, jobs, IInv, TypeOK
<1>3. TypeOK'
  BY <1>1, <1>2 DEF IInv, TypeOK, work, jobs
<1>4. StoresOpen' /\ WorkLeft' /\ CleanExit'
  BY <1>1 DEF StoresOpen, WorkLeft, CleanExit, Starting, Waited, Stopped, Emptied
<1>5. QED
  BY <1>3, <1>4 DEF IInv

\* The steps up to the first request and run.
LEMMA StartingKeeps ==
  ASSUME IInv,
         \/ LoadConfig \/ LoadConfigFails \/ OpenDatabase \/ OpenDatabaseFails
         \/ OpenRedis \/ OpenRedisFails \/ (\E j \in Jobs : Register(j))
         \/ Bootstrap \/ BootstrapFails \/ Listen \/ ListenFails \/ StartJobs
  PROVE  IInv'
<1> USE DEF Starting, Waited, Stopped, Emptied, Idle, stores, work, jobs
<1>1. CASE LoadConfig
  BY <1>1 DEF LoadConfig, IInv, TypeOK, StoresOpen, WorkLeft, CleanExit
<1>2. CASE LoadConfigFails
  BY <1>2, ExitKeeps DEF LoadConfigFails, stores, jobs, work
<1>3. CASE OpenDatabase
  BY <1>3 DEF OpenDatabase, IInv, TypeOK, StoresOpen, WorkLeft, CleanExit
<1>4. CASE OpenDatabaseFails
  BY <1>4, ExitKeeps DEF OpenDatabaseFails, stores, jobs, work
<1>5. CASE OpenRedis
  BY <1>5 DEF OpenRedis, IInv, TypeOK, StoresOpen, WorkLeft, CleanExit
<1>6. CASE OpenRedisFails
  BY <1>6, ExitKeeps DEF OpenRedisFails, stores, jobs, work
<1>7. ASSUME NEW j \in Jobs, Register(j)
      PROVE  IInv'
  BY <1>7 DEF Register, IInv, TypeOK, StoresOpen, WorkLeft, CleanExit
<1>8. CASE Bootstrap
  BY <1>8 DEF Bootstrap, IInv, TypeOK, StoresOpen, WorkLeft, CleanExit
<1>9. CASE BootstrapFails
  BY <1>9, ExitKeeps DEF BootstrapFails, stores, jobs, work
<1>10. CASE Listen
  BY <1>10 DEF Listen, IInv, TypeOK, StoresOpen, WorkLeft, CleanExit
<1>11. CASE ListenFails
  BY <1>11, ExitKeeps DEF ListenFails, stores, jobs, work
<1>12. CASE StartJobs
  BY <1>12 DEF StartJobs, IInv, TypeOK, StoresOpen, WorkLeft, CleanExit
<1>13. QED
  BY <1>1, <1>2, <1>3, <1>4, <1>5, <1>6, <1>7, <1>8, <1>9, <1>10, <1>11, <1>12

\* The steps from a signal, or the end of Serve, to the exit.
LEMMA StoppingKeeps ==
  ASSUME IInv,
         \/ Signal \/ ServeFails \/ Shutdown \/ Drained \/ DrainTimesOut
         \/ StopScheduler \/ SchedulerStopped \/ CloseRedis \/ CloseDatabase
  PROVE  IInv'
<1> USE DEF Starting, Waited, Stopped, Emptied, Idle, stores, work, jobs
<1>1. CASE Signal
  BY <1>1 DEF Signal, IInv, TypeOK, StoresOpen, WorkLeft, CleanExit
<1>2. CASE ServeFails
  BY <1>2, ExitKeeps DEF ServeFails, stores, jobs, work
<1>3. CASE Shutdown
  BY <1>3 DEF Shutdown, IInv, TypeOK, StoresOpen, WorkLeft, CleanExit
<1>4. CASE Drained
  BY <1>4 DEF Drained, IInv, TypeOK, StoresOpen, WorkLeft, CleanExit
<1>5. CASE DrainTimesOut
  BY <1>5, ExitKeeps DEF DrainTimesOut, stores, jobs, work
<1>6. CASE StopScheduler
  BY <1>6 DEF StopScheduler, IInv, TypeOK, StoresOpen, WorkLeft, CleanExit
<1>7. CASE SchedulerStopped
  BY <1>7 DEF SchedulerStopped, IInv, TypeOK, StoresOpen, WorkLeft, CleanExit
<1>8. CASE CloseRedis
  BY <1>8 DEF CloseRedis, IInv, TypeOK, StoresOpen, WorkLeft, CleanExit
<1>9. CASE CloseDatabase
  BY <1>9 DEF CloseDatabase, Exit, IInv, TypeOK, StoresOpen, WorkLeft, CleanExit
<1>10. QED
  BY <1>1, <1>2, <1>3, <1>4, <1>5, <1>6, <1>7, <1>8, <1>9

\* The requests and the runs.
LEMMA WorkKeeps ==
  ASSUME IInv, Accept \/ Respond \/ (\E j \in Jobs : StartRun(j) \/ EndRun(j))
  PROVE  IInv'
<1> USE LifecycleAssumption
    DEF Starting, Waited, Stopped, Emptied, Idle, stores, jobs
<1>1. CASE Accept
  BY <1>1 DEF Accept, IInv, TypeOK, StoresOpen, WorkLeft, CleanExit
<1>2. CASE Respond
  BY <1>2 DEF Respond, IInv, TypeOK, StoresOpen, WorkLeft, CleanExit
<1>3. ASSUME NEW j \in Jobs, StartRun(j)
      PROVE  IInv'
  BY <1>3 DEF StartRun, IInv, TypeOK, StoresOpen, WorkLeft, CleanExit
<1>4. ASSUME NEW j \in Jobs, EndRun(j)
      PROVE  IInv'
  BY <1>4 DEF EndRun, IInv, TypeOK, StoresOpen, WorkLeft, CleanExit
<1>5. QED
  BY <1>1, <1>2, <1>3, <1>4

LEMMA NextIInv == IInv /\ [Next]_vars => IInv'
<1> SUFFICES ASSUME IInv, [Next]_vars
             PROVE  IInv'
  OBVIOUS
<1>1. CASE Main \/ ServeFails \/ Signal
  BY <1>1, StartingKeeps, StoppingKeeps DEF Main
<1>2. CASE Accept \/ Respond \/ \E j \in Jobs : StartRun(j) \/ EndRun(j)
  BY <1>2, WorkKeeps
<1>3. CASE Exited \/ UNCHANGED vars
  BY <1>3 DEF Exited, vars, stores, work, jobs, IInv, TypeOK, StoresOpen, WorkLeft,
              CleanExit, Starting, Waited, Stopped, Emptied, Idle
<1>4. QED
  BY <1>1, <1>2, <1>3 DEF Next

\* Which stores are open and which work is left, always as main's place says
\* (main.go, app.New, App.Close, Server.Run).
THEOREM Invariance == Spec => []IInv
BY InitIInv, NextIInv, PTL DEF Spec

\* The variables keep their types, for any jobs and number of requests.
THEOREM TypeCorrect == Spec => []TypeOK
BY Invariance, PTL DEF IInv

LEMMA WorkHasStores == IInv => StoresOutliveWork
BY DEF IInv, TypeOK, StoresOpen, WorkLeft, StoresOutliveWork, Starting, Waited, Stopped,
       Emptied, Idle

\* No request, run or cron goroutine has a store closed under it, however many
\* there are and whatever fails (app.go:91-99).
THEOREM NothingLosesItsStores == Spec => []StoresOutliveWork
BY Invariance, WorkHasStores, PTL

\* An exit with code 0 has waited for all requests and runs and closed both
\* stores (main.go:25-32).
THEOREM ExitIsClean == Spec => []CleanExit
BY Invariance, PTL DEF IInv
-----------------------------------------------------------------------------
\* What moving a secret to a file does not change, one variable at a time.
LEMMA MovedSecretReads ==
  ASSUME NEW e, IsEnvironment(e), NEW k \in Secrets, NEW newline,
         SetByValue(e[k]), NEW i \in Secrets, NEW fallback
  PROVE  secret(Moved(e, k, newline)[i], fallback) = secret(e[i], fallback)
<1> DEFINE file == [value |-> "", path |-> "mounted", text |-> e[k].value,
                    newline |-> newline]
<1>1. Moved(e, k, newline)[i] = IF i = k THEN file ELSE e[i]
  BY DEF Moved, IsEnvironment
<1>2. secret(file, fallback) = e[k].value
  BY DEF secret
<1>3. secret(e[k], fallback) = e[k].value
  BY DEF secret, env, SetByValue
<1>4. QED
  BY <1>1, <1>2, <1>3

LEMMA MovedSettingStays ==
  ASSUME NEW e, IsEnvironment(e), NEW k \in Secrets, NEW newline,
         NEW i \in Settings
  PROVE  Moved(e, k, newline)[i] = e[i]
BY DEF Moved, IsEnvironment, Secrets, Settings

LEMMA MovedLoads ==
  ASSUME NEW e, IsEnvironment(e), NEW k \in Secrets, NEW newline,
         SetByValue(e[k])
  PROVE  Load(Moved(e, k, newline)) = Load(e)
<1> DEFINE m == Moved(e, k, newline)
           Fallback(i) == IF i = "PG_PASSWORD" THEN "iepass" ELSE ""
<1>1. ASSUME NEW i \in Secrets
      PROVE  secret(m[i], Fallback(i)) = secret(e[i], Fallback(i))
  <2>1. ASSUME NEW fallback
        PROVE  secret(m[i], fallback) = secret(e[i], fallback)
    BY MovedSecretReads
  <2> HIDE DEF m, Fallback
  <2>2. QED
    BY <2>1
<1>2. /\ m.APP_ENV = e.APP_ENV /\ m.PORT = e.PORT /\ m.REDIS_PORT = e.REDIS_PORT
      /\ m.REDIS_DB = e.REDIS_DB /\ m.JOBS_ENABLED = e.JOBS_ENABLED
      /\ m["UI_BASE_URL"] = e["UI_BASE_URL"]
      /\ m["IF_API_BASE_URL"] = e["IF_API_BASE_URL"]
  BY MovedSettingStays DEF Settings
<1>3. \A i \in {"UI_BASE_URL", "IF_API_BASE_URL", "PORT", "REDIS_PORT"} : m[i] = e[i]
  BY <1>2
<1> HIDE DEF m
<1>4. Load(m) = Load(e)
  BY <1>1, <1>2, <1>3, Zenon DEF Load
<1>5. QED
  BY <1>4 DEF m

\* Moving a secret to a file changes nothing that Load makes of an environment,
\* however its other variables are set (config.go:201-218).
THEOREM SecretsMove == Spec => []SecretsMayMove
<1>1. environment \in Environments => SecretsMayMove
  BY MovedLoads, LifecycleAssumption DEF SecretsMayMove, settings
<1>2. Init => environment \in Environments
  BY DEF Init
<1>3. environment \in Environments /\ [Next]_vars => (environment \in Environments)'
  <2> USE DEF vars
  <2>1. ASSUME Next
        PROVE  UNCHANGED environment
    BY <2>1
    DEF Next, Main, LoadConfig, LoadConfigFails, OpenDatabase, OpenDatabaseFails,
        OpenRedis, OpenRedisFails, Register, Bootstrap, BootstrapFails, Listen,
        ListenFails, StartJobs, Shutdown, Drained, DrainTimesOut, StopScheduler,
        SchedulerStopped, CloseRedis, CloseDatabase, ServeFails, Signal, Accept,
        Respond, StartRun, EndRun, Exited
  <2>2. QED
    BY <2>1
<1>4. QED
  BY <1>1, <1>2, <1>3, PTL DEF Spec
=============================================================================

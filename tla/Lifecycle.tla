----------------------------- MODULE Lifecycle -----------------------------
(***************************************************************************)
(* The process from start to exit: cmd/politburo/main.go, app.New and      *)
(* app.Close, Server.Run and the scheduler it starts and stops.  The       *)
(* environment is read first (Configuration), and decides whether jobs run.*)
(* Stores are opened before and closed after everything that uses them:    *)
(* requests under way, and job runs that the cron goroutine starts.        *)
(*                                                                         *)
(* A request ends when it likes: its handler waits for Redis, PostgreSQL   *)
(* and the client.  A job run is a goroutine that ends by itself, and soon *)
(* when its context is cancelled.                                          *)
(***************************************************************************)
EXTENDS Configuration

CONSTANTS
  Jobs,          \* the registered jobs
  MaxRequests,   \* bound: requests under way at once
  Environments,  \* those the process may be started in
  Faults         \* what may go wrong

ASSUME LifecycleAssumption ==
  /\ MaxRequests \in Nat
  /\ \A e \in Environments : IsEnvironment(e)
  /\ Faults \subseteq {"database", "redis", "bootstrap", "listen", "serve", "drain"}

VARIABLES
  environment,  \* what the process was started in
  main,       \* where the main goroutine is
  db,         \* the PostgreSQL pool
  redis,      \* the Redis client
  listening,  \* whether connections are accepted
  requests,   \* how many requests are under way
  registered, \* the jobs that cron knows
  cron,       \* the cron goroutine
  cancelled,  \* the jobs' context
  running,    \* the jobs of which a run is under way
  signalled,  \* SIGINT or SIGTERM was caught
  code        \* the exit code

stores == <<db, redis>>
work == <<requests, running>>
jobs == <<registered, cron, cancelled>>
vars == <<environment, main, stores, listening, work, jobs, signalled, code>>

settings == Load(environment)

Init ==
  /\ environment \in Environments
  /\ main = "load"
  /\ db = "none" /\ redis = "none"
  /\ listening = FALSE
  /\ requests = 0
  /\ registered = {} /\ cron = "off" /\ cancelled = FALSE
  /\ running = {}
  /\ signalled = FALSE
  /\ code = 0

\* What a main would do that panics on an error: the runtime exits with 2.
ExitByPanic(c) ==
  /\ main' = "exited"
  /\ code' = 2 * c
  /\ listening' = FALSE

\* os.Exit: nothing deferred is run, and nothing that is under way goes on.
Exit(c) ==
  /\ main' = "exited"
  /\ code' = c
  /\ listening' = FALSE
-----------------------------------------------------------------------------
(* config.Load and app.New.                                                *)

LoadConfig ==
  /\ main = "load" /\ settings # Invalid
  /\ main' = "database"
  /\ UNCHANGED <<environment, stores, listening, work, jobs, signalled, code>>

LoadConfigFails ==
  /\ main = "load" /\ settings = Invalid
  /\ Exit(1)
  /\ UNCHANGED <<environment, stores, work, jobs, signalled>>

\* Opened and pinged, both times: what does not answer is closed again.
OpenDatabase ==
  /\ main = "database"
  /\ main' = "redis"
  /\ db' = "open"
  /\ UNCHANGED <<environment, redis, listening, work, jobs, signalled, code>>

OpenDatabaseFails ==
  /\ main = "database" /\ "database" \in Faults
  /\ Exit(1)
  /\ UNCHANGED <<environment, stores, work, jobs, signalled>>

OpenRedis ==
  /\ main = "redis"
  /\ main' = "bootstrap"
  /\ redis' = "open"
  /\ UNCHANGED <<environment, db, listening, work, jobs, signalled, code>>

OpenRedisFails ==
  /\ main = "redis" /\ "redis" \in Faults
  /\ db' = "closed"
  /\ Exit(1)
  /\ UNCHANGED <<environment, redis, work, jobs, signalled>>

\* jobs.Register, one job after the other, each under a name of its own.
Register(j) ==
  /\ main = "bootstrap" /\ j \notin registered
  /\ registered' = registered \cup {j}
  /\ UNCHANGED <<environment, main, stores, listening, work, cron, cancelled, signalled, code>>

\* The renderer and the upstream client are made before the jobs are registered.
Bootstrap ==
  /\ main = "bootstrap" /\ registered = Jobs
  /\ main' = "listen"
  /\ UNCHANGED <<environment, stores, listening, work, jobs, signalled, code>>

BootstrapFails ==
  /\ main = "bootstrap" /\ "bootstrap" \in Faults
  /\ db' = "closed" /\ redis' = "closed"
  /\ Exit(1)
  /\ UNCHANGED <<environment, work, jobs, signalled>>
-----------------------------------------------------------------------------
(* Server.Run.                                                             *)

\* A signal is caught from NotifyContext on; before it, it kills the process.
Signal ==
  /\ main \in {"listen", "schedule", "serve"}
  /\ ~signalled
  /\ signalled' = TRUE
  /\ UNCHANGED <<environment, main, stores, listening, work, jobs, code>>

Listen ==
  /\ main = "listen"
  /\ main' = "schedule"
  /\ listening' = TRUE
  /\ UNCHANGED <<environment, stores, work, jobs, signalled, code>>

\* Run returns an error, and main exits before it has closed anything.
ListenFails ==
  /\ main = "listen" /\ "listen" \in Faults
  /\ Exit(1)
  /\ UNCHANGED <<environment, stores, work, jobs, signalled>>

StartJobs ==
  /\ main = "schedule"
  /\ main' = "serve"
  /\ cron' = IF settings.jobs THEN "on" ELSE cron
  /\ UNCHANGED <<environment, stores, listening, work, registered, cancelled, signalled, code>>

\* Serve returns in its goroutine, and Run with it.
ServeFails ==
  /\ main = "serve" /\ "serve" \in Faults
  /\ Exit(1)
  /\ UNCHANGED <<environment, stores, work, jobs, signalled>>

\* Shutdown closes the listener and then waits for the requests.
Shutdown ==
  /\ main = "serve" /\ signalled
  /\ main' = "drain"
  /\ listening' = FALSE
  /\ UNCHANGED <<environment, stores, work, jobs, signalled, code>>

\* What a shutdown would do that waits for nobody.
DrainedAtOnce ==
  /\ main = "drain"
  /\ main' = "stop"
  /\ UNCHANGED <<environment, stores, listening, work, jobs, signalled, code>>

\* Run returns nil, main returns and what it deferred is run: app.Close.
Drained ==
  /\ main = "drain" /\ requests = 0
  /\ main' = "stop"
  /\ UNCHANGED <<environment, stores, listening, work, jobs, signalled, code>>

\* HTTP_SHUTDOWN_TIMEOUT passes: Shutdown returns an error and so does Run.
DrainTimesOut ==
  /\ main = "drain" /\ requests > 0 /\ "drain" \in Faults
  /\ Exit(1)
  /\ UNCHANGED <<environment, stores, work, jobs, signalled>>
-----------------------------------------------------------------------------
(* app.Close.                                                              *)

\* What Stop would do that leaves the runs their context.
StopCronOnly ==
  /\ main = "stop"
  /\ main' = "wait"
  /\ cron' = "off"
  /\ UNCHANGED <<environment, stores, listening, work, registered, cancelled, signalled, code>>

\* Scheduler.Stop: cancels the jobs' context, stops cron and waits.
StopScheduler ==
  /\ main = "stop"
  /\ main' = "wait"
  /\ cancelled' = TRUE
  /\ cron' = "off"
  /\ UNCHANGED <<environment, stores, listening, work, registered, signalled, code>>

\* What Stop would do that does not wait for the runs.
SchedulerStoppedAtOnce ==
  /\ main = "wait"
  /\ main' = "closeRedis"
  /\ UNCHANGED <<environment, stores, listening, work, jobs, signalled, code>>

SchedulerStopped ==
  /\ main = "wait" /\ running = {}
  /\ main' = "closeRedis"
  /\ UNCHANGED <<environment, stores, listening, work, jobs, signalled, code>>

CloseRedis ==
  /\ main = "closeRedis"
  /\ main' = "closeDatabase"
  /\ redis' = "closed"
  /\ UNCHANGED <<environment, db, listening, work, jobs, signalled, code>>

CloseDatabase ==
  /\ main = "closeDatabase"
  /\ db' = "closed"
  /\ Exit(0)
  /\ UNCHANGED <<environment, redis, work, jobs, signalled>>
-----------------------------------------------------------------------------
(* The other goroutines, for as long as the process lives.                 *)

Accept ==
  /\ listening /\ main = "serve" /\ requests < MaxRequests
  /\ requests' = requests + 1
  /\ UNCHANGED <<environment, main, stores, listening, jobs, running, signalled, code>>

Respond ==
  /\ main # "exited" /\ requests > 0
  /\ requests' = requests - 1
  /\ UNCHANGED <<environment, main, stores, listening, jobs, running, signalled, code>>

\* A tick of the cron goroutine, which goes on while requests are drained.
StartRun(j) ==
  /\ main # "exited" /\ cron = "on" /\ j \in registered \ running
  /\ running' = running \cup {j}
  /\ UNCHANGED <<environment, main, stores, listening, jobs, requests, signalled, code>>

EndRun(j) ==
  /\ main # "exited" /\ j \in running
  /\ running' = running \ {j}
  /\ UNCHANGED <<environment, main, stores, listening, jobs, requests, signalled, code>>

Exited ==
  /\ main = "exited"
  /\ UNCHANGED vars

Main ==
  \/ LoadConfig \/ LoadConfigFails
  \/ OpenDatabase \/ OpenDatabaseFails \/ OpenRedis \/ OpenRedisFails
  \/ (\E j \in Jobs : Register(j)) \/ Bootstrap \/ BootstrapFails
  \/ Listen \/ ListenFails \/ StartJobs
  \/ Shutdown \/ Drained \/ DrainTimesOut
  \/ StopScheduler \/ SchedulerStopped \/ CloseRedis \/ CloseDatabase

Next ==
  \/ Main
  \/ ServeFails
  \/ Signal
  \/ Accept \/ Respond
  \/ \E j \in Jobs : StartRun(j) \/ EndRun(j)
  \/ Exited

Spec == Init /\ [][Next]_vars

\* The main goroutine goes on when it can, though Serve need never fail.  A run
\* whose context has been cancelled ends: the calls it makes take that context
\* or time out.  Nothing is asked of the requests, nor of the runs before that.
FairSpec ==
  /\ Spec
  /\ WF_vars(Main)
  /\ \A j \in Jobs : WF_vars(cancelled /\ EndRun(j))
-----------------------------------------------------------------------------
(* Properties.                                                             *)

\* Types.
TypeOK ==
  /\ main \in {"load", "database", "redis", "bootstrap", "listen", "schedule",
               "serve", "drain", "stop", "wait", "closeRedis", "closeDatabase", "exited"}
  /\ db \in {"none", "open", "closed"} /\ redis \in {"none", "open", "closed"}
  /\ listening \in BOOLEAN /\ cancelled \in BOOLEAN /\ signalled \in BOOLEAN
  /\ requests \in 0 .. MaxRequests
  /\ cron \in {"off", "on"}
  /\ registered \subseteq Jobs /\ running \subseteq registered
  /\ code \in {0, 1}

\* Nothing that lives uses a store that is not open: a run that cron starts
\* while the last requests are drained is waited for before Redis is closed
\* (app.go:93-97), and no request outlives them.
StoresOutliveWork ==
  main # "exited" /\ (requests > 0 \/ running # {} \/ cron = "on") =>
    db = "open" /\ redis = "open"

\* An exit with code 0 leaves nothing behind: no request and no run cut off,
\* both stores closed.
CleanExit ==
  main = "exited" /\ code = 0 =>
    requests = 0 /\ running = {} /\ db = "closed" /\ redis = "closed"

\* A signal ends the process, even if a request never ends and however many
\* runs are under way: the first is given up after the timeout, the second are
\* cancelled.
SignalEndsIt == signalled ~> main = "exited"

\* A secret that is set may be moved to a file, whether or not an editor ends
\* its last line, and nothing comes out different: no setting, and no start
\* that fails where the other did not (docs/development/containers.md:31-39).
SecretsMayMove ==
  main = "load" =>
    \A k \in Secrets, newline \in BOOLEAN :
      SetByValue(environment[k]) => Load(Moved(environment, k, newline)) = settings

\* Where jobs are asked for, in any of the words for it, they come to be run
\* with a key, all of them, or the process gives up: it never goes on serving
\* data that nobody refreshes (config.go:153-155, server.go:54-56).
JobsRunWhenAsked ==
  environment.JOBS_ENABLED \in True ~>
    \/ cron = "on" /\ registered = Jobs /\ settings.key # ""
    \/ main = "exited"
=============================================================================

---------------------------- MODULE FlightNames ----------------------------
(***************************************************************************)
(* How a flight comes by its aircraft and livery names: the liveries job   *)
(* (internal/jobs/liveries/job.go) stores what each livery id stands for,  *)
(* one Redis key after the other, and a flights refresh looks the ids up   *)
(* as it maps upstream flights (lookupLivery, MapFlight, UpsertFlights),   *)
(* once per run and id, and falls back on the names the previous snapshot  *)
(* had.  The two jobs run at the same time, and keys expire at any time.   *)
(*                                                                         *)
(* A livery has one name, which is represented by its id.  One server is   *)
(* enough.  A flight that upstream lists twice counts as its last entry.   *)
(***************************************************************************)
EXTENDS Naturals

CONSTANTS
  Flights,    \* flight ids
  Liveries,   \* livery ids
  LiveriesOf, \* [Flights -> SUBSET (Liveries \cup {NoLivery})]: those a flight may have
  NoLivery,   \* no livery, no name
  Gone,       \* no such flight
  NamesFaults \* what may go wrong

ASSUME FlightNamesAssumption ==
  /\ NoLivery \notin Liveries
  /\ LiveriesOf \in [Flights -> SUBSET (Liveries \cup {NoLivery})]
  /\ NamesFaults \subseteq {"storeLivery", "readLivery", "readSnapshot", "storeSnapshot", "expire"}

VARIABLES
  upstream,   \* [Flights -> Liveries \cup {NoLivery, Gone}]
  catalog,    \* the livery ids with a key in Redis
  refreshing, \* the liveries a run of the liveries job has yet to store
  snapshot,   \* [Flights -> Named \cup {Gone}]: the snapshot in Redis
  run         \* the run of the flights job

namesVars == <<upstream, catalog, refreshing, snapshot, run>>

Named == [livery : Liveries \cup {NoLivery}, name : Liveries \cup {NoLivery}]

Snapshots == [Flights -> Named \cup {Gone}]

Empty == [f \in Flights |-> Gone]

\* memo: what this run found of each livery.
Run == [pc : {"idle", "map"}, found : [Flights -> Liveries \cup {NoLivery, Gone}],
        existing : Snapshots, todo : SUBSET Flights, mapped : Snapshots,
        memo : [Liveries -> {"unread", "hit", "miss"}]]

Idle == [pc |-> "idle", found |-> Empty, existing |-> Empty, todo |-> {},
         mapped |-> Empty, memo |-> [l \in Liveries |-> "unread"]]

NamesInit ==
  /\ upstream = Empty
  /\ catalog = {}
  /\ refreshing = {}
  /\ snapshot = Empty
  /\ run = Idle
-----------------------------------------------------------------------------
(* Upstream.                                                               *)

\* A flight is started, or ended, or changes its livery.
Fly(f, livery) ==
  /\ upstream[f] # livery
  /\ livery \in LiveriesOf[f] \cup {Gone}
  /\ upstream' = [upstream EXCEPT ![f] = livery]
  /\ UNCHANGED <<catalog, refreshing, snapshot, run>>
-----------------------------------------------------------------------------
(* The liveries job.                                                       *)

\* What Client.GetAircraftLiveries may return: the liveries upstream lists.  An
\* error is left out with the run that it ends.
GetAircraftLiveries == (SUBSET Liveries) \ {{}}

RefreshLiveries ==
  /\ refreshing = {}
  /\ refreshing' \in GetAircraftLiveries
  /\ UNCHANGED <<upstream, catalog, snapshot, run>>

StoreLivery(l) ==
  /\ l \in refreshing
  /\ catalog' = catalog \cup {l}
  /\ refreshing' = refreshing \ {l}
  /\ UNCHANGED <<upstream, snapshot, run>>

\* The first failure ends the run; those stored before it stay.
StoreLiveryFails(l) ==
  /\ "storeLivery" \in NamesFaults
  /\ l \in refreshing
  /\ catalog' \in {catalog, catalog \cup {l}}
  /\ refreshing' = {}
  /\ UNCHANGED <<upstream, snapshot, run>>

Expire(l) ==
  /\ "expire" \in NamesFaults
  /\ l \in catalog
  /\ catalog' = catalog \ {l}
  /\ UNCHANGED <<upstream, refreshing, snapshot, run>>
-----------------------------------------------------------------------------
(* The flights job, for one server.                                        *)

\* Upstream has answered, and the existing snapshot has been read.
Start ==
  /\ run.pc = "idle"
  /\ \E existing \in {snapshot} \cup (IF "readSnapshot" \in NamesFaults THEN {Empty} ELSE {}) :
       run' = [run EXCEPT !.pc = "map", !.found = upstream, !.existing = existing,
                           !.todo = {f \in Flights : upstream[f] # Gone}]
  /\ UNCHANGED <<upstream, catalog, refreshing, snapshot>>

\* lookupLivery: what the run knows of livery l, reading it unless it has.
Known(l) ==
  IF l = NoLivery THEN {"miss"}
  ELSE IF run.memo[l] # "unread" THEN {run.memo[l]}
  ELSE {IF l \in catalog THEN "hit" ELSE "miss"}
         \cup (IF "readLivery" \in NamesFaults THEN {"miss"} ELSE {})

\* What a flight would be named if the old name came first.
OldNameFirst(f, known) ==
  IF run.existing[f] # Gone /\ run.existing[f].name # NoLivery THEN run.existing[f].name
  ELSE IF known = "hit" THEN run.found[f] ELSE NoLivery

\* What a flight would be named if all shared the livery that was read first.
SharedLivery(f, known) ==
  IF known = "hit"
    THEN CHOOSE l \in Liveries : run.memo[l] = "hit" \/ l = run.found[f]
    ELSE IF run.existing[f] # Gone THEN run.existing[f].name ELSE NoLivery

\* What a flight would be named if a new one without a livery had no name field.
NoNameYet(f, known) ==
  IF known = "hit" THEN run.found[f]
  ELSE IF run.existing[f] # Gone THEN run.existing[f].name ELSE Gone

\* What a flight would be named if a miss cleared the name.
NoFallback(f, known) == IF known = "hit" THEN run.found[f] ELSE NoLivery

\* MapFlight: the livery's name, or else the one the flight had.
NameFor(f, known) ==
  IF known = "hit" THEN run.found[f]
  ELSE IF run.existing[f] # Gone THEN run.existing[f].name ELSE NoLivery

MapOne(f) ==
  /\ f \in run.todo
  /\ \E known \in Known(run.found[f]) :
       run' = [run EXCEPT
         !.todo = @ \ {f},
         !.mapped[f] = [livery |-> run.found[f], name |-> NameFor(f, known)],
         !.memo = IF run.found[f] = NoLivery THEN @ ELSE [@ EXCEPT ![run.found[f]] = known]]
  /\ UNCHANGED <<upstream, catalog, refreshing, snapshot>>

\* The snapshot is replaced and the run is over; what it remembers of the
\* liveries is gone with it.
Store ==
  /\ run.pc = "map" /\ run.todo = {}
  /\ snapshot' \in {run.mapped} \cup (IF "storeSnapshot" \in NamesFaults THEN {snapshot} ELSE {})
  /\ run' = Idle
  /\ UNCHANGED <<upstream, catalog, refreshing>>

LiveriesStep == RefreshLiveries \/ \E l \in Liveries : StoreLivery(l) \/ StoreLiveryFails(l)

FlightsStep == Start \/ (\E f \in Flights : MapOne(f)) \/ Store

NamesNext ==
  \/ \E f \in Flights, livery \in Liveries \cup {NoLivery, Gone} : Fly(f, livery)
  \/ LiveriesStep
  \/ \E l \in Liveries : Expire(l)
  \/ FlightsStep

NamesSpec == NamesInit /\ [][NamesNext]_namesVars

\* The flights job runs again and again; nothing is asked of the other job.
NamesFairSpec == NamesSpec /\ WF_namesVars(FlightsStep)
-----------------------------------------------------------------------------
(* Properties.                                                             *)

\* Types.
NamesTypeOK ==
  /\ upstream \in [Flights -> Liveries \cup {NoLivery, Gone}]
  /\ catalog \subseteq Liveries /\ refreshing \subseteq Liveries
  /\ snapshot \in Snapshots
  /\ run \in Run

\* A flight is named after a livery it has or had, or not at all: what a run
\* remembers of the liveries is never another flight's (job.go:139-148), and a
\* name it falls back on is the flight's own.
NamedAfterLivery ==
  \A f \in Flights : snapshot[f] # Gone => snapshot[f].name \in LiveriesOf[f] \cup {NoLivery}

\* As long as the previous snapshot can be read, a flight that has a name
\* keeps one from each snapshot to the next, though its livery's key has
\* expired or was looked up too early (mapper.go:25-32).
NamesStay ==
  [][\A f \in Flights :
       snapshot[f] # Gone /\ snapshot'[f] # Gone /\ snapshot[f].name # NoLivery =>
         snapshot'[f].name # NoLivery]_namesVars

\* A run fails to read the key of l, or to store its snapshot.
Fails(l) ==
  \/ l \in catalog /\ run.memo[l] = "unread" /\ run'.memo[l] = "miss"
  \/ run.pc = "map" /\ run'.pc = "idle" /\ snapshot' # run.mapped

\* A run that has read the key of l stores its snapshot.
Completes(l) == run.memo[l] = "hit" /\ run'.pc = "idle" /\ snapshot' = run.mapped

\* A flight whose livery has come into Redis to stay is named after it in the
\* end, and so for good: a miss is remembered for a run (job.go:139-148) and no
\* longer, and the name of an earlier livery gives way.  Reads of the key and
\* stores of the snapshot may fail for ever, as long as not every run has such a
\* failure: one that has none is enough, as a later miss falls back on the name
\* it found.  For that the previous snapshot has to be read, as in NamesStay.
NamedInTheEnd ==
  \A f \in Flights, l \in Liveries :
    LET stays == <>[](upstream[f] = l /\ l \in catalog)
        everyRunFails == []<><<Fails(l)>>_namesVars /\ <>[][~Completes(l)]_namesVars
    IN  stays => <>[](snapshot[f] = [livery |-> l, name |-> l]) \/ everyRunFails
=============================================================================

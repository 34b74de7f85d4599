# Politburo in TLA+

Politburo is a Go backend for an Infinite Flight community: scheduled jobs copy
the live sessions, flights and liveries of the upstream API into Redis, an HTTP
API serves them from there to a bot and to a map page, and members sign in to
the pages by one-time links.  This directory holds TLA+ models of its parts,
TLC configurations that check them on small instances, and TLAPS proofs of what
matters most.  `PROJECT.json` lists components, runs, mutants (each a plausible
bug with which its property fails), the source lines of every definition, the
findings and the hazards.

To check: `tlc -workers 2 -config X.cfg M` for the pairs in the table of runs,
`tlapm M.tla` for the modules named `*Proofs` and `HistoryTheorems`.

## Inventory

| Component | State | Operations | Hard part |
|---|---|---|---|
| Flights job `internal/jobs/flights`, `internal/game/flights` | Redis: a snapshot per server name, a history per flight (both expire); metric of the last success | run: read sessions; per session fetch, read prior snapshot, extend histories, store snapshot | read-modify-write of two kinds of keys without a transaction; every Redis error is swallowed; two sessions may share a key |
| Sessions job `internal/jobs/sessions` | snapshot with history (expires), names (do not) | fetch, read, two writes | the two writes are not atomic |
| Liveries job `internal/jobs/liveries` | a key per livery (expires) | store one after the other, stop at the first failure | is read half done by the flights job |
| Scheduler `internal/scheduler` | cron entries, jobs' context | start a run unless one goes on, stop | the only mutual exclusion there is |
| Flight endpoints `transport/http/api/gameflights` | none | page, list of markers, flight of a marker | two keys of two jobs are read one after the other |
| Pagination `game/flights/paginate.go` | none | `Paginate` | machine integers |
| Sessions endpoint `transport/http/api/gamesessions` | none | read the snapshot | offers servers the names do not have yet |
| Gate `transport/http/server.go`, `transport/http/middleware` | none | CORS, session or key, by path | the order of the middlewares; a lookup that fails must neither admit nor turn away |
| Signed links and sessions `internal/auth`, `internal/session`, `transport/http/ui` | Redis: tickets, sessions (expire); browsers: a cookie | issue, consume, create, get, delete | ticket and session are two keys; expiry is checked twice; answers are lost |
| API keys `internal/apikeys` | table `api_keys`; an entry per key for a minute | lookup | the entry is filled after the row was read |
| Configuration `internal/config` | none | read the environment and the files it names | what is unset, empty and wrong are three things, told apart differently for each setting |
| Process `cmd/politburo`, `internal/app`, `transport/http/server.go` | stores, listener, jobs, requests, runs | load, open, register, listen, serve, drain, stop, close | cron starts runs while the server drains |
| Upstream client `internal/infiniteflight`, database `internal/database` | none | three calls; open | a call's outcomes are inputs of the jobs |
| Live flights page `static/js/maps/active-flights.mjs` | form, URL, map, timer | edit, load, poll | overlapping loads, answers in any order |
| Map `static/js/map/flight-map.mjs` | layers on the map and who owns them | add and clear routes, paths, markers | lines across the antimeridian; layers nobody owns |
| Rate limiter, access log, health, metrics | counters | | not modelled, see below |
| Logging, users, templates | | | not modelled, see below |

Components meet in Redis and nowhere else: the sessions job writes what the
flights job and the endpoints read, the flights job and the liveries job write
what endpoints and flights job read.  The scheduler calls the jobs, the server
the handlers, and `main` owns both.

What makes each part correct: histories in order and complete,
snapshots never going back (jobs); agreement of the two keys after a success
(sessions); one session per link, no page past a session's end (login); a
bounded delay of a revocation (API keys); nobody let in or turned away wrongly,
whatever fails (gate); an offer that can be taken up (sessions endpoint); the
same settings wherever a secret comes from (configuration); stores that outlive
their users, jobs that run where they are asked for, and an end that comes
(process); nothing past the end (pagination); freshness of what
is listed and no jump back of a clicked flight (endpoints); URL and map that
agree with the form (page); no line the wrong way round the globe and no layer
left behind (map).

## Modules

Each model's variables and actions keep the names of the code where they can;
`PROJECT.json` gives the lines of every one.

- **History** (`NextHistory`, `Newest`): the capped histories both jobs keep.
  An entry is the time of its refresh.  `HistoryTheorems` has the lemmas.
- **FlightTrail**: the abstract promise of the flights job.  A flight has a
  shown position and a trail; a position must be the last of the trail before it
  may be replaced; whatever was not written for the time to live may be
  forgotten.
- **FlightsJob**: one run, step by step.  `runs` is a *set* of goroutines, so
  that the scheduler's `SkipIfStillRunning` (action `Fire`) is what keeps them
  apart and not the shape of the model.  `snapshots` and `histories` are the
  Redis keys with their expiry.  A read that fails gives what a missing key
  gives, because that is how the job treats it; a write that fails may have been
  applied.  A run loses its local state when the process dies.
- **FlightsJobTrail**: FlightsJob seen as FlightTrail.  `ImplementsTrail` is
  `FlightTrail!Spec` under the mapping of shown positions to snapshots and trails
  to histories; what expires after the run has read it counts as there until the
  run lets go of it.
- **SessionsJob**: as above for the sessions job, with its two writes as steps
  of their own and the outcome the scheduler records.  `GetSessions`,
  `GetSessionFlights` and `GetAircraftLiveries` say what a call of the upstream
  client may return; each job makes its own of an error.
- **SessionReads** extends SessionsJob with the sessions endpoint and its reader,
  who then asks for the flights of a server it was offered: the offer comes from
  the job's first write, the answer (`Known`) from its second.
- **FlightNames**: the flights job beside the liveries job, seen for what a
  flight is called: memo of a run, fallback on the previous snapshot, keys that
  expire at any time.
- **GameReads** composes SessionsJob and FlightsJob (by `INSTANCE`, over one
  clock and one process) and adds requests: `AskList`, `CheckServer`
  (`knownServer`), `ReadList` (`readSnapshot` and the filters), then a page or
  markers; `AskFlight`, `ReadFlight` for a marker.  Filters keep any part of the
  snapshot.  A sealed marker is its flight.
- **SignedLogin**: tickets, sessions, cookies and requests that are slow, lose
  their answer or die between any two Redis operations.
- **ApiKeyLookup**: one key, its row, its cache entry, and requests anywhere
  between reading the one and filling the other.
- **AuthGate** extends it with the way of a request through the middlewares, in
  the order the router mounts them: CORS answers a preflight or passes it on
  (`Preflight`, `Allowed`), a session is read (`ReadSession`), a key looked up
  (`LookUpKey` is the steps of ApiKeyLookup, `KeyAnswered` its end), the handler
  answers or panics.  A request's path is one of four kinds, which is all that
  the middlewares tell apart.
- **Configuration** (no state): `Load`, with secrets from a variable or a file.
  A text is one of the forms the code tells apart; what is left of a value is
  the value.
- **Lifecycle** extends it: the main goroutine from `Load` to the exit, the
  stores, the registration of jobs, cron, runs and requests.
- **FlightPages**: `Paginate` with arithmetic modulo `2^Width`, for any page
  number and length the handler lets pass.
- **ActiveFlightsPage**: the event loop of the page: form, URL, debounce timer,
  poll and loads in flight.
- **FlightMap**: routes and paths as Leaflet layers, `normalizeRoutePoints`,
  `splitRouteAtAntimeridian` and the interpolation at the border in exact
  fractions; denominator 0 is JavaScript's NaN.  What becomes of a route is
  worked out once (`Points`, `Segments`).  A segment is said by the waypoint it
  begins with (`Starts`, `Segment`) and not by the loop of the code, which the
  prover could not follow; MCFlightMap has that loop and compares the two on all
  routes of up to four waypoints (`SplitsAlike`).

## Runs

| Run | Module, cfg | Properties | What it shows |
|---|---|---|---|
| flights_faults | MCFlightsJob, FlightsJobFaults | TypeOK, HistoryOrdered, SnapshotsNeverGoBack, RunsEnd | every fault at once; a flight without an id, a session without a name |
| flights_trail | MCFlightsJob, FlightsJobTrail | ImplementsTrail, HistoriesOnlyGrow | two sessions with one key, one without an id; reads and history writes succeed |
| flights_freshness | MCFlightsJob, FlightsJobFreshness | FreshnessVisible **violated** | the metric moves on without fresh data |
| sessions | MCSessionReads, SessionReads | ReadsTypeOK, PastInOrder, SuccessStoresBoth, SuccessIsFresh, ReplacedIsKept, OfferedIsKnown | every fault at once, and a reader who takes its time |
| reads | MCGameReads, GameReads | TypeOK, MarkersLeadOn, MarkersExpire, ListsAreFresh | both jobs and a request; a server comes and goes, the process dies, reads fail |
| names | MCFlightNames, FlightNames | NamesTypeOK, NamedAfterLivery, NamesStay, NamedInTheEnd | liveries change, are stored in part, cannot be read, expire; snapshots are not stored |
| login | MCSignedLogin, SignedLogin | TypeOK, OneSessionPerLink, MadeInTime, GrantIsDue | two links, two browsers, every fault, logout between any two steps |
| api_key | MCAuthGate, AuthGate | GateTypeOK, AnswersCatchUp, AdmittedIsDue, RefusedIsDue | two requests of any kind, a row that changes and a session that ends at any time, failing stores and handlers |
| lifecycle | MCLifecycle, Lifecycle | TypeOK, StoresOutliveWork, CleanExit, SecretsMayMove, SignalEndsIt, JobsRunWhenAsked | every failure from start to exit, in 714 environments |
| pages_past_end | FlightPages, FlightPagesPastEnd | PastEndIsEmpty **violated** | the product overflows |
| page_form | MCActiveFlightsPage, ActiveFlightsPage | TypeOK, UrlFollowsForm, MapFollowsForm | two loads in flight, two edits |
| map | MCFlightMap, FlightMap | LayersOwned, LinesStayShort, PathsAreWhole | a route and two paths of up to three waypoints, over each other |

### Findings

1. The flights job's last-success metric is not the freshness of its data, which
   `docs/conventions.md` takes it for: a run that refreshed nothing succeeds.
   For the sessions job the same statement holds (`SuccessIsFresh`).
2. `Paginate` overflows for large page numbers and lengths, and a page past the
   end is then not empty, as `TestPaginatePastEndIsEmpty` has it for small ones:
   a start that has wrapped to a negative number is caught, one that has come
   round to an index of the list is not.

More that the models bring out, which no run is kept for:

- `docs/architecture/overview.md` promises a graceful shutdown.  When the drain
  times out, `os.Exit(1)` skips the deferred `App.Close`: runs are cut off and
  the stores stay open (`DrainTimesOut`).  `CleanExit` is what code 0 promises.
- A path between waypoints at exactly +180 and -180 divides 0 by 0; `addPath`
  throws half way and leaves a line that `clearRoute` does not clear.
  `LayersOwned` fails with such a leg in a route, and only then: the instance has
  none (`NoLegOnBorder`), and the theorem says so.  No page calls `addPath` yet.
- On a game path a session that cannot be read ends the request with an error,
  though it may have a good key (`ReadSession`).  A key goes to Redis too, but a
  failed read of its entry falls through to the table.  `RefusedIsDue` says that
  this is an error and never a 401.
- A history that cannot be read is overwritten by one with a single position
  (`LoadHistory`): `HistoriesOnlyGrow` fails with `"readHistory"` among the faults
  and is for histories that can be read.
- A logout whose deletion fails clears the cookie and leaves the session until it
  expires (`Delete`): `GrantIsDue` is, as to logout, for deletions that were applied.
- A form that is edited before the sessions have arrived is filled from the URL
  again, and the edit is lost (`FillForm`).
- `JOBS_ENABLED=yes` leaves the jobs off: what cannot be parsed is taken for
  unset.  `JobsRunWhenAsked` is for the words that are understood.
- With a secret in a file that is empty, `PG_PASSWORD` is empty and not the
  fallback (`secret`): an empty file is not the same as no file.

### Bounds, and why they are enough

Ticks are minutes (jobs, API key) or abstract units (login); constants keep the
order that the code's values have and not their size: a run is shorter than half
a time to live (`TTL > 2 * MaxRunTicks`, timeouts of 15 s against three days), a
history of two or three entries is capped within the run.  `MaxTime` lets a key
be written, replaced, expire and be written again, with a crash at any point.
In `reads` it allows nine runs of the flights job and five of the sessions job,
so that two can overlap if nothing keeps them apart, and a server can go, its
snapshot become older than `FreshWithin`, and the server come back; the
snapshot's time to live is one tick more than `FreshWithin`, or it would expire
before it could be stale, and it may expire altogether with a marker still held
(`MarkersExpire`).  States of that run are told apart without the metrics
and the histories of the flights job (`ReadView`): no step reads the former, and
the latter decide nothing but later histories; the runs of the jobs alone check
both.  Two requests, two browsers or two links are what any of the races takes;
`Slots = 2` loads are what it takes for answers to change places.  An int of six
bits overflows in the product and in the sum, like one of 64.  The waypoints of
the map cross the antimeridian both ways, start on it, and lie exactly half the
globe apart.  The two requests of `api_key` are any of eleven kinds, and the clock lets an entry of the cache be filled late, expire and be
filled again.  The environments of `lifecycle` are a good one in which one secret
and one other setting are whatever they may be: no check in `Load` looks at more.
The proofs need none of these bounds: all of them are constants there.

Every configuration checks for deadlock.  The step `Terminating` stands for the
end of the bounded clock, and is enabled only when all runs have ended.

### Fairness

- FlightsJob, FlightNames: weak fairness of a run's steps.  Goroutines are
  scheduled fairly and every call they make has a timeout.  Ticks, faults and
  crashes are not fair.  Nor is it assumed that a call which fails succeeds one
  day: that is a condition of `NamedInTheEnd`, where the livery's key is not read
  or the snapshot not stored; if every run has such a failure, it says nothing.
- Lifecycle: weak fairness of the main goroutine (its waits have timeouts) and of
  a run whose context is cancelled.  Requests are not fair: they may never end.
  Neither is `ServeFails`, which ends a process but need never come: among the
  fair steps it would have had every process end by itself, and `SignalEndsIt`
  and `JobsRunWhenAsked` hold without.
- ActiveFlightsPage: answers arrive or fail (`fetch` settles), the interval
  fires, weakly fair; the debounce timer is strongly fair, because an edit
  disables and restarts it, and the edits are bounded.

All other properties are safety and assume none.

## Proofs

TLAPS checks the following for every value of the constants allowed by the
modules' assumptions (sets of any size, any caps, times to live and faults; the
assumptions only type the constants and say that `Missing` and `None` are no values;
for the jobs they add `TTL > 2 * MaxRunTicks`).  What a theorem asks of the
constants beyond that is a named hypothesis of it.

| Theorem | States |
|---|---|
| FlightsJobProofs!TypeCorrect, HistoriesAreOrdered, SnapshotsStayNewest | TypeOK, HistoryOrdered, SnapshotsNeverGoBack |
| FlightsJobProofs!JobImplementsTrail, HistoriesKeepGrowing | ImplementsTrail (where reads succeed and histories are stored), HistoriesOnlyGrow (where histories can be read) |
| FlightsJobProofs!SnapshotsExpire | what readers rely on: what is in Redis has not expired, and outlives its refresh by no more than its time to live and a run |
| SessionsJobProofs!HistoryInOrder, SuccessAgrees, SuccessMeansFresh, ReplacedAreKept | PastInOrder, SuccessStoresBoth, SuccessIsFresh, ReplacedIsKept |
| SessionsJobProofs!ReadsImplementJob, ReadsTypeCorrect, OffersAreGood | SessionReads does what SessionsJob does; ReadsTypeOK, OfferedIsKnown |
| SignedLoginProofs!TypeCorrect, LinksAreOneTime, SessionsMadeInTime, OnlyLiveSessionsServed | TypeOK, OneSessionPerLink, MadeInTime, GrantIsDue |
| GameReadsProofs!JobsUndisturbed, TypeCorrect, ClickedFlightsNeverJumpBack, FlightsComeToAnEnd | beside the readers each job does what it does alone; TypeOK, MarkersLeadOn, MarkersExpire |
| GameReadsProofs!ListsStayFresh | ListsAreFresh (where `RefreshesSucceed`) |
| LiveMapProofs!NamesTypeCorrect, NamesAreOwn, NamesAreKept | NamesTypeOK, NamedAfterLivery, NamesStay (where snapshots can be read) |
| LiveMapProofs!PageTypeCorrect, UrlKeepsUp | TypeOK, UrlFollowsForm of ActiveFlightsPage |
| LiveMapProofs!LinesAreShort, PathsShowTheirLegs, NothingIsLeftBehind | LinesStayShort, PathsAreWhole, LayersOwned (where `NoLegOnBorder`) |
| AuthGateProofs!ChangesAreNoticed, GateImplementsLookup, GateTypeCorrect, GateNoticesChanges, OnlyTheDueAreAdmitted, NobodyDueIsRefused | AnswersCatchUp of ApiKeyLookup; AuthGate does what ApiKeyLookup does; GateTypeOK, AnswersCatchUp, AdmittedIsDue, RefusedIsDue |
| LifecycleProofs!TypeCorrect, NothingLosesItsStores, ExitIsClean, SecretsMove | TypeOK, StoresOutliveWork, CleanExit, SecretsMayMove |

Each follows from one inductive invariant `IInv`, or from it and a second one that
rests on it (`TrailInv`, `FreshInv`, `KeptInv`, `GrantInv`), with a lemma per action.

- *Flights.*  `HistoryOrdered` alone is not inductive: it says nothing of what a
  run has read and will write.  `IInv` adds that there is one run (`SingleRun`,
  from the scheduler), that nothing in Redis is newer than that run's refresh
  (`RunIsNewest`), that the prior snapshot it holds is still the stored one or
  has expired (`RunHolds`), and that the history it is about to write is in
  order and ends before that (`RunExtends`).  `SnapshotsStayNewest` is an action
  property from the same invariant: the stored time is the run's.
- *Flights, as a trail.*  `TrailInv` adds what the run knows where nothing is
  misread: the prior snapshot is the stored one or there was none, the history it
  is about to extend is the stored one (`HoldsTrail`, which is all that
  `HistoriesKeepGrowing` needs), and what it has recorded outlasts the run
  (`HasRecorded`, from the times to live).  `ViewIs` is the mapping without its
  choices, as there is one run to choose.  Then each step maps to one of
  FlightTrail or to none: a stored history is `Record`, a stored snapshot is
  `Show`, a tick, a crash or a snapshot that was not stored is `Forget`.
- *Sessions.*  `RunInv`: before its first write Redis has nothing as new as the
  run; between its writes the snapshot is its own or has expired.
- *Login.*  `TicketUntaken` and `TakenOnce`: while a ticket is in Redis nobody
  holds it and no session was made of it; while a login holds it, nobody else
  does.  `OnTime` and `MadeOfLink` carry the times to `MadeInTime`.  `GrantInv`:
  what was over when a browser was told so stays over, as a session's id is used
  once, and a page about to be checked has read a session that was not.
- *Names.*  A run holds the stored snapshot as the one before, and what it has
  mapped of it is in order already; what it remembers of a livery is that livery.
- *Sessions, fresh and offered.*  A run knows when it began and is no slower than
  it may be, which makes its success fresh.  The names are those of the snapshot
  whenever that is no newer than the last success (`NamesAgree`):
  `OfferedIsKnown` is the offer held against that.  A snapshot about to be
  replaced is the one the run has read (`KeptInv`), which is `ReplacedIsKept`.  The endpoint changes
  nothing, so all that was proved of the job holds beside its readers.
- *Process.*  What is open, who works and what main has done go together: one
  conjunct per store and worker says at which places of main it may be there.
  `SecretsMove` needs no invariant, only `Load` for every environment there is.
- *Endpoints.*  Each step of GameReads is a step of one job and a stutter of the
  other, or of neither (`JobsUndisturbed`), so that both jobs' invariants hold
  there by their own theorems, which GameReadsProofs cites from its instances of
  them.  What it adds is about the requests: what one holds of a snapshot was
  stored when it was read, and a flight that has left the snapshots, or been
  stored again since, is at no older position than it was then (`NothingOlder`,
  from FlightsJobProofs).
- *Endpoints, fresh lists.*  `ListsInv` holds beside the invariants above, under
  `RefreshesSucceed`: no refresh fails other than by a crash, every named session
  has an id, and the sessions' time to live exceeds an interval and two runs (24
  hours against five minutes).  TLC evaluates it on the instance; with a time to
  live below the interval (3 against 5) it finds a list that is too old.  The
  invariant follows a name from where it is stored to where it is served: while
  the sessions stay stored (`SessionsStay`), each listed server has a snapshot
  that is fresh or an excuse, its return or the process's (`ServersKeepUp`); a
  name that is known has such a session, or had until the run in progress
  (`KnownHaveSessions`); who was told so still reads a snapshot as young
  (`CheckedHold`).  Two runs of the flights job, one of the sessions job and the
  request make `FreshWithin`.
- *Page.*  Once the form is filled it has a server, so no load ends before it has
  written the URL: `UrlFollowsForm` and that are the invariant.
- *Map.*  The invariant is that of every layer its line is short and of every path
  its lines are whole; they never change once they are drawn, so all that matters
  is what `Segment` and `Legs` give (`PiecesAreLegs`, `LegsAreShown`), for a
  route of any length.  That a layer is new takes an unused identity, which
  `PolylinesAreNew` finds by counting, so the group must be finite.  Induction is
  had from the least element of a set (`SetInduction`), once, for
  `normalizeRoutePoints`.
- *Gate.*  AuthGate implements ApiKeyLookup, a step at a time, and so has its
  invariant.  Beside it: where a request is in the gate and where in the lookup
  agree, it arrived before the lookup began and within a request's time, and what
  the lookup holds or has answered was true of the row within the time that
  `RowMaySay` allows.
- *API key.*  `FillsFromBefore`: what is about to be cached against the row comes
  from a request that was sent before the row changed; `EntryExpires` bounds the
  entry it makes.

`HistoryTheorems` proves that `NextHistory` keeps types, the cap, order and
strict order, and ends with the position it was given.

Only model-checked: liveness (`RunsEnd`, `SignalEndsIt`, `JobsRunWhenAsked`,
`MapFollowsForm`, `NamedInTheEnd`), which the prover cannot do under fairness,
and FlightPages, whose one property is a finding.

## Not modelled

- The rate limiter, `requireRole` and `RequireDiscordBotContext`: no route uses
  them, so no behaviour of the process has them.
- Logging, the users table and the templates: one query, one set-up, and files
  read at start; their failures are inputs of the models.  So are the answers of
  the upstream client and the database, of which only the outcomes are modelled.
- Of the configuration: durations, origins, hosts and names.  Each has a fallback
  and no check; a duration that is negative or zero means to the libraries what
  it says.
- Encodings: JSON, the sealing of links and markers, key strings.  A sealed value
  is opened as it was sealed or not at all.
- The access log, health and metrics: counters that nothing reads back, and
  answers from one ping of each store.  The headers CORS adds.
- What a flight or a member's record says besides time, place of origin and name;
  colours, popups and the view of the map; markers, which the page replaces as a
  whole; panics of jobs, which cron recovers.
- What the code does on purpose or without promise, named under the hazards
  without a property: one flight without id fails the whole list of markers; a
  session outlives the deactivation of its user; and what is listed under the
  findings as brought out by the models.
- Distinctions that no property needs: a session that cannot be read and one that
  is not there are both sent away by SignedLogin (AuthGate tells them apart); a
  list for no server at all is refused before `AskForFlights`; a snapshot of an
  older version that carries its histories is not among those that
  `LoadHistory` finds; the page's checkboxes load at once like its select; a null
  coordinate counts as no position; waypoints are the same at equal coordinates,
  where the code allows for 0.0001 degrees; cron's two steps of a stop are one.

## Plan

Done: all modules above and the proofs above.  What would add most from here:

1. What ListsAreFresh becomes where refreshes fail: an age that counts the runs
   that failed.
2. Markers and `focusFlight` in FlightMap.
3. AuthGate over SignedLogin, with the session that ends in one as the session of
   the other; the rate limiter and the roles, on the day a route uses them.

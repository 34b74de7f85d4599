----------------------------- MODULE GameReads -----------------------------
(***************************************************************************)
(* The cached game data from end to end: the sessions job and the flights  *)
(* job run at the same time over the same Redis keys, and the HTTP         *)
(* handlers of internal/transport/http/api/gameflights read what the two   *)
(* have stored.  A list of flights takes two reads, of the session names   *)
(* and of the server's snapshot; the answer to the map carries markers,    *)
(* which a later request for one flight hands back.                        *)
(*                                                                         *)
(* Filters keep any part of a snapshot, and a marker is the flight it was  *)
(* sealed for: its server is that of the flight.                           *)
(***************************************************************************)
EXTENDS Naturals

CONSTANTS
  Flights, Sessions, Names, SessionOf, NameOf, NoName, Anonymous, NoFlightID,
  Missing,          \* as in FlightsJob
  MaxHistory,       \* entries a history keeps
  FlightsTTL,       \* GameActiveFlightTTL, in ticks
  SessionsTTL,      \* CacheTTL of the sessions, in ticks
  Interval,         \* ticks between two runs of the sessions job
  MaxRunTicks,      \* bound: ticks a run may last
  MaxRequestTicks,  \* bound: ticks a request may take
  MaxTime,          \* bound: the last tick
  Requests,         \* bound: the requests that may be under way at once
  SessionsFaults,   \* what may go wrong in the sessions job
  FlightsFaults,    \* what may go wrong in the flights job
  ReadFaults        \* what may go wrong in a request

VARIABLES
  now, up,
  sessionRuns, active, names, outcome, sessionsSuccess,  \* see SessionsJob
  flightRuns, snapshots, histories, flightsSuccess,      \* see FlightsJob
  requests,     \* [Requests -> Request]
  marked,       \* [Flights -> Time \cup {Missing}]: the newest position a map was given
  returned,     \* [Names -> Time \cup {Missing}]: when a server last appeared (history)
  restarted     \* when the process last came up again, or Missing (history)

SJ == INSTANCE SessionsJob
  WITH Names <- Names \cup {NoName}, TTL <- SessionsTTL, Faults <- SessionsFaults,
       runs <- sessionRuns, lastSuccess <- sessionsSuccess

FJ == INSTANCE FlightsJob
  WITH TTL <- FlightsTTL, Faults <- FlightsFaults,
       runs <- flightRuns, lastSuccess <- flightsSuccess

\* What the two jobs assume, and that no time, no answer and no value of a key
\* says that there is none.
ASSUME GameReadsAssumption ==
  /\ SessionOf \in [Flights -> Sessions]
  /\ NameOf \in [Sessions -> Names \cup {NoName}] /\ NoName \notin Names
  /\ Anonymous \subseteq Sessions
  /\ MaxHistory \in Nat \ {0} /\ Interval \in Nat \ {0}
  /\ {MaxRunTicks, MaxRequestTicks, MaxTime, FlightsTTL, SessionsTTL} \subseteq Nat
  /\ FlightsTTL > 2 * MaxRunTicks /\ SessionsTTL > 2 * MaxRunTicks
  /\ SessionsFaults \subseteq SJ!AllFaults /\ FlightsFaults \subseteq FJ!AllFaults
  /\ "crash" \in SessionsFaults <=> "crash" \in FlightsFaults
  /\ ReadFaults \subseteq {"names", "snapshot"}
  /\ Missing \notin FJ!Time \cup FJ!Snapshot \cup FJ!StoredHistory \cup SJ!Snapshot
  /\ \A listed \in (SUBSET Flights) \cup (SUBSET Sessions) \cup SUBSET (Names \cup {NoName}) :
       listed # Missing

sessionsVars == <<sessionRuns, active, names, outcome, sessionsSuccess>>
flightsVars == <<flightRuns, snapshots, histories, flightsSuccess>>
clock == <<now, up>>
vars == <<clock, sessionsVars, flightsVars, requests, marked, returned, restarted>>

Time == 0 .. MaxTime

\* Where a request is.  A list: "names", "snapshot", "listed"; one flight:
\* "flight", "found".  at: the position it answers with; floor: the one its
\* marker came with.
Request == [pc : {"idle", "names", "snapshot", "listed", "flight", "found"},
            sent : Time, server : Names \cup {NoName}, flight : Flights \cup {Missing},
            kept : SUBSET Flights, at : Time, floor : Time]

Idle == [pc |-> "idle", sent |-> 0, server |-> NoName, flight |-> Missing,
         kept |-> {}, at |-> 0, floor |-> 0]

Init ==
  /\ SJ!Init /\ FJ!Init
  /\ requests = [q \in Requests |-> Idle]
  /\ marked = [f \in Flights |-> Missing]
  /\ returned = [n \in Names |-> Missing]
  /\ restarted = Missing
-----------------------------------------------------------------------------
(* The jobs.                                                               *)

\* The servers of a snapshot of sessions.
Listed(snapshot) == IF snapshot = Missing THEN {} ELSE SJ!NamesOf(snapshot.listed)

Track ==
  returned' = [n \in Names |-> IF n \in Listed(active') \ Listed(active) THEN now'
                               ELSE returned[n]]

Tick ==
  /\ \A q \in Requests :
       requests[q].pc # "idle" => now < requests[q].sent + MaxRequestTicks
  /\ SJ!Tick /\ FJ!Tick
  /\ Track
  /\ UNCHANGED <<requests, marked, restarted>>

SessionsStep ==
  /\ SJ!RunStep
  /\ Track
  /\ UNCHANGED <<flightsVars, requests, marked, restarted>>

\* What the flights job reads is what the sessions job has stored.
CachedNow ==
  {IF active = Missing THEN Missing ELSE active.listed}
    \cup (IF "readSessions" \in FlightsFaults THEN {Missing} ELSE {})

FlightsStep ==
  /\ \E r \in flightRuns :
       \/ \E cached \in CachedNow : FJ!ReadActiveSessions(r, cached)
       \/ \E s \in Sessions : FJ!PassOver(r, s) \/ FJ!FetchFlights(r, s)
       \/ \E f \in Flights : FJ!LoadHistory(r, f)
       \/ FJ!StoreHistory(r)
       \/ FJ!StoreSnapshot(r)
       \/ FJ!Finish(r)
  /\ UNCHANGED <<sessionsVars, requests, marked, returned, restarted>>

\* The process dies, with its runs and the requests it had.
Crash ==
  /\ SJ!Crash /\ FJ!Crash
  /\ requests' = [q \in Requests |-> Idle]
  /\ UNCHANGED <<marked, returned, restarted>>

Restart ==
  /\ SJ!Restart /\ FJ!Restart
  /\ restarted' = now
  /\ UNCHANGED <<requests, marked, returned>>
-----------------------------------------------------------------------------
(* The requests.                                                           *)

Become(q, r) ==
  /\ requests' = [requests EXCEPT ![q] = r]
  /\ UNCHANGED <<clock, sessionsVars, flightsVars, returned, restarted>>

\* GET /game/flights/active and /game/flights/active/trimmed: loadFiltered.
AskList(q, n) ==
  /\ up /\ requests[q].pc = "idle"
  /\ Become(q, [Idle EXCEPT !.pc = "names", !.sent = now, !.server = n])
  /\ UNCHANGED marked

\* What a handler would do that serves whatever has a key in Redis.
CheckNothing(q) ==
  /\ requests[q].pc = "names"
  /\ Become(q, [requests[q] EXCEPT !.pc = "snapshot"])
  /\ UNCHANGED marked

\* knownServer: the server has a session, or nobody knows which have.
Known(n) == IF names = Missing THEN TRUE ELSE n \in names

CheckServer(q) ==
  LET r == requests[q]
  IN  /\ r.pc = "names"
      /\ \/ /\ Known(r.server)
            /\ Become(q, [r EXCEPT !.pc = "snapshot"])
         \/ /\ ~Known(r.server) \/ "names" \in ReadFaults
            /\ Become(q, Idle)
      /\ UNCHANGED marked

\* readSnapshot, and the filters.
ReadList(q) ==
  LET r == requests[q]
      snapshot == snapshots[r.server]
  IN  /\ r.pc = "snapshot"
      /\ \/ /\ snapshot # Missing
            /\ \E kept \in SUBSET snapshot.flights :
                 Become(q, [r EXCEPT !.pc = "listed", !.kept = kept, !.at = snapshot.at])
         \/ /\ snapshot = Missing \/ "snapshot" \in ReadFaults
            /\ Become(q, Idle)
      /\ UNCHANGED marked

\* GetActiveFlights answers with a page of them.
AnswerPage(q) ==
  /\ requests[q].pc = "listed"
  /\ Become(q, Idle)
  /\ UNCHANGED marked

\* GetTrimmedActiveFlights seals a marker for each, and has no answer at all if
\* one of them has no id.
AnswerMarkers(q) ==
  LET r == requests[q]
      newer == IF NoFlightID \in r.kept THEN {}
               ELSE {f \in r.kept : marked[f] = Missing \/ marked[f] < r.at}
  IN  /\ r.pc = "listed"
      /\ marked' = [f \in Flights |-> IF f \in newer THEN r.at ELSE marked[f]]
      /\ Become(q, Idle)

\* GetActiveFlight, for a marker of f: no names are asked for.
AskFlight(q, f) ==
  /\ up /\ requests[q].pc = "idle"
  /\ marked[f] # Missing
  /\ Become(q, [Idle EXCEPT !.pc = "flight", !.sent = now, !.server = NameOf[SessionOf[f]],
                            !.flight = f, !.floor = marked[f]])
  /\ UNCHANGED marked

ReadFlight(q) ==
  LET r == requests[q]
      snapshot == snapshots[r.server]
  IN  /\ r.pc = "flight"
      /\ \/ /\ snapshot # Missing /\ r.flight \in snapshot.flights
            /\ Become(q, [r EXCEPT !.pc = "found", !.at = snapshot.at])
         \/ /\ \/ snapshot = Missing
               \/ snapshot # Missing /\ r.flight \notin snapshot.flights
               \/ "snapshot" \in ReadFaults
            /\ Become(q, Idle)
      /\ UNCHANGED marked

AnswerFlight(q) ==
  /\ requests[q].pc = "found"
  /\ Become(q, Idle)
  /\ UNCHANGED marked

\* The bounded clock has run out.
Terminating ==
  /\ now = MaxTime /\ up /\ sessionRuns = {} /\ flightRuns = {}
  /\ UNCHANGED vars

Next ==
  \/ Tick \/ SessionsStep \/ FlightsStep \/ Crash \/ Restart \/ Terminating
  \/ \E q \in Requests :
       \/ \E n \in Names : AskList(q, n)
       \/ CheckServer(q) \/ ReadList(q) \/ AnswerPage(q) \/ AnswerMarkers(q)
       \/ \E f \in Flights : AskFlight(q, f)
       \/ ReadFlight(q) \/ AnswerFlight(q)

Spec == Init /\ [][Next]_vars
-----------------------------------------------------------------------------
(* Properties.                                                             *)

\* Types, those of the two jobs among them.
TypeOK ==
  /\ SJ!TypeOK /\ FJ!TypeOK
  /\ requests \in [Requests -> Request]
  /\ marked \in [Flights -> Time \cup {Missing}]
  /\ returned \in [Names -> Time \cup {Missing}]
  /\ restarted \in Time \cup {Missing}

\* The ticks that two runs of the flights job, a run of the sessions job and a
\* request may take between them.
FreshWithin == 3 * MaxRunTicks + MaxRequestTicks + 1

\* No refresh fails other than by a crash, every session with a name has an id,
\* and the sessions are stored for longer than the next refresh of them takes
\* to come and to end (cache.go:13, 24 hours).
RefreshesSucceed ==
  /\ {"fetch", "storeSessions", "storeNames"} \cap SessionsFaults = {}
  /\ {"readSessions", "fetch", "storeSnapshot"} \cap FlightsFaults = {}
  /\ \A s \in Anonymous : NameOf[s] = NoName
  /\ SessionsTTL > Interval + 2 * MaxRunTicks

\* While no refresh fails, a list is as fresh as the runs allow, unless the
\* server has been away, or the process down, and has come back just now: then
\* it is what was left, however old, until the jobs have run again.  A server
\* that is gone is not served for long (knownServer, handler.go:282-299),
\* though its snapshot stays for days.
ListsAreFresh ==
  [][\A q \in Requests :
       requests[q].pc = "snapshot" /\ requests'[q].pc = "listed" =>
         LET n == requests[q].server
         IN  \/ now <= requests'[q].at + FreshWithin
             \/ returned[n] # Missing /\ now <= returned[n] + FreshWithin
             \/ restarted # Missing /\ now <= restarted + Interval + FreshWithin]_vars

\* Wherever the process dies, what a marker leads to is no older than any
\* position that a map had been given of the flight when it was asked for: the
\* clicked flight never jumps back.
MarkersLeadOn ==
  \A q \in Requests : requests[q].pc = "found" => requests[q].at >= requests[q].floor

\* A marker leads to no position that is older than a snapshot lives: the detail
\* endpoint does not ask for the names (handler.go:121-144), so for a server
\* that has gone only the expiry of what it left brings its flights to an end.
MarkersExpire ==
  \A q \in Requests : requests[q].pc = "found" =>
    now < requests[q].at + FlightsTTL + MaxRunTicks + MaxRequestTicks
=============================================================================

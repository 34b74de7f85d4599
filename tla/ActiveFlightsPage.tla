------------------------- MODULE ActiveFlightsPage -------------------------
(***************************************************************************)
(* The live flights page (internal/ui/static/js/maps/active-flights.mjs)   *)
(* in its event loop: the filter form, the URL it is kept in, and the map, *)
(* with loads of flights that are started by edits, by a debounce timer    *)
(* and by a poll, overlap, and are answered in any order.                  *)
(*                                                                         *)
(* A filter is a server and a text; the text stands for callsign, user     *)
(* name and pilot states.  Only the text is debounced.  What the map shows *)
(* is abstracted to the filter it answers to.                              *)
(***************************************************************************)
EXTENDS Naturals

CONSTANTS
  Servers,     \* the servers there are
  Default,     \* DEFAULT_SERVER
  NoServer,    \* no server: of an empty select, of a URL without one
  Texts,       \* what may be searched for, nothing at all included
  NoText,      \* nothing
  Slots,       \* bound: the loads that may be under way at once
  MaxEdits,    \* bound: what the user does
  None,        \* no load; nothing shown
  Faults       \* what may go wrong

ASSUME ActiveFlightsPageAssumption ==
  /\ NoServer \notin Servers /\ Default \in Servers
  /\ NoText \in Texts
  /\ MaxEdits \in Nat
  /\ Faults \subseteq {"sessions", "flights"}

VARIABLES
  phase,     \* of start(): before the servers, before the first flights, after
  options,   \* the servers of the select
  form,      \* the filter in the form
  url,       \* the filter in the URL
  loads,     \* [Slots -> Filter \cup {None}]: the loads under way
  first,     \* the load start() waits for
  timer,     \* the debounce timer is set
  shown,     \* the filter of the flights on the map, None when it is empty
  edits      \* how often the user has done something

vars == <<phase, options, form, url, loads, first, timer, shown, edits>>

Filter == [server : Servers \cup {NoServer}, text : Texts]

Init ==
  /\ phase = "servers"
  /\ options = {}
  /\ form = [server |-> NoServer, text |-> NoText]
  /\ url \in Filter
  /\ loads = [x \in Slots |-> None]
  /\ first = None
  /\ timer = FALSE
  /\ shown = None
  /\ edits = 0

\* What a load would do that leaves the URL alone.
LoadOnly(f, x) ==
  /\ loads[x] = None
  /\ IF f.server = NoServer
       THEN shown' = None /\ UNCHANGED loads
       ELSE loads' = [loads EXCEPT ![x] = f] /\ UNCHANGED shown
  /\ UNCHANGED url

\* loadFlights up to its fetch, with the filter f in the form, as load x.
LoadFlights(f, x) ==
  /\ loads[x] = None
  /\ IF f.server = NoServer
       THEN shown' = None /\ UNCHANGED <<url, loads>>
       ELSE url' = f /\ loads' = [loads EXCEPT ![x] = f] /\ UNCHANGED shown
-----------------------------------------------------------------------------
(* start().                                                                *)

\* What a form would be filled with if a URL without a text had none to give.
FillFormUndefined(listed, server, x) ==
  LET f == [server |-> server, text |-> None]
  IN  /\ phase = "servers"
      /\ phase' = "flights"
      /\ options' = listed
      /\ form' = f
      /\ LoadFlights(f, x)
      /\ first' = x
      /\ UNCHANGED <<timer, edits>>

\* The form is filled from the URL, whatever was in it, and flights are loaded.
FillForm(listed, server, x) ==
  LET f == [server |-> server, text |-> url.text]
  IN  /\ phase = "servers"
      /\ phase' = "flights"
      /\ options' = listed
      /\ form' = f
      /\ LoadFlights(f, x)
      /\ first' = x
      /\ UNCHANGED <<timer, edits>>

\* loadSessions: the server of the URL, or the default, if it is listed.
SessionsArrive(listed, x) ==
  LET offered == IF listed = {} THEN {Default} ELSE listed
      preferred == IF url.server = NoServer THEN Default ELSE url.server
  IN  IF preferred \in offered THEN FillForm(offered, preferred, x)
      ELSE \E server \in offered : FillForm(offered, server, x)

\* The select has only the default then, and that is what it is set to.
SessionsFail(x) ==
  /\ "sessions" \in Faults
  /\ FillForm({Default}, Default, x)

\* What a page would do that never polls.
AwaitedInVain(x) == x \in Slots /\ UNCHANGED phase

\* setInterval, when the first load has been answered.
Awaited(x) == phase' = IF phase = "flights" /\ first = x THEN "polling" ELSE phase
-----------------------------------------------------------------------------
(* The user.                                                               *)

Edit == edits < MaxEdits /\ edits' = edits + 1

\* A change event.
ChooseServer(server, x) ==
  /\ Edit
  /\ server \in options
  /\ form' = [form EXCEPT !.server = server]
  /\ LoadFlights(form', x)
  /\ UNCHANGED <<phase, options, first, timer>>

\* An input event: scheduleLoad.
EnterText(text) ==
  /\ Edit
  /\ form' = [form EXCEPT !.text = text]
  /\ timer' = TRUE
  /\ UNCHANGED <<phase, options, url, loads, first, shown>>

\* A submit event, or the change event of a text field that is left.
Submit(x) ==
  /\ Edit
  /\ LoadFlights(form, x)
  /\ UNCHANGED <<phase, options, form, first, timer>>
-----------------------------------------------------------------------------
(* Timers and answers.                                                     *)

Debounced(x) ==
  /\ timer
  /\ timer' = FALSE
  /\ LoadFlights(form, x)
  /\ UNCHANGED <<phase, options, form, first, edits>>

Poll(x) ==
  /\ phase = "polling"
  /\ LoadFlights(form, x)
  /\ UNCHANGED <<phase, options, form, first, timer, edits>>

\* The rest of loadFlights: the map is given whatever this load has found.
Answer(x) ==
  /\ loads[x] # None
  /\ shown' = loads[x]
  /\ loads' = [loads EXCEPT ![x] = None]
  /\ Awaited(x)
  /\ UNCHANGED <<options, form, url, first, timer, edits>>

AnswerFails(x) ==
  /\ loads[x] # None
  /\ "flights" \in Faults
  /\ shown' = None
  /\ loads' = [loads EXCEPT ![x] = None]
  /\ Awaited(x)
  /\ UNCHANGED <<options, form, url, first, timer, edits>>

SessionsAnswered ==
  \E x \in Slots :
    (\E listed \in SUBSET Servers : SessionsArrive(listed, x)) \/ SessionsFail(x)

Answered(x) == Answer(x) \/ AnswerFails(x)

Polled == \E x \in Slots : Poll(x)

Settled == \E x \in Slots : Debounced(x)

Next ==
  \/ SessionsAnswered
  \/ \E x \in Slots :
       \/ \E server \in Servers : ChooseServer(server, x)
       \/ Submit(x)
       \/ Answered(x)
  \/ \E text \in Texts : EnterText(text)
  \/ Polled \/ Settled

Spec == Init /\ [][Next]_vars

\* The browser settles every fetch and lets timers fire; strongly, for the
\* debounce timer, because the bound on loads may hold it up.
FairSpec ==
  /\ Spec
  /\ WF_vars(SessionsAnswered)
  /\ \A x \in Slots : WF_vars(Answered(x))
  /\ WF_vars(Polled)
  /\ SF_vars(Settled)
-----------------------------------------------------------------------------
(* Properties.                                                             *)

\* Types.
TypeOK ==
  /\ phase \in {"servers", "flights", "polling"}
  /\ options \subseteq Servers
  /\ form \in Filter /\ url \in Filter
  /\ loads \in [Slots -> Filter \cup {None}]
  /\ first \in Slots \cup {None}
  /\ timer \in BOOLEAN
  /\ shown \in Filter \cup {None}
  /\ edits \in 0 .. MaxEdits

\* Once the form is filled, the URL has what is in the form, or the timer that
\* will bring it there is set: a page that is reloaded or shared is the one
\* that was looked at, in whatever order its loads were answered.
UrlFollowsForm == phase # "servers" /\ ~timer => url = form

\* When the user has done, the map comes to show what the form says and stays
\* with it, though an answer to an earlier filter may come last: the next poll
\* makes good for it.  Failed loads leave the map empty until one succeeds.
MapFollowsForm == <>[](shown \in {form, None})
=============================================================================

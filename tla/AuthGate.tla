------------------------------ MODULE AuthGate ------------------------------
(***************************************************************************)
(* Who reaches a handler: the middlewares that Server.router mounts        *)
(* (internal/transport/http/server.go and middleware), in their order.     *)
(* CORS answers preflights; AuthenticateAPI asks for a session or an API   *)
(* key on the game paths and for a key on the others below /api/v1;        *)
(* UISessionAuth asks for a session on the pages.  The key is looked up as *)
(* ApiKeyLookup has it: its actions are the steps of a request here.       *)
(*                                                                         *)
(* One session is enough: a request has its cookie or none.  Whether that  *)
(* is in Redis is one read; the second check of its expiry, and how it     *)
(* came to be there, is the subject of SignedLogin.                        *)
(***************************************************************************)
EXTENDS ApiKeyLookup

CONSTANTS
  NoOrigin,        \* of a request that is not sent across origins
  AllowedOrigins,  \* CORS_ALLOWED_ORIGINS
  Calls,           \* bound: the requests that are made
  GateFaults       \* what else may go wrong

\* Where the router leads: "open" to health, metrics, login, logout and static
\* files; "page" to the dashboard and the map; "game" below /api/v1/game/;
\* "link" to the rest of /api/v1.
Call == [route : {"open", "page", "game", "link"}, cookie : BOOLEAN, key : BOOLEAN,
         preflight : BOOLEAN, origin : STRING]

ASSUME AuthGateAssumption ==
  /\ Calls \subseteq Call
  /\ GateFaults \subseteq {"session", "panic"}

VARIABLES
  session,  \* whether the session is in Redis
  gate      \* [Requests -> Passage]

gateVars == <<session, gate>>
allVars == <<vars, gateVars>>

\* Where a request is: before the session is read, or with its key; in its
\* handler; or answered, and how.  had: it came with a session that was there.
Passage == [pc : {"idle", "session", "key", "handler", "answered"},
            call : Calls \cup {Missing}, arrived : Time, had : BOOLEAN,
            answer : {"none", "ok", "noContent", "forbidden", "unauthorized",
                      "login", "failed"}]

Absent == [pc |-> "idle", call |-> Missing, arrived |-> 0, had |-> FALSE,
           answer |-> "none"]

GateInit ==
  /\ Init
  /\ session = TRUE
  /\ gate = [q \in Requests |-> Absent]

Pass(q, p) == gate' = [gate EXCEPT ![q] = p]

Answer(q, p, answer) == Pass(q, [p EXCEPT !.pc = "answered", !.answer = answer])

\* Nothing is kept waiting longer than a request may take.
GateTick ==
  /\ \A q \in Requests :
       gate[q].pc # "idle" => now < gate[q].arrived + MaxRequestTicks
  /\ Tick
  /\ UNCHANGED gateVars

GateChangeRow(new) ==
  /\ ChangeRow(new)
  /\ UNCHANGED gateVars

\* The browser logs out, or the session expires.
EndSession ==
  /\ session
  /\ session' = FALSE
  /\ UNCHANGED <<vars, gate>>
-----------------------------------------------------------------------------
(* The middlewares.                                                        *)

Allowed(origin) == origin \in AllowedOrigins \/ "*" \in AllowedOrigins

\* CORS answers a preflight and lets all else pass, from any origin.
Preflight(call) == call.preflight /\ call.origin # NoOrigin

\* AuthenticateAPI and UISessionAuth read a session for these, if there is one.
TakesSession(call) == call.route \in {"page", "game"}

TakesKey(call) == call.route \in {"game", "link"}

\* A request p for which no session was found: a page sends it to the login, a
\* game path takes a key instead.
WithoutSession(q, p) ==
  IF TakesKey(p.call) THEN Pass(q, [p EXCEPT !.pc = "key"]) ELSE Answer(q, p, "login")

\* Up to the first thing that takes time.
Arrive(q, call) ==
  LET p == [Absent EXCEPT !.call = call, !.arrived = now,
                          !.had = call.cookie /\ session]
  IN  /\ gate[q].pc = "idle"
      /\ IF Preflight(call)
           THEN Answer(q, p, IF Allowed(call.origin) THEN "noContent" ELSE "forbidden")
         ELSE IF call.route = "open" THEN Pass(q, [p EXCEPT !.pc = "handler"])
         ELSE IF TakesSession(call) /\ call.cookie THEN Pass(q, [p EXCEPT !.pc = "session"])
         ELSE WithoutSession(q, p)
      /\ UNCHANGED <<vars, session>>

\* What a gate would do that takes a failed read for a missing session.
ReadSessionOrMiss(q) ==
  LET p == gate[q]
  IN  /\ p.pc = "session"
      /\ \/ session /\ Pass(q, [p EXCEPT !.pc = "handler"])
         \/ ~session /\ WithoutSession(q, p)
         \/ "session" \in GateFaults /\ WithoutSession(q, p)
      /\ UNCHANGED <<vars, session>>

\* Service.Lookup: a read that fails ends the request, whatever key it has.
ReadSession(q) ==
  LET p == gate[q]
  IN  /\ p.pc = "session"
      /\ \/ session /\ Pass(q, [p EXCEPT !.pc = "handler"])
         \/ ~session /\ WithoutSession(q, p)
         \/ "session" \in GateFaults /\ Answer(q, p, "failed")
      /\ UNCHANGED <<vars, session>>

NoKey(q) ==
  LET p == gate[q]
  IN  /\ p.pc = "key" /\ ~p.call.key
      /\ Answer(q, p, "unauthorized")
      /\ UNCHANGED <<vars, session>>

\* Lookup.Lookup, with the request's key.
LookUpKey(q) ==
  /\ gate[q].pc = "key" /\ gate[q].call.key
  /\ \/ Send(q)
     \/ ReadCacheHit(q) \/ ReadCacheMiss(q)
     \/ QueryRow(q) \/ QueryRowFails(q)
     \/ FillCache(q)
  /\ UNCHANGED gateVars

\* What a gate would do that lets a request pass when the lookup fails.
KeyAnsweredOrFailed(q) ==
  LET p == gate[q]
  IN  /\ p.pc = "key"
      /\ \/ requests[q].pc \in {"accepted", "failed"} /\ Pass(q, [p EXCEPT !.pc = "handler"])
         \/ requests[q].pc = "refused" /\ Answer(q, p, "unauthorized")
      /\ Finish(q)
      /\ UNCHANGED session

\* The rest of AuthenticateAPI.
KeyAnswered(q) ==
  LET p == gate[q]
  IN  /\ p.pc = "key"
      /\ \/ requests[q].pc = "accepted" /\ Pass(q, [p EXCEPT !.pc = "handler"])
         \/ requests[q].pc = "refused" /\ Answer(q, p, "unauthorized")
         \/ requests[q].pc = "failed" /\ Answer(q, p, "failed")
      /\ Finish(q)
      /\ UNCHANGED session

\* The handler answers, or panics and Recoverer answers.
Handle(q) ==
  /\ gate[q].pc = "handler"
  /\ \/ Answer(q, gate[q], "ok")
     \/ "panic" \in GateFaults /\ Answer(q, gate[q], "failed")
  /\ UNCHANGED <<vars, session>>

Leave(q) ==
  /\ gate[q].pc = "answered"
  /\ Pass(q, Absent)
  /\ UNCHANGED <<vars, session>>

GateTerminating == Terminating /\ UNCHANGED gateVars

GateNext ==
  \/ GateTick \/ GateTerminating \/ EndSession
  \/ \E new \in Rows : GateChangeRow(new)
  \/ \E q \in Requests :
       \/ \E call \in Calls : Arrive(q, call)
       \/ ReadSession(q)
       \/ NoKey(q) \/ LookUpKey(q) \/ KeyAnswered(q)
       \/ Handle(q) \/ Leave(q)

GateSpec == GateInit /\ [][GateNext]_allVars
-----------------------------------------------------------------------------
(* Properties.                                                             *)

\* Types, those of the lookup among them.
GateTypeOK ==
  /\ TypeOK
  /\ session \in BOOLEAN
  /\ gate \in [Requests -> Passage]

\* The key's row said so when the request arrived, or a little before: for the
\* cache's time to live and for what a slow request may hold on to.
RowMaySay(p, accepted) ==
  Accepts(row) = accepted \/ p.arrived < changedAt + CacheTTL + MaxRequestTicks

\* Whatever fails, a request reaches a handler behind the gate only with a
\* session that had not ended when it arrived, or with a key that is active or
\* had been so until a moment before; a session never does for a link, nor a
\* key for a page (auth.go:30-73, roles.go:18-37).
AdmittedIsDue ==
  \A q \in Requests : gate[q].pc = "handler" =>
    LET p == gate[q]
    IN  \/ p.call.route = "open"
        \/ TakesSession(p.call) /\ p.had
        \/ TakesKey(p.call) /\ p.call.key /\ RowMaySay(p, TRUE)

\* Nobody is sent away who has a live session or an active key, except for a
\* key that was enabled only a moment ago: where a lookup fails the answer is
\* an error, and not a 401 or the login page.  That a stale cookie comes along
\* does not make the key any worse.
RefusedIsDue ==
  \A q \in Requests : gate[q].answer \in {"unauthorized", "login"} =>
    LET p == gate[q]
    IN  /\ TakesSession(p.call) /\ p.call.cookie => ~session
        /\ TakesKey(p.call) /\ p.call.key => RowMaySay(p, FALSE)
=============================================================================

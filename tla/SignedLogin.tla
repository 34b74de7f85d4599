---------------------------- MODULE SignedLogin ----------------------------
(***************************************************************************)
(* Signing in by a one-time link (internal/auth/ticket.go), the browser    *)
(* session it makes (internal/session) and the browser routes that use it  *)
(* (internal/transport/http/ui and middleware/roles.go).  A bot asks for a *)
(* link; whoever opens it has the ticket behind it taken out of Redis and  *)
(* a session put in, in two Redis operations; a page is served to a        *)
(* browser whose cookie names a live session.                              *)
(*                                                                         *)
(* A link stands for its ticket id, which is random and sealed in the      *)
(* link: a link is opened as issued or not at all.  What ticket and        *)
(* session say of the member is left out.                                  *)
(***************************************************************************)
EXTENDS Naturals

CONSTANTS
  Links,            \* ticket ids
  Sessions,         \* session ids
  Browsers,
  Requests,         \* bound: the requests that may be under way at once
  BrowserOf,        \* [Requests -> Browsers]
  None,
  TicketTTL,        \* ticks a ticket lives
  SessionTTL,       \* ticks a session lives
  MaxRequestTicks,  \* bound: ticks a request may take
  MaxTime,          \* bound: the last tick
  Faults            \* what may go wrong

ASSUME SignedLoginAssumption ==
  /\ BrowserOf \in [Requests -> Browsers]
  /\ None \notin Links /\ None \notin Sessions /\ None \notin Nat
  /\ TicketTTL \in Nat \ {0} /\ SessionTTL \in Nat
  /\ MaxRequestTicks \in Nat /\ MaxTime \in Nat
  /\ Faults \subseteq {"issue", "consume", "create", "lookup", "logout", "reply", "crash"}

VARIABLES
  now,        \* ticks since the start
  tickets,    \* [Links -> Nat \cup {None}]: the tickets in Redis, by expiry
  issued,     \* [Links -> Time \cup {None}]: when they were stored (history)
  sent,       \* the links the bot was given
  sessions,   \* [Sessions -> Stored \cup {None}]: the sessions in Redis
  bornOf,     \* [Sessions -> Links \cup {None}]: what made them (history)
  ended,      \* those gone when a browser was told to be logged out of them (history)
  cookies,    \* [Browsers -> Sessions \cup {None}]
  requests    \* [Requests -> Request]

links == <<tickets, issued, sent>>
vars == <<now, tickets, issued, sent, sessions, bornOf, ended, cookies, requests>>

Time == 0 .. MaxTime

Stored == [created : Time, exp : Nat]

\* Where a request is.  A login: "consume", "create", "welcome"; a page:
\* "lookup", "check", "purge", "granted"; a logout: "delete", "cleared".
\* created: when a login took its ticket, or a page's session was made;
\* over: the sessions that were over for their browsers when it was sent.
Request == [pc : {"idle", "consume", "create", "welcome", "lookup", "check",
                  "purge", "granted", "delete", "cleared"},
            link : Links \cup {None}, session : Sessions \cup {None},
            started : Time, created : Time, over : SUBSET Sessions]

Idle == [pc |-> "idle", link |-> None, session |-> None,
         started |-> 0, created |-> 0, over |-> {}]

Init ==
  /\ now = 0
  /\ tickets = [l \in Links |-> None]
  /\ issued = [l \in Links |-> None]
  /\ sent = {}
  /\ sessions = [s \in Sessions |-> None]
  /\ bornOf = [s \in Sessions |-> None]
  /\ ended = {}
  /\ cookies = [b \in Browsers |-> None]
  /\ requests = [q \in Requests |-> Idle]

Become(q, r) == requests' = [requests EXCEPT ![q] = r]

\* A Redis write that is reported as failed may have been applied.
Perhaps(old, new) == {old, new}

Tick ==
  /\ now < MaxTime
  /\ \A q \in Requests :
       requests[q].pc # "idle" => now < requests[q].started + MaxRequestTicks
  /\ now' = now + 1
  /\ tickets' = [l \in Links |->
       IF tickets[l] # None /\ tickets[l] <= now + 1 THEN None ELSE tickets[l]]
  /\ sessions' = [s \in Sessions |->
       IF sessions[s] # None /\ sessions[s].exp <= now + 1 THEN None ELSE sessions[s]]
  /\ UNCHANGED <<issued, sent, bornOf, ended, cookies, requests>>
-----------------------------------------------------------------------------
(* Links are issued: Tickets.Issue for GenerateSignedLink.                 *)

\* What a link would be that is kept for as long as the session it makes.
IssueForSession(l) ==
  /\ issued[l] = None
  /\ issued' = [issued EXCEPT ![l] = now]
  /\ tickets' = [tickets EXCEPT ![l] = now + SessionTTL]
  /\ sent' = sent \cup {l}
  /\ UNCHANGED <<now, sessions, bornOf, ended, cookies, requests>>

Issue(l) ==
  /\ issued[l] = None
  /\ issued' = [issued EXCEPT ![l] = now]
  /\ tickets' = [tickets EXCEPT ![l] = now + TicketTTL]
  /\ sent' = sent \cup {l}
  /\ UNCHANGED <<now, sessions, bornOf, ended, cookies, requests>>

IssueFails(l) ==
  /\ "issue" \in Faults
  /\ issued[l] = None
  /\ issued' = [issued EXCEPT ![l] = now]
  /\ tickets' \in Perhaps(tickets, [tickets EXCEPT ![l] = now + TicketTTL])
  /\ UNCHANGED <<now, sent, sessions, bornOf, ended, cookies, requests>>
-----------------------------------------------------------------------------
(* A browser sends a request.                                              *)

Send(q, r) ==
  /\ requests[q].pc = "idle"
  /\ Become(q, [r EXCEPT !.started = now, !.over = ended])
  /\ UNCHANGED <<now, links, sessions, bornOf, ended, cookies>>

OpenLink(q, l) == l \in sent /\ Send(q, [Idle EXCEPT !.pc = "consume", !.link = l])

OpenPage(q) ==
  LET s == cookies[BrowserOf[q]]
  IN  s # None /\ Send(q, [Idle EXCEPT !.pc = "lookup", !.session = s])

OpenLogout(q) ==
  Send(q, [Idle EXCEPT !.pc = "delete", !.session = cookies[BrowserOf[q]]])
-----------------------------------------------------------------------------
(* Login.                                                                  *)

\* What a login would do that reads the ticket and leaves it there: GET.
ConsumeAndKeep(q) ==
  /\ requests[q].pc = "consume"
  /\ tickets[requests[q].link] # None
  /\ Become(q, [requests[q] EXCEPT !.pc = "create", !.created = now])
  /\ UNCHANGED <<now, links, sessions, bornOf, ended, cookies>>

\* The tickets after RedisStore.GetDelJSON, which answers with what was there.
GetDelJSON(l) == [tickets EXCEPT ![l] = None]

\* Tickets.Consume finds the ticket and, with that, takes it: GETDEL.
Consume(q) ==
  LET r == requests[q]
  IN  /\ r.pc = "consume"
      /\ tickets[r.link] # None
      /\ tickets' = GetDelJSON(r.link)
      /\ Become(q, [r EXCEPT !.pc = "create", !.created = now])
      /\ UNCHANGED <<now, issued, sent, sessions, bornOf, ended, cookies>>

\* The page that says the link has expired, also for a GETDEL that fails, and
\* for one that was applied, lost its answer and found nothing when retried.
ConsumeFails(q) ==
  LET r == requests[q]
  IN  /\ r.pc = "consume"
      /\ \/ tickets[r.link] = None /\ UNCHANGED tickets
         \/ /\ "consume" \in Faults
            /\ tickets' \in Perhaps(tickets, GetDelJSON(r.link))
      /\ Become(q, Idle)
      /\ UNCHANGED <<now, issued, sent, sessions, bornOf, ended, cookies>>

\* What Service.Create would store without a time to live: Redis keeps it.
MadeForGood(r) == {[created |-> t, exp |-> None] : t \in r.created .. now}

\* What Service.Create stores: a session that counts from the moment it reads
\* the clock, between the login's two Redis operations, while Redis counts
\* from the second.
Made(r) == {[created |-> t, exp |-> now + SessionTTL] : t \in r.created .. now}

\* Service.Create under an id of its own; the answer carries the cookie.
Create(q, s) ==
  LET r == requests[q]
  IN  /\ r.pc = "create"
      /\ bornOf[s] = None
      /\ bornOf' = [bornOf EXCEPT ![s] = r.link]
      /\ \E made \in Made(r) : sessions' = [sessions EXCEPT ![s] = made]
      /\ Become(q, [r EXCEPT !.pc = "welcome", !.session = s])
      /\ UNCHANGED <<now, links, ended, cookies>>

\* The ticket is gone, and the browser gets no session.
CreateFails(q, s) ==
  LET r == requests[q]
  IN  /\ r.pc = "create"
      /\ "create" \in Faults
      /\ bornOf[s] = None
      /\ bornOf' = [bornOf EXCEPT ![s] = r.link]
      /\ \E made \in Made(r) :
           sessions' \in Perhaps(sessions, [sessions EXCEPT ![s] = made])
      /\ Become(q, Idle)
      /\ UNCHANGED <<now, links, ended, cookies>>
-----------------------------------------------------------------------------
(* A page behind UISessionAuth.                                            *)

\* Service.Get reads the session; one that is not there, or a read that
\* fails, and the browser is sent away.
LookUp(q) ==
  LET r == requests[q]
  IN  /\ r.pc = "lookup"
      /\ \/ /\ sessions[r.session] # None
            /\ Become(q, [r EXCEPT !.pc = "check",
                                   !.created = sessions[r.session].created])
         \/ /\ sessions[r.session] = None \/ "lookup" \in Faults
            /\ Become(q, Idle)
      /\ UNCHANGED <<now, links, sessions, bornOf, ended, cookies>>

\* Session.Expired.
Expired(created) == now > created + SessionTTL

\* What a page would do that leaves expiry to Redis.
CheckNothing(q) ==
  /\ requests[q].pc = "check"
  /\ Become(q, [requests[q] EXCEPT !.pc = "granted"])
  /\ UNCHANGED <<now, links, sessions, bornOf, ended, cookies>>

Check(q) ==
  LET r == requests[q]
  IN  /\ r.pc = "check"
      /\ Become(q, [r EXCEPT !.pc = IF Expired(r.created) THEN "purge" ELSE "granted"])
      /\ UNCHANGED <<now, links, sessions, bornOf, ended, cookies>>

\* An expired session is deleted, in vain if that fails.
Purge(q) ==
  LET r == requests[q]
      purged == [sessions EXCEPT ![r.session] = None]
  IN  /\ r.pc = "purge"
      /\ sessions' \in IF "lookup" \in Faults THEN Perhaps(sessions, purged) ELSE {purged}
      /\ Become(q, Idle)
      /\ UNCHANGED <<now, links, bornOf, ended, cookies>>

Serve(q) ==
  /\ requests[q].pc = "granted"
  /\ Become(q, Idle)
  /\ UNCHANGED <<now, links, sessions, bornOf, ended, cookies>>
-----------------------------------------------------------------------------
(* Logout: the cookie is cleared whether or not the session is deleted.    *)

Delete(q) ==
  LET r == requests[q]
      without == IF r.session = None THEN sessions
                 ELSE [sessions EXCEPT ![r.session] = None]
  IN  /\ r.pc = "delete"
      /\ sessions' \in IF "logout" \in Faults THEN Perhaps(sessions, without) ELSE {without}
      /\ Become(q, [r EXCEPT !.pc = "cleared"])
      /\ UNCHANGED <<now, links, bornOf, ended, cookies>>
-----------------------------------------------------------------------------
(* The answer of a login or a logout reaches the browser.                  *)

Receive(q) ==
  LET r == requests[q]  b == BrowserOf[q]
  IN  /\ \/ /\ r.pc = "welcome"
            /\ cookies' = [cookies EXCEPT ![b] = r.session]
            /\ UNCHANGED ended
         \/ /\ r.pc = "cleared"
            /\ cookies' = [cookies EXCEPT ![b] = None]
            /\ ended' = ended \cup {s \in {r.session} \ {None} : sessions[s] = None}
      /\ Become(q, Idle)
      /\ UNCHANGED <<now, links, sessions, bornOf>>

LoseReply(q) ==
  /\ "reply" \in Faults
  /\ requests[q].pc \in {"welcome", "cleared"}
  /\ Become(q, Idle)
  /\ UNCHANGED <<now, links, sessions, bornOf, ended, cookies>>

\* The process dies and is started again; Redis and the browsers stay.
Crash ==
  /\ "crash" \in Faults
  /\ \E q \in Requests : requests[q] # Idle
  /\ requests' = [q \in Requests |-> Idle]
  /\ UNCHANGED <<now, links, sessions, bornOf, ended, cookies>>

\* The bounded clock has run out.
Terminating ==
  /\ now = MaxTime
  /\ UNCHANGED vars

Next ==
  \/ Tick \/ Crash \/ Terminating
  \/ \E l \in Links : Issue(l) \/ IssueFails(l)
  \/ \E q \in Requests :
       \/ \E l \in Links : OpenLink(q, l)
       \/ OpenPage(q) \/ OpenLogout(q)
       \/ Consume(q) \/ ConsumeFails(q)
       \/ \E s \in Sessions : Create(q, s) \/ CreateFails(q, s)
       \/ LookUp(q) \/ Check(q) \/ Purge(q) \/ Serve(q)
       \/ Delete(q)
       \/ Receive(q) \/ LoseReply(q)

Spec == Init /\ [][Next]_vars
-----------------------------------------------------------------------------
(* Properties.                                                             *)

\* Types.
TypeOK ==
  /\ now \in Time
  /\ tickets \in [Links -> Nat \cup {None}]
  /\ issued \in [Links -> Time \cup {None}]
  /\ sent \subseteq Links
  /\ sessions \in [Sessions -> Stored \cup {None}]
  /\ bornOf \in [Sessions -> Links \cup {None}]
  /\ ended \subseteq Sessions
  /\ cookies \in [Browsers -> Sessions \cup {None}]
  /\ requests \in [Requests -> Request]

\* However often and from however many browsers a link is opened, and whatever
\* fails or dies between taking the ticket and storing the session, at most
\* one session is ever made of it (ui/handler.go:58-76).
OneSessionPerLink ==
  \A s1, s2 \in Sessions : bornOf[s1] # None /\ bornOf[s1] = bornOf[s2] => s1 = s2

\* A session is made of a link only within the lifetime the bot was told
\* (signedlink/handler.go:89) and the time a login may take that has come
\* within it, whatever is slow or fails.
MadeInTime ==
  \A s \in Sessions :
    sessions[s] # None =>
      sessions[s].created < issued[bornOf[s]] + TicketTTL + MaxRequestTicks

\* A page is served only for a session that has not outlived SessionTTL since
\* its creation, though Redis keeps it longer when the login was slow to store
\* it and the session may be read long before it is checked; and never to a
\* request sent after a logout, unless the logout failed to delete the session.
GrantIsDue ==
  [][\A q \in Requests :
       requests[q].pc # "granted" /\ requests'[q].pc = "granted" =>
         /\ now <= requests[q].created + SessionTTL
         /\ requests[q].session \notin requests[q].over]_vars
=============================================================================

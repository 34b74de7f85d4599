------------------------- MODULE SignedLoginProofs -------------------------
(***************************************************************************)
(* Proofs about SignedLogin, for any number of links, sessions, browsers   *)
(* and requests under way, and for any faults.  What matters is who may    *)
(* still make a session of a link: while its ticket is in Redis nobody has *)
(* it, and while a login has it in hand it is in nobody else's and no      *)
(* session has been made of it.  Who is served rests on GrantInv: what was *)
(* over when a request was sent is over for good.                          *)
(***************************************************************************)
EXTENDS SignedLogin, TLAPS

Holds(q, l) == requests[q].pc = "create" /\ requests[q].link = l

Unborn(l) == \A s \in Sessions : bornOf[s] # l

\* A ticket in Redis has been stored, for TicketTTL from then, and nobody has
\* taken it.
TicketUntaken ==
  \A l \in Links : tickets[l] # None =>
    /\ issued[l] # None
    /\ tickets[l] <= issued[l] + TicketTTL /\ now < tickets[l]
    /\ Unborn(l)
    /\ \A q \in Requests : ~Holds(q, l)

\* A ticket that a login has taken is in no other's hands, and was taken in
\* time.
TakenOnce ==
  \A q \in Requests : requests[q].pc = "create" =>
    /\ requests[q].link \in Links
    /\ issued[requests[q].link] # None
    /\ requests[q].created < issued[requests[q].link] + TicketTTL
    /\ Unborn(requests[q].link)
    /\ \A q2 \in Requests : Holds(q2, requests[q].link) => q2 = q

\* A request is no older than a request may be, and has not taken a ticket
\* before it was sent.
OnTime ==
  \A q \in Requests : requests[q].pc # "idle" =>
    /\ requests[q].started <= now /\ now <= requests[q].started + MaxRequestTicks
    /\ requests[q].pc = "create" => requests[q].started <= requests[q].created

\* A link a session was made of had been issued.
BornOfIssued ==
  \A s \in Sessions : bornOf[s] # None => issued[bornOf[s]] # None

\* A session in Redis was made of a link, in time.
MadeOfLink ==
  \A s \in Sessions : sessions[s] # None =>
    /\ bornOf[s] # None
    /\ sessions[s].created < issued[bornOf[s]] + TicketTTL + MaxRequestTicks

\* A login is about a link that was issued, a page about a session.
NamesBoth ==
  \A q \in Requests :
    /\ requests[q].pc = "consume" => requests[q].link \in Links
    /\ requests[q].pc = "lookup" => requests[q].session \in Sessions

IInv ==
  /\ TypeOK
  /\ TicketUntaken
  /\ TakenOnce
  /\ OnTime
  /\ BornOfIssued
  /\ MadeOfLink
  /\ NamesBoth
  /\ OneSessionPerLink
-----------------------------------------------------------------------------
LEMMA InitIInv == Init => IInv
  <1> SUFFICES ASSUME Init PROVE IInv
    OBVIOUS
  <1> USE SignedLoginAssumption
  <1>1. Idle \in Request
    BY DEF Idle, Request, Time
  <1>2. TypeOK
    BY <1>1 DEF Init, TypeOK, Time
  <1>3. TicketUntaken
    BY DEF Init, TicketUntaken
  <1>4. TakenOnce /\ NamesBoth /\ OnTime
    BY DEF Init, TakenOnce, NamesBoth, OnTime, Idle
  <1>5. BornOfIssued /\ MadeOfLink /\ OneSessionPerLink
    BY DEF Init, BornOfIssued, MadeOfLink, OneSessionPerLink
  <1> QED
    BY <1>2, <1>3, <1>4, <1>5 DEF IInv

\* A request that moves on without taking a ticket or making a session keeps
\* the invariant, whatever tickets and sessions it may have removed.
LEMMA MovesOn ==
  ASSUME IInv,
         NEW q \in Requests, NEW r \in Request,
         Become(q, r),
         r.pc # "create",
         r.pc # "idle" => r.started <= now /\ now <= r.started + MaxRequestTicks,
         r.pc = "consume" => r.link \in Links,
         r.pc = "lookup" => r.session \in Sessions,
         UNCHANGED <<now, issued, sent, bornOf>>,
         tickets' \in [Links -> Nat \cup {None}],
         \A l \in Links : tickets'[l] \in {tickets[l], None},
         sessions' \in [Sessions -> Stored \cup {None}],
         \A s \in Sessions : sessions'[s] \in {sessions[s], None},
         ended' \subseteq Sessions,
         cookies' \in [Browsers -> Sessions \cup {None}]
  PROVE  IInv'
  <1> USE SignedLoginAssumption
  <1>1. TypeOK'
    BY DEF IInv, TypeOK, Become
  <1>2. \A p \in Requests :
          requests'[p] = IF p = q THEN r ELSE requests[p]
    BY DEF IInv, TypeOK, Become
  <1>3. \A p \in Requests : \A l : Holds(p, l)' => Holds(p, l)
    BY <1>2 DEF Holds
  <1>4. TicketUntaken'
    BY <1>3 DEF IInv, TicketUntaken, Unborn
  <1>5. TakenOnce'
    BY <1>2, <1>3 DEF IInv, TakenOnce, Unborn
  <1>6. BornOfIssued' /\ OneSessionPerLink'
    BY DEF IInv, BornOfIssued, OneSessionPerLink
  <1>7. MadeOfLink'
    BY DEF IInv, MadeOfLink
  <1>8. NamesBoth' /\ OnTime'
    BY <1>2 DEF IInv, NamesBoth, OnTime
  <1> QED
    BY <1>1, <1>4, <1>5, <1>6, <1>7, <1>8 DEF IInv

\* A link that is issued for the first time was in nobody's hands.
LEMMA IssueKeeps ==
  ASSUME IInv, NEW l \in Links, issued[l] = None,
         issued' = [issued EXCEPT ![l] = now],
         tickets' \in {tickets, [tickets EXCEPT ![l] = now + TicketTTL]},
         sent' \subseteq Links,
         UNCHANGED <<now, sessions, bornOf, ended, cookies, requests>>
  PROVE  IInv'
  <1> USE SignedLoginAssumption
  <1>1. TypeOK'
    <2>1. now \in Time /\ now + TicketTTL \in Nat
      BY DEF IInv, TypeOK, Time
    <2> QED
      BY <2>1 DEF IInv, TypeOK
  <1>2. \A k \in Links : issued[k] # None => issued'[k] = issued[k]
    BY DEF IInv, TypeOK
  <1>3. now \in Nat /\ issued'[l] = now /\ now # None
    <2>1. now \in Nat
      BY DEF IInv, TypeOK, Time
    <2>2. issued'[l] = now
      BY DEF IInv, TypeOK
    <2> QED
      BY <2>1, <2>2
  <1>4. Unborn(l) /\ \A q \in Requests : ~Holds(q, l)
    BY DEF IInv, BornOfIssued, TakenOnce, Holds, Unborn
  <1>5. TicketUntaken'
    <2> SUFFICES ASSUME NEW k \in Links, tickets'[k] # None
                 PROVE  /\ issued'[k] # None
                        /\ tickets'[k] <= issued'[k] + TicketTTL /\ now < tickets'[k]
                        /\ Unborn(k)
                        /\ \A q \in Requests : ~Holds(q, k)
      BY DEF TicketUntaken, Unborn, Holds
    <2>1. CASE k = l /\ tickets'[k] = now + TicketTTL
      BY <1>3, <1>4, <2>1
    <2>2. CASE tickets'[k] = tickets[k]
      BY <1>2, <2>2 DEF IInv, TicketUntaken
    <2> QED
      BY <2>1, <2>2 DEF IInv, TypeOK
  <1>6. TakenOnce'
    BY <1>2 DEF IInv, TakenOnce, Unborn, Holds
  <1>7. BornOfIssued' /\ MadeOfLink'
    BY <1>2 DEF IInv, BornOfIssued, MadeOfLink, TypeOK
  <1>8. NamesBoth' /\ OneSessionPerLink' /\ OnTime'
    BY DEF IInv, NamesBoth, OneSessionPerLink, OnTime
  <1> QED
    BY <1>1, <1>5, <1>6, <1>7, <1>8 DEF IInv

\* The login that holds the ticket is the only one that makes a session of it.
LEMMA CreateKeeps ==
  ASSUME IInv, NEW q \in Requests, NEW s \in Sessions, NEW r \in Request,
         NEW made \in Made(requests[q]),
         requests[q].pc = "create",
         bornOf[s] = None,
         bornOf' = [bornOf EXCEPT ![s] = requests[q].link],
         sessions' \in {sessions, [sessions EXCEPT ![s] = made]},
         Become(q, r),
         r.pc \notin {"create", "consume", "lookup"},
         r.pc # "idle" => r.started = requests[q].started,
         UNCHANGED <<now, links, ended, cookies>>
  PROVE  IInv'
  <1> USE SignedLoginAssumption DEF links
  <1>1. /\ now \in Nat
        /\ requests[q] \in Request
        /\ made \in Stored
        /\ made.created <= now
    <2>1. PICK t \in requests[q].created .. now :
            made = [created |-> t, exp |-> now + SessionTTL]
      BY DEF Made
    <2>2. now \in Time /\ requests[q] \in Request
      BY DEF IInv, TypeOK
    <2>3. t \in Time
      BY <2>2 DEF Request, Time
    <2> QED
      BY <2>1, <2>2, <2>3 DEF Stored, Time
  <1>2. PICK l \in Links : l = requests[q].link
    BY DEF IInv, TakenOnce
  <1>3. TypeOK'
    BY <1>1, <1>2 DEF IInv, TypeOK, Become
  <1>4. \A p \in Requests :
          requests'[p] = IF p = q THEN r ELSE requests[p]
    BY DEF IInv, TypeOK, Become
  <1>5. \A p \in Requests : \A k : Holds(p, k)' => Holds(p, k) /\ p # q
    BY <1>4 DEF Holds
  <1>6. \A z \in Sessions : bornOf'[z] = IF z = s THEN l ELSE bornOf[z]
    BY <1>2 DEF IInv, TypeOK
  <1>7. \A k : k # l /\ Unborn(k) => Unborn(k)'
    BY <1>6 DEF Unborn
  <1>8. /\ issued[l] # None /\ tickets[l] = None /\ Unborn(l)
        /\ requests[q].created < issued[l] + TicketTTL
        /\ \A p \in Requests : ~Holds(p, l)'
    BY <1>2, <1>5 DEF IInv, TakenOnce, TicketUntaken, Holds
  <1>8a. made.created < issued[l] + TicketTTL + MaxRequestTicks
    <2>1. /\ requests[q].started <= requests[q].created
          /\ now <= requests[q].started + MaxRequestTicks
      BY DEF IInv, OnTime
    <2>2. issued[l] \in Nat /\ requests[q].created \in Nat /\ requests[q].started \in Nat
          /\ made.created \in Nat
      BY <1>1, <1>8 DEF IInv, TypeOK, Time, Request, Stored
    <2> QED
      BY <1>1, <1>8, <2>1, <2>2
  <1>9. TicketUntaken'
    BY <1>5, <1>7, <1>8 DEF IInv, TicketUntaken
  <1>10. TakenOnce'
    <2> SUFFICES ASSUME NEW p \in Requests, NEW k,
                        requests'[p].pc = "create", requests'[p].link = k
                 PROVE  /\ k \in Links
                        /\ issued[k] # None
                        /\ requests'[p].created < issued[k] + TicketTTL
                        /\ Unborn(k)'
                        /\ \A p2 \in Requests : Holds(p2, k)' => p2 = p
      BY DEF TakenOnce
    <2>1. p # q /\ requests'[p] = requests[p] /\ k # l
      BY <1>4, <1>8 DEF Holds
    <2> QED
      BY <1>5, <1>7, <2>1 DEF IInv, TakenOnce
  <1>11. BornOfIssued' /\ OneSessionPerLink'
    BY <1>6, <1>8 DEF IInv, BornOfIssued, OneSessionPerLink, Unborn
  <1>12. MadeOfLink'
    <2> SUFFICES ASSUME NEW z \in Sessions, sessions'[z] # None
                 PROVE  /\ bornOf'[z] # None
                        /\ sessions'[z].created
                             < issued[bornOf'[z]] + TicketTTL + MaxRequestTicks
      BY DEF MadeOfLink
    <2>1. CASE z = s
      <3>1. sessions[s] = None
        BY DEF IInv, MadeOfLink
      <3>2. sessions'[z] = made
        BY <2>1, <3>1 DEF IInv, TypeOK
      <3> QED
        BY <1>6, <1>8, <1>8a, <2>1, <3>2
    <2>2. CASE z # s
      BY <1>6, <2>2 DEF IInv, MadeOfLink, TypeOK
    <2> QED
      BY <2>1, <2>2
  <1>13. NamesBoth' /\ OnTime'
    BY <1>4 DEF IInv, NamesBoth, OnTime
  <1> QED
    BY <1>3, <1>9, <1>10, <1>11, <1>12, <1>13 DEF IInv

\* A ticket that is taken leaves Redis for one login's hands.
LEMMA ConsumeKeeps == ASSUME IInv, NEW q \in Requests, Consume(q) PROVE IInv'
  <1> USE SignedLoginAssumption DEF Consume, GetDelJSON, Become
  <1> DEFINE r == [requests[q] EXCEPT !.pc = "create", !.created = now]
  <1>1. now \in Time /\ requests[q] \in Request /\ r \in Request
    BY DEF IInv, TypeOK, Request
  <1>2. PICK l \in Links : l = requests[q].link
    BY DEF IInv, NamesBoth
  <1>3. TypeOK'
    BY <1>1 DEF IInv, TypeOK
  <1>4. PICK r0 \in Request : r0 = r
    BY <1>1
  <1>5. /\ \A p \in Requests : requests'[p] = IF p = q THEN r0 ELSE requests[p]
        /\ r0.pc = "create" /\ r0.link = l /\ r0.created = now
    BY <1>1, <1>2, <1>4 DEF IInv, TypeOK, Request
  <1>6. /\ \A k \in Links : tickets'[k] = IF k = l THEN None ELSE tickets[k]
        /\ tickets[l] # None
    BY <1>2 DEF IInv, TypeOK
  <1>7. /\ issued[l] # None /\ Unborn(l) /\ now < issued[l] + TicketTTL
        /\ \A p \in Requests : ~Holds(p, l)
    BY <1>1, <1>6 DEF IInv, TicketUntaken, TypeOK, Time
  <1>8. \A p \in Requests : \A k : Holds(p, k)' <=> (p = q /\ k = l) \/ (p # q /\ Holds(p, k))
    BY <1>5 DEF Holds
  <1>9. TicketUntaken'
    BY <1>6, <1>8 DEF IInv, TicketUntaken, Unborn
  <1>10. TakenOnce'
    <2> SUFFICES ASSUME NEW p \in Requests, NEW k,
                        requests'[p].pc = "create", requests'[p].link = k
                 PROVE  /\ k \in Links
                        /\ issued[k] # None
                        /\ requests'[p].created < issued[k] + TicketTTL
                        /\ Unborn(k)
                        /\ \A p2 \in Requests : Holds(p2, k)' => p2 = p
      BY DEF TakenOnce, Unborn
    <2>1. CASE p = q
      BY <1>5, <1>7, <1>8, <2>1
    <2>2. CASE p # q
      <3>1. requests[p].pc = "create" /\ requests[p].link = k /\ requests'[p] = requests[p]
        BY <1>5, <2>2
      <3>2. k # l
        BY <1>7, <3>1 DEF Holds
      <3> QED
        BY <1>8, <3>1, <3>2 DEF IInv, TakenOnce
    <2> QED
      BY <2>1, <2>2
  <1>11. BornOfIssued' /\ MadeOfLink' /\ OneSessionPerLink'
    BY DEF IInv, BornOfIssued, MadeOfLink, OneSessionPerLink
  <1>12. NamesBoth' /\ OnTime'
    <2>1. requests[q].started <= now /\ now <= requests[q].started + MaxRequestTicks
      BY DEF IInv, OnTime
    <2>2. r0.started = requests[q].started
      BY <1>1, <1>4 DEF Request
    <2> QED
      BY <1>5, <2>1, <2>2 DEF IInv, NamesBoth, OnTime
  <1> QED
    BY <1>3, <1>9, <1>10, <1>11, <1>12 DEF IInv

\* Time only takes tickets and sessions away.
LEMMA TickKeeps == ASSUME IInv, Tick PROVE IInv'
  <1> USE SignedLoginAssumption DEF Tick
  <1>1. now \in Nat /\ now' = now + 1 /\ now' \in Time
    BY DEF IInv, TypeOK, Time
  <1>2. /\ \A l \in Links : tickets'[l] # None => tickets'[l] = tickets[l] /\ now' < tickets[l]
        /\ \A s \in Sessions : sessions'[s] \in {sessions[s], None}
    BY <1>1 DEF IInv, TypeOK
  <1>3. TypeOK'
    BY <1>1 DEF IInv, TypeOK
  <1>4. TicketUntaken'
    BY <1>2 DEF IInv, TicketUntaken, Unborn, Holds
  <1>5. TakenOnce' /\ BornOfIssued' /\ NamesBoth' /\ OneSessionPerLink'
    BY DEF IInv, TakenOnce, BornOfIssued, NamesBoth, OneSessionPerLink, Unborn, Holds
  <1>6. MadeOfLink'
    BY <1>2 DEF IInv, MadeOfLink
  <1>7. OnTime'
    <2> SUFFICES ASSUME NEW q \in Requests, requests[q].pc # "idle"
                 PROVE  /\ requests[q].started <= now'
                        /\ now' <= requests[q].started + MaxRequestTicks
      BY DEF IInv, OnTime
    <2>1. requests[q].started \in Nat
      BY DEF IInv, TypeOK, Request, Time
    <2> QED
      BY <1>1, <2>1 DEF IInv, OnTime
  <1> QED
    BY <1>3, <1>4, <1>5, <1>6, <1>7 DEF IInv
-----------------------------------------------------------------------------
\* The steps that MovesOn covers.
LEMMA RequestKeeps ==
  ASSUME IInv, NEW q \in Requests,
         \/ \E l \in Links : OpenLink(q, l)
         \/ OpenPage(q) \/ OpenLogout(q)
         \/ ConsumeFails(q)
         \/ LookUp(q) \/ Check(q) \/ Purge(q) \/ Serve(q)
         \/ Delete(q) \/ Receive(q) \/ LoseReply(q)
  PROVE  IInv'
  <1> USE SignedLoginAssumption DEF links, Perhaps, GetDelJSON
  <1>1. /\ requests[q] \in Request /\ now \in Time /\ ended \subseteq Sessions
        /\ cookies[BrowserOf[q]] \in Sessions \cup {None}
        /\ 0 \in Time
        /\ now <= now + MaxRequestTicks
        /\ requests[q].pc # "idle" =>
             requests[q].started <= now /\ now <= requests[q].started + MaxRequestTicks
    BY DEF IInv, TypeOK, OnTime, Time
  <1>2. Idle \in Request /\ Idle.pc = "idle"
    BY <1>1 DEF Idle, Request
  <1>3. ASSUME NEW l \in Links, OpenLink(q, l) PROVE IInv'
    <2> DEFINE r == [[Idle EXCEPT !.pc = "consume", !.link = l]
                       EXCEPT !.started = now, !.over = ended]
    <2>1. r \in Request /\ r.pc = "consume" /\ r.link = l /\ r.started = now
      BY <1>1 DEF Idle, Request
    <2>2. r.started <= now /\ now <= r.started + MaxRequestTicks
      BY <1>1, <2>1 DEF Time
    <2> HIDE DEF r
    <2>3. Become(q, r)
      BY <1>3 DEF r, OpenLink, Send
    <2> QED
      BY <1>3, <2>1, <2>2, <2>3, MovesOn DEF OpenLink, Send, IInv, TypeOK
  <1>4. ASSUME OpenPage(q) PROVE IInv'
    <2> DEFINE r == [[Idle EXCEPT !.pc = "lookup", !.session = cookies[BrowserOf[q]]]
                       EXCEPT !.started = now, !.over = ended]
    <2>1. r \in Request /\ r.pc = "lookup" /\ r.session \in Sessions /\ r.started = now
      BY <1>1, <1>4 DEF OpenPage, Idle, Request
    <2>2. r.started <= now /\ now <= r.started + MaxRequestTicks
      BY <1>1, <2>1 DEF Time
    <2> HIDE DEF r
    <2>3. Become(q, r)
      BY <1>4 DEF r, OpenPage, Send
    <2> QED
      BY <1>4, <2>1, <2>2, <2>3, MovesOn DEF OpenPage, Send, IInv, TypeOK
  <1>5. ASSUME OpenLogout(q) PROVE IInv'
    <2> DEFINE r == [[Idle EXCEPT !.pc = "delete", !.session = cookies[BrowserOf[q]]]
                       EXCEPT !.started = now, !.over = ended]
    <2>1. r \in Request /\ r.pc = "delete" /\ r.started = now
      BY <1>1 DEF Idle, Request
    <2>2. r.started <= now /\ now <= r.started + MaxRequestTicks
      BY <1>1, <2>1 DEF Time
    <2> HIDE DEF r
    <2>3. Become(q, r)
      BY <1>5 DEF r, OpenLogout, Send
    <2> QED
      BY <1>5, <2>1, <2>2, <2>3, MovesOn DEF OpenLogout, Send, IInv, TypeOK
  <1>6. ASSUME ConsumeFails(q) PROVE IInv'
    <2>1. /\ tickets' \in [Links -> Nat \cup {None}]
          /\ \A l \in Links : tickets'[l] \in {tickets[l], None}
      BY <1>6 DEF ConsumeFails, IInv, TypeOK
    <2> QED
      BY <1>2, <1>6, <2>1, MovesOn DEF ConsumeFails, IInv, TypeOK
  <1>7. ASSUME LookUp(q) PROVE IInv'
    <2>1. CASE Become(q, Idle)
      BY <1>2, <1>7, <2>1, MovesOn DEF LookUp, IInv, TypeOK
    <2>2. CASE sessions[requests[q].session] # None
      <3> DEFINE r == [requests[q] EXCEPT !.pc = "check",
                         !.created = sessions[requests[q].session].created]
      <3>1. requests[q].session \in Sessions
        BY <1>7 DEF LookUp, IInv, NamesBoth
      <3>2. sessions[requests[q].session] \in Stored
        BY <2>2, <3>1 DEF IInv, TypeOK
      <3>3. r \in Request /\ r.pc = "check" /\ r.started = requests[q].started
        BY <1>1, <3>2 DEF Request, Stored
      <3>4. CASE Become(q, r)
        BY <1>1, <1>7, <3>3, <3>4, MovesOn DEF LookUp, IInv, TypeOK
      <3> QED
        BY <1>7, <2>1, <3>4 DEF LookUp
    <2> QED
      BY <1>7, <2>1, <2>2 DEF LookUp
  <1>8. ASSUME Check(q) PROVE IInv'
    <2> DEFINE r == [requests[q] EXCEPT
                       !.pc = IF Expired(requests[q].created) THEN "purge" ELSE "granted"]
    <2>1. /\ r \in Request /\ r.pc \in {"purge", "granted"}
          /\ r.started = requests[q].started
      BY <1>1 DEF Request
    <2> QED
      BY <1>1, <1>8, <2>1, MovesOn DEF Check, IInv, TypeOK
  <1>9. ASSUME Purge(q) PROVE IInv'
    <2>1. /\ sessions' \in [Sessions -> Stored \cup {None}]
          /\ \A s \in Sessions : sessions'[s] \in {sessions[s], None}
      BY <1>9 DEF Purge, IInv, TypeOK
    <2> QED
      BY <1>2, <1>9, <2>1, MovesOn DEF Purge, IInv, TypeOK
  <1>10. ASSUME Serve(q) \/ LoseReply(q) PROVE IInv'
    BY <1>2, <1>10, MovesOn DEF Serve, LoseReply, IInv, TypeOK
  <1>11. ASSUME Delete(q) PROVE IInv'
    <2> DEFINE r == [requests[q] EXCEPT !.pc = "cleared"]
    <2>1. r \in Request /\ r.pc = "cleared" /\ r.started = requests[q].started
      BY <1>1 DEF Request
    <2>2. /\ sessions' \in [Sessions -> Stored \cup {None}]
          /\ \A s \in Sessions : sessions'[s] \in {sessions[s], None}
      BY <1>11 DEF Delete, IInv, TypeOK
    <2> QED
      BY <1>1, <1>11, <2>1, <2>2, MovesOn DEF Delete, IInv, TypeOK
  <1>12. ASSUME Receive(q) PROVE IInv'
    <2>1. /\ ended' \subseteq Sessions
          /\ cookies' \in [Browsers -> Sessions \cup {None}]
      BY <1>1, <1>12 DEF Receive, IInv, TypeOK, Request
    <2> QED
      BY <1>2, <1>12, <2>1, MovesOn DEF Receive, IInv, TypeOK
  <1> QED
    BY <1>3, <1>4, <1>5, <1>6, <1>7, <1>8, <1>9, <1>10, <1>11, <1>12

\* The inductive invariant holds of every behaviour.
THEOREM Invariance == Spec => []IInv
  <1>1. IInv /\ [Next]_vars => IInv'
    <2> SUFFICES ASSUME IInv, [Next]_vars PROVE IInv'
      OBVIOUS
    <2> USE SignedLoginAssumption
    <2>1. ASSUME UNCHANGED vars PROVE IInv'
      BY <2>1 DEF vars, links, IInv, TypeOK, TicketUntaken, TakenOnce, BornOfIssued,
                  MadeOfLink, NamesBoth, OneSessionPerLink, OnTime, Unborn, Holds
    <2>2. ASSUME Crash PROVE IInv'
      <3>1. TypeOK'
        BY <2>2 DEF Crash, links, IInv, TypeOK, Idle, Request, Time
      <3>2. \A q \in Requests : requests'[q].pc = "idle"
        BY <2>2 DEF Crash, Idle
      <3>3. TicketUntaken' /\ TakenOnce' /\ NamesBoth' /\ OnTime'
        BY <2>2, <3>2 DEF Crash, links, IInv, TicketUntaken, TakenOnce, NamesBoth, OnTime,
                          Unborn, Holds
      <3>4. BornOfIssued' /\ MadeOfLink' /\ OneSessionPerLink'
        BY <2>2 DEF Crash, links, IInv, BornOfIssued, MadeOfLink, OneSessionPerLink
      <3> QED
        BY <3>1, <3>3, <3>4 DEF IInv
    <2>3. ASSUME NEW l \in Links, Issue(l) \/ IssueFails(l) PROVE IInv'
      <3>1. sent' \subseteq Links
        BY <2>3 DEF Issue, IssueFails, IInv, TypeOK
      <3> QED
        BY <2>3, <3>1, IssueKeeps DEF Issue, IssueFails, Perhaps
    <2>4. ASSUME NEW q \in Requests, NEW s \in Sessions, Create(q, s) \/ CreateFails(q, s)
          PROVE  IInv'
      <3> DEFINE r == [requests[q] EXCEPT !.pc = "welcome", !.session = s]
      <3>1. /\ r \in Request /\ r.pc = "welcome" /\ r.started = requests[q].started
            /\ Idle \in Request /\ Idle.pc = "idle"
        <4>1. requests[q] \in Request
          BY DEF IInv, TypeOK
        <4>2. r \in Request /\ r.pc = "welcome" /\ r.started = requests[q].started
          BY <4>1 DEF Request
        <4>3. Idle \in Request /\ Idle.pc = "idle"
          BY DEF Request, Idle, Time
        <4> QED
          BY <4>2, <4>3
      <3>2. CASE Create(q, s)
        BY <3>1, <3>2, CreateKeeps DEF Create
      <3>3. CASE CreateFails(q, s)
        BY <3>1, <3>3, CreateKeeps DEF CreateFails, Perhaps
      <3> QED
        BY <2>4, <3>2, <3>3
    <2>5. CASE Tick
      BY <2>5, TickKeeps
    <2>6. ASSUME NEW q \in Requests, Consume(q) PROVE IInv'
      BY <2>6, ConsumeKeeps
    <2> QED
      BY <2>1, <2>2, <2>3, <2>4, <2>5, <2>6, RequestKeeps DEF Next, Terminating
  <1> QED
    BY InitIInv, <1>1, PTL DEF Spec

\* Types hold.
THEOREM TypeCorrect == Spec => []TypeOK
  BY Invariance, PTL DEF IInv

\* No link ever makes two sessions (ui/handler.go:58-76), whatever fails.
THEOREM LinksAreOneTime == Spec => []OneSessionPerLink
  BY Invariance, PTL DEF IInv

\* A session was made within the lifetime of its link.
THEOREM SessionsMadeInTime == Spec => []MadeInTime
  <1>1. IInv => MadeInTime
    BY DEF IInv, MadeOfLink, MadeInTime
  <1> QED
    BY Invariance, <1>1, PTL
-----------------------------------------------------------------------------
(* Who is served.                                                          *)

\* What was over when a browser was told so stays over: its id is taken.
GoneForGood == \A s \in ended : sessions[s] = None /\ bornOf[s] # None

\* The sessions that browsers and requests know have been made.
KnownIsBorn ==
  /\ \A b \in Browsers : cookies[b] # None => bornOf[cookies[b]] # None
  /\ \A q \in Requests : requests[q].session # None => bornOf[requests[q].session] # None

\* A page about to be checked has read its session, which was not over then.
CheckedIsLive ==
  \A q \in Requests :
    /\ requests[q].over \subseteq ended
    /\ requests[q].pc = "check" => requests[q].session \notin requests[q].over

GrantInv == GoneForGood /\ KnownIsBorn /\ CheckedIsLive

\* A request that moves on.  Sessions go, or come under a new id.
LEMMA GrantMovesOn ==
  ASSUME IInv, GrantInv, NEW q \in Requests, NEW r,
         Become(q, r),
         r.session # None => bornOf'[r.session] # None,
         r.over \subseteq ended',
         r.pc = "check" => r.session \notin r.over,
         \A s \in Sessions : bornOf[s] # None =>
           bornOf'[s] # None /\ sessions'[s] \in {sessions[s], None},
         ended \subseteq ended',
         \A s \in ended' \ ended :
           s \in Sessions /\ sessions[s] = None /\ bornOf[s] # None,
         \A b \in Browsers : cookies'[b] # None => bornOf'[cookies'[b]] # None
  PROVE  GrantInv'
  <1>1. \A p \in Requests : requests'[p] = IF p = q THEN r ELSE requests[p]
    BY DEF IInv, TypeOK, Become
  <1>2. /\ \A p \in Requests : requests[p].session \in Sessions \cup {None}
        /\ ended \subseteq Sessions
    BY DEF IInv, TypeOK, Request
  <1>3. GoneForGood'
    BY <1>2 DEF GrantInv, GoneForGood
  <1>4. KnownIsBorn'
    BY <1>1, <1>2 DEF GrantInv, KnownIsBorn
  <1>5. CheckedIsLive'
    BY <1>1 DEF GrantInv, CheckedIsLive
  <1> QED
    BY <1>3, <1>4, <1>5 DEF GrantInv

\* A request that is sent for a session its browser knows, or for none.
LEMMA SentKeeps ==
  ASSUME IInv, GrantInv, NEW q \in Requests, NEW begun \in Request,
         begun.pc # "check", begun.session \in {None, cookies[BrowserOf[q]]},
         Send(q, begun)
  PROVE  GrantInv'
  <1> DEFINE r == [begun EXCEPT !.started = now, !.over = ended]
  <1>1. r.pc = begun.pc /\ r.session = begun.session /\ r.over = ended
    BY DEF Request
  <1>2. Become(q, r) /\ UNCHANGED <<sessions, bornOf, ended, cookies>>
    BY DEF Send
  <1>3. r.session # None => bornOf[r.session] # None
    BY <1>1, SignedLoginAssumption DEF GrantInv, KnownIsBorn
  <1> HIDE DEF r
  <1> QED
    BY <1>1, <1>2, <1>3, GrantMovesOn DEF GrantInv, KnownIsBorn

\* A request that goes on about the same session.
LEMMA GoesOn ==
  ASSUME IInv, GrantInv, NEW q \in Requests, NEW r,
         Become(q, r), r.session = requests[q].session, r.over = requests[q].over,
         r.pc # "check", UNCHANGED <<bornOf, ended, cookies>>,
         \A s \in Sessions : sessions'[s] \in {sessions[s], None}
  PROVE  GrantInv'
  <1>1. /\ r.session # None => bornOf[r.session] # None
        /\ r.over \subseteq ended
    BY DEF GrantInv, KnownIsBorn, CheckedIsLive
  <1> QED
    BY <1>1, GrantMovesOn DEF GrantInv, KnownIsBorn

\* A request that is over.
LEMMA IsOver ==
  ASSUME IInv, GrantInv, NEW q \in Requests,
         Become(q, Idle), UNCHANGED <<bornOf, ended, cookies>>,
         \A s \in Sessions : sessions'[s] \in {sessions[s], None}
  PROVE  GrantInv'
  <1>1. Idle.pc = "idle" /\ Idle.session = None /\ Idle.over = {}
    BY DEF Idle
  <1> QED
    BY <1>1, GrantMovesOn DEF GrantInv, KnownIsBorn

LEMMA LoginGrants ==
  ASSUME IInv, GrantInv, NEW q \in Requests,
         \/ Consume(q) \/ ConsumeFails(q)
         \/ \E s \in Sessions : Create(q, s) \/ CreateFails(q, s)
  PROVE  GrantInv'
  <1>1. requests[q] \in Request /\ Idle.pc = "idle" /\ Idle.session = None /\ Idle.over = {}
    BY DEF IInv, TypeOK, Idle
  <1>2. CASE Consume(q)
    <2> DEFINE r == [requests[q] EXCEPT !.pc = "create", !.created = now]
    <2>1. r.pc = "create" /\ r.session = requests[q].session /\ r.over = requests[q].over
      BY <1>1 DEF Request
    <2>2. Become(q, r) /\ UNCHANGED <<sessions, bornOf, ended, cookies>>
      BY <1>2 DEF Consume
    <2> HIDE DEF r
    <2> QED
      BY <2>1, <2>2, GoesOn
  <1>3. CASE ConsumeFails(q)
    BY <1>3, IsOver DEF ConsumeFails
  <1>4. ASSUME NEW s \in Sessions, Create(q, s) \/ CreateFails(q, s) PROVE GrantInv'
    <2> DEFINE r == [requests[q] EXCEPT !.pc = "welcome", !.session = s]
    <2>1. r.pc = "welcome" /\ r.session = s /\ r.over = requests[q].over
      BY <1>1 DEF Request
    <2>2. /\ bornOf[s] = None /\ bornOf' = [bornOf EXCEPT ![s] = requests[q].link]
          /\ requests[q].pc = "create" /\ UNCHANGED <<ended, cookies>>
          /\ \A z \in Sessions \ {s} : sessions'[z] = sessions[z]
          /\ Become(q, r) \/ Become(q, Idle)
      BY <1>4 DEF Create, CreateFails, Perhaps, IInv, TypeOK
    <2>3. requests[q].link # None
      BY <2>2, SignedLoginAssumption DEF IInv, TakenOnce
    <2>4. /\ bornOf'[s] # None
          /\ \A z \in Sessions : bornOf[z] # None =>
               z # s /\ bornOf'[z] # None /\ sessions'[z] = sessions[z]
      BY <2>2, <2>3 DEF IInv, TypeOK
    <2>5. \A b \in Browsers : cookies'[b] # None => bornOf'[cookies'[b]] # None
      BY <2>2, <2>4 DEF IInv, TypeOK, GrantInv, KnownIsBorn
    <2>6. requests[q].over \subseteq ended
      BY DEF GrantInv, CheckedIsLive
    <2> HIDE DEF r
    <2>7. CASE Become(q, r)
      BY <2>1, <2>2, <2>4, <2>5, <2>6, <2>7, GrantMovesOn
    <2>8. CASE Become(q, Idle)
      BY <1>1, <2>2, <2>4, <2>5, <2>8, GrantMovesOn
    <2> QED
      BY <2>2, <2>7, <2>8
  <1> QED
    BY <1>2, <1>3, <1>4

LEMMA PageGrants ==
  ASSUME IInv, GrantInv, NEW q \in Requests,
         LookUp(q) \/ Check(q) \/ Purge(q) \/ Serve(q) \/ Delete(q) \/ LoseReply(q)
  PROVE  GrantInv'
  <1>1. requests[q] \in Request /\ Idle.pc = "idle"
    BY DEF IInv, TypeOK, Idle
  <1>2. CASE LookUp(q)
    <2>1. CASE Become(q, Idle)
      BY <1>2, <2>1, IsOver DEF LookUp
    <2>2. CASE sessions[requests[q].session] # None
      <3> DEFINE r == [requests[q] EXCEPT !.pc = "check",
                         !.created = sessions[requests[q].session].created]
      <3>1. r.pc = "check" /\ r.session = requests[q].session /\ r.over = requests[q].over
        BY <1>1 DEF Request
      <3>2. r.session \notin r.over /\ r.over \subseteq ended
        BY <2>2, <3>1 DEF GrantInv, GoneForGood, CheckedIsLive
      <3>3. r.session # None => bornOf[r.session] # None
        BY <3>1 DEF GrantInv, KnownIsBorn
      <3> HIDE DEF r
      <3>4. CASE Become(q, r)
        BY <1>2, <3>1, <3>2, <3>3, <3>4, GrantMovesOn DEF LookUp, GrantInv, KnownIsBorn
      <3> QED
        BY <1>2, <2>1, <3>4 DEF LookUp, r
    <2> QED
      BY <1>2, <2>1, <2>2 DEF LookUp
  <1>3. CASE Check(q)
    <2> DEFINE r == [requests[q] EXCEPT
                       !.pc = IF Expired(requests[q].created) THEN "purge" ELSE "granted"]
    <2>1. r.pc # "check" /\ r.session = requests[q].session /\ r.over = requests[q].over
      BY <1>1 DEF Request
    <2>2. Become(q, r) /\ UNCHANGED <<sessions, bornOf, ended, cookies>>
      BY <1>3 DEF Check
    <2> HIDE DEF r
    <2> QED
      BY <2>1, <2>2, GoesOn
  <1>4. CASE Purge(q)
    <2>1. \A s \in Sessions : sessions'[s] \in {sessions[s], None}
      BY <1>4 DEF Purge, Perhaps, IInv, TypeOK
    <2> QED
      BY <1>4, <2>1, IsOver DEF Purge
  <1>5. CASE Serve(q) \/ LoseReply(q)
    BY <1>5, IsOver DEF Serve, LoseReply
  <1>6. CASE Delete(q)
    <2> DEFINE r == [requests[q] EXCEPT !.pc = "cleared"]
    <2>1. r.pc = "cleared" /\ r.session = requests[q].session /\ r.over = requests[q].over
      BY <1>1 DEF Request
    <2>2. \A s \in Sessions : sessions'[s] \in {sessions[s], None}
      BY <1>6 DEF Delete, Perhaps, IInv, TypeOK
    <2>3. Become(q, r) /\ UNCHANGED <<bornOf, ended, cookies>>
      BY <1>6 DEF Delete
    <2> HIDE DEF r
    <2> QED
      BY <2>1, <2>2, <2>3, GoesOn
  <1> QED
    BY <1>2, <1>3, <1>4, <1>5, <1>6

LEMMA ReceiveGrants ==
  ASSUME IInv, GrantInv, NEW q \in Requests, Receive(q)
  PROVE  GrantInv'
  <1> USE SignedLoginAssumption
  <1>1. /\ requests[q].session \in Sessions \cup {None}
        /\ requests[q].session # None => bornOf[requests[q].session] # None
    BY DEF IInv, TypeOK, Request, GrantInv, KnownIsBorn
  <1>2. Become(q, Idle) /\ UNCHANGED <<sessions, bornOf>>
    BY DEF Receive
  <1>3. Idle.pc = "idle" /\ Idle.session = None /\ Idle.over = {}
    BY DEF Idle
  <1>4. /\ ended \subseteq ended'
        /\ \A s \in ended' \ ended : s = requests[q].session /\ s # None /\ sessions[s] = None
    BY DEF Receive
  <1>5. \A b \in Browsers : cookies'[b] \in {cookies[b], requests[q].session, None}
    BY DEF Receive, IInv, TypeOK
  <1>6. \A b \in Browsers : cookies'[b] # None => bornOf'[cookies'[b]] # None
    BY <1>1, <1>2, <1>5 DEF GrantInv, KnownIsBorn
  <1> QED
    BY <1>1, <1>2, <1>3, <1>4, <1>6, GrantMovesOn

LEMMA NextGrants == IInv /\ GrantInv /\ [Next]_vars => GrantInv'
  <1> SUFFICES ASSUME IInv, GrantInv, [Next]_vars PROVE GrantInv'
    OBVIOUS
  <1>0. Idle \in Request /\ Idle.session = None
    BY SignedLoginAssumption DEF Idle, Request, Time
  <1>1. ASSUME NEW q \in Requests, NEW l \in Links, OpenLink(q, l)
        PROVE  GrantInv'
    <2> DEFINE r == [Idle EXCEPT !.pc = "consume", !.link = l]
    <2>1. r \in Request /\ r.pc = "consume" /\ r.session = None
      BY <1>0 DEF Request
    <2>2. Send(q, r)
      BY <1>1 DEF OpenLink
    <2> HIDE DEF r
    <2> QED
      BY <2>1, <2>2, SentKeeps
  <1>2. ASSUME NEW q \in Requests, OpenPage(q) \/ OpenLogout(q)
        PROVE  GrantInv'
    <2> DEFINE s == cookies[BrowserOf[q]]
               r(pc) == [Idle EXCEPT !.pc = pc, !.session = s]
    <2>1. s \in Sessions \cup {None}
      BY SignedLoginAssumption DEF IInv, TypeOK
    <2>2. \A pc \in {"lookup", "delete"} :
            r(pc) \in Request /\ r(pc).pc = pc /\ r(pc).session = s
      BY <1>0, <2>1 DEF Request
    <2>3. \E pc \in {"lookup", "delete"} : Send(q, r(pc))
      BY <1>2 DEF OpenPage, OpenLogout
    <2> HIDE DEF r
    <2> QED
      BY <2>2, <2>3, SentKeeps
  <1>3. CASE Crash
    <2>1. /\ \A q \in Requests : requests'[q] = Idle
          /\ UNCHANGED <<sessions, bornOf, ended, cookies>>
      BY <1>3 DEF Crash
    <2>2. Idle.pc = "idle" /\ Idle.session = None /\ Idle.over = {}
      BY DEF Idle
    <2> QED
      BY <2>1, <2>2 DEF GrantInv, GoneForGood, KnownIsBorn, CheckedIsLive
  <1>4. CASE Tick \/ UNCHANGED vars \/ \E l \in Links : Issue(l) \/ IssueFails(l)
    <2>1. /\ UNCHANGED <<bornOf, ended, cookies, requests>>
          /\ \A s \in Sessions : sessions'[s] \in {sessions[s], None}
      BY <1>4 DEF Tick, vars, Issue, IssueFails, IInv, TypeOK
    <2>2. ended \subseteq Sessions
      BY DEF IInv, TypeOK
    <2> QED
      BY <2>1, <2>2 DEF GrantInv, GoneForGood, KnownIsBorn, CheckedIsLive
  <1> QED
    BY <1>1, <1>2, <1>3, <1>4, LoginGrants, PageGrants, ReceiveGrants DEF Next, Terminating

\* Whatever is slow, fails or dies, and however logins and logouts cross with
\* it: a page is served only to a request whose session is within SessionTTL
\* of its creation and was not over when the request was sent.
THEOREM OnlyLiveSessionsServed == Spec => GrantIsDue
  <1> DEFINE Due == \A q \in Requests :
               requests[q].pc # "granted" /\ requests'[q].pc = "granted" =>
                 /\ now <= requests[q].created + SessionTTL
                 /\ requests[q].session \notin requests[q].over
  <1>1. Init => GrantInv
    BY SignedLoginAssumption
       DEF Init, GrantInv, GoneForGood, KnownIsBorn, CheckedIsLive, Idle
  <1>2. IInv /\ GrantInv /\ [Next]_vars => [Due]_vars
    <2> SUFFICES ASSUME IInv, GrantInv, Next, NEW q \in Requests,
                        requests[q].pc # "granted", requests'[q].pc = "granted"
                 PROVE  /\ now <= requests[q].created + SessionTTL
                        /\ requests[q].session \notin requests[q].over
      OBVIOUS
    <2>1. requests \in [Requests -> Request] /\ requests[q] \in Request
      BY DEF IInv, TypeOK
    <2>2. ASSUME NEW p \in Requests, NEW r, Become(p, r), r.pc # "granted" PROVE FALSE
      BY <2>1, <2>2 DEF Become
    <2>3. Idle.pc = "idle"
      BY DEF Idle
    <2>4. ASSUME NEW p \in Requests, \E l \in Links : OpenLink(p, l) PROVE FALSE
      <3>1. PICK l \in Links : OpenLink(p, l)
        BY <2>4
      <3> DEFINE r == [[Idle EXCEPT !.pc = "consume", !.link = l]
                         EXCEPT !.started = now, !.over = ended]
      <3>2. r.pc = "consume"
        BY DEF Idle
      <3> QED
        BY <3>1, <3>2, <2>2 DEF OpenLink, Send
    <2>5. ASSUME NEW p \in Requests, OpenPage(p) \/ OpenLogout(p) PROVE FALSE
      <3> DEFINE r(pc) == [[Idle EXCEPT !.pc = pc, !.session = cookies[BrowserOf[p]]]
                             EXCEPT !.started = now, !.over = ended]
      <3>1. r("lookup").pc = "lookup" /\ r("delete").pc = "delete"
        BY DEF Idle
      <3> QED
        BY <2>5, <3>1, <2>2 DEF OpenPage, OpenLogout, Send
    <2>6. ASSUME NEW p \in Requests,
                 \/ Consume(p) \/ ConsumeFails(p)
                 \/ \E s \in Sessions : Create(p, s) \/ CreateFails(p, s)
                 \/ LookUp(p) \/ Purge(p) \/ Serve(p) \/ Delete(p)
                 \/ Receive(p) \/ LoseReply(p)
          PROVE  FALSE
      <3>1. requests[p] \in Request
        BY <2>1
      <3>2. \A x, y : /\ [requests[p] EXCEPT !.pc = "create", !.created = x].pc = "create"
                      /\ [requests[p] EXCEPT !.pc = "welcome", !.session = y].pc = "welcome"
                      /\ [requests[p] EXCEPT !.pc = "check", !.created = x].pc = "check"
                      /\ [requests[p] EXCEPT !.pc = "cleared"].pc = "cleared"
        BY <3>1 DEF Request
      <3> QED
        BY <2>2, <2>3, <2>6, <3>2
           DEF Consume, ConsumeFails, Create, CreateFails, LookUp, Purge, Serve,
               Delete, Receive, LoseReply
    <2>7. PICK p \in Requests : Check(p)
      <3>1. ~Crash
        BY <2>3 DEF Crash
      <3>2. ~(Tick \/ Terminating \/ \E l \in Links : Issue(l) \/ IssueFails(l))
        BY DEF Tick, Terminating, vars, Issue, IssueFails
      <3> QED
        BY <2>4, <2>5, <2>6, <3>1, <3>2 DEF Next
    <2>8. q = p /\ ~Expired(requests[q].created) /\ requests[q].pc = "check"
      <3> DEFINE r == [requests[p] EXCEPT
                         !.pc = IF Expired(requests[p].created) THEN "purge" ELSE "granted"]
      <3>1. r.pc = IF Expired(requests[p].created) THEN "purge" ELSE "granted"
        BY <2>1 DEF Request
      <3>2. Become(p, r) /\ requests[p].pc = "check"
        BY <2>7 DEF Check
      <3> HIDE DEF r
      <3> QED
        BY <2>1, <3>1, <3>2 DEF Become
    <2>9. now \in Nat /\ requests[q].created \in Nat /\ SessionTTL \in Nat
      BY <2>1, SignedLoginAssumption DEF IInv, TypeOK, Time, Request
    <2> QED
      BY <2>8, <2>9 DEF Expired, GrantInv, CheckedIsLive
  <1>3. Spec => [][Due]_vars
    BY <1>1, <1>2, Invariance, NextGrants, PTL DEF Spec
  <1> QED
    BY <1>3 DEF GrantIsDue
=============================================================================

---------------------------- MODULE SessionReads ----------------------------
(***************************************************************************)
(* The sessions endpoint (internal/transport/http/api/gamesessions) and    *)
(* what its reader does next.  It answers with the snapshot the sessions   *)
(* job has stored; the reader then asks for the flights of a server it was *)
(* offered, and is let in by the other key the job stores, the names       *)
(* (gameflights.knownServer).  The reader may take its time in between.    *)
(***************************************************************************)
EXTENDS SessionsJob

CONSTANTS
  Readers,     \* bound: the readers there are
  ReadFaults   \* what may go wrong in a request

ASSUME SessionReadsAssumption == ReadFaults \subseteq {"sessions", "names"}

VARIABLE reading  \* [Readers -> Reading]

readsVars == <<vars, reading>>

\* What a reader was told: nothing, the sessions of a refresh, or, of a server
\* it had chosen among them, that it is not known.
Reading == [told : {"nothing", "sessions", "unknownServer"}, at : Time,
            listed : SUBSET Sessions]

Nothing == [told |-> "nothing", at |-> 0, listed |-> {}]

ReadsInit ==
  /\ Init
  /\ reading = [v \in Readers |-> Nothing]

Tell(v, answer) ==
  /\ reading' = [reading EXCEPT ![v] = answer]
  /\ UNCHANGED vars

\* The snapshot, with its history or without; if there is none, or it cannot be
\* read, an error.
GetActiveSessions(v) ==
  /\ up
  /\ \/ /\ active # Missing
        /\ Tell(v, [told |-> "sessions", at |-> active.at, listed |-> active.listed])
     \/ /\ active = Missing \/ "sessions" \in ReadFaults
        /\ Tell(v, Nothing)

\* knownServer: the server has a session, or nobody knows which have.
Known(n) == IF names = Missing THEN TRUE ELSE n \in names

\* The reader asks for the flights of a server it was offered.
AskForFlights(v, n) ==
  LET r == reading[v]
  IN  /\ up /\ r.told = "sessions" /\ n \in NamesOf(r.listed)
      /\ \/ /\ Known(n) \/ "names" \in ReadFaults
            /\ Tell(v, Nothing)
         \/ /\ ~Known(n)
            /\ Tell(v, [r EXCEPT !.told = "unknownServer"])

ReadsNext ==
  \/ Next /\ UNCHANGED reading
  \/ \E v \in Readers :
       \/ GetActiveSessions(v)
       \/ \E n \in Names : AskForFlights(v, n)

ReadsSpec == ReadsInit /\ [][ReadsNext]_readsVars
-----------------------------------------------------------------------------
(* Properties.                                                             *)

\* Types, those of the job among them.
ReadsTypeOK ==
  /\ TypeOK
  /\ reading \in [Readers -> Reading]

\* A server that the sessions endpoint offered is refused by the flights
\* endpoints only once a newer refresh has replaced the offer, or it has
\* expired, or while the refresh that offered it has not come to its end in
\* success: it is the job's second write that makes an offer good, whatever
\* fails and however slow the reader is (job.go:69-77, handler.go:282-299).
OfferedIsKnown ==
  [][\A v \in Readers :
       reading[v].told = "sessions" /\ reading'[v].told = "unknownServer" =>
         \/ active = Missing \/ active.at > reading[v].at
         \/ lastSuccess = Missing \/ lastSuccess < reading[v].at]_readsVars
=============================================================================

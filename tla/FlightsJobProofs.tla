-------------------------- MODULE FlightsJobProofs --------------------------
(***************************************************************************)
(* For every set of flights and sessions, every naming of the sessions,    *)
(* every cap and time to live, and whatever fails: the flights job keeps   *)
(* its histories in order and never puts an older snapshot in the place of *)
(* a newer one.                                                            *)
(*                                                                         *)
(* HistoryOrdered is not inductive.  What makes it so is SingleRun (the    *)
(* tick starts a run only when none is going), and, about the one run:     *)
(* what it read is what Redis still holds unless it expired, and nothing   *)
(* in Redis is newer than the refresh time of the run.                     *)
(*                                                                         *)
(* That the job implements FlightTrail needs besides that what the run has *)
(* recorded stays for as long as a run may last (TrailInv); where reads or *)
(* writes of histories fail it does not hold.                              *)
(***************************************************************************)
EXTENDS FlightsJobTrail, HistoryTheorems

SingleRun == \A r, q \in runs : r = q

\* Snapshots show flights of their own server, of a refresh in the past.
SnapshotsInPast ==
  \A n \in Names :
    snapshots[n] # Missing =>
      /\ snapshots[n].at <= now
      /\ \A f \in snapshots[n].flights : Server(f) = n

HistoriesInPast ==
  \A f \in Flights : histories[f] # Missing => UpTo(histories[f].trail, now)

\* Nothing stored is newer than the run's refresh.
RunIsNewest(r) ==
  /\ r.at <= now
  /\ \A n \in Names : snapshots[n] # Missing => snapshots[n].at <= r.at
  /\ r.pc # "sessions" =>
       \A f \in Flights : histories[f] # Missing => UpTo(histories[f].trail, r.at)

\* The run's view of the server it is refreshing.
RunHolds(r) ==
  r.pc \in {"histories", "store"} =>
    /\ r.name \in Names
    /\ \A f \in r.found : Server(f) = r.name
    /\ r.pending \subseteq r.found
    /\ r.prior = Missing => r.pending = {}
    /\ r.prior # Missing =>
         /\ r.prior.at <= r.at
         /\ r.pending \subseteq r.prior.flights
         /\ snapshots[r.name] \in {r.prior, Missing}
         /\ \A f \in r.prior.flights :
              histories[f] # Missing => UpTo(histories[f].trail, r.prior.at)

\* The history the run has read and is about to extend.
RunExtends(r) ==
  r.pc = "store" =>
    /\ r.flight \in r.pending
    /\ Len(r.loaded) <= MaxHistory
    /\ Ordered(r.loaded)
    /\ UpTo(r.loaded, r.prior.at)

IInv ==
  /\ TypeOK
  /\ SingleRun
  /\ SnapshotsInPast
  /\ HistoriesInPast
  /\ HistoryOrdered
  /\ \A r \in runs : RunIsNewest(r) /\ RunHolds(r) /\ RunExtends(r)
-----------------------------------------------------------------------------
(* The steps.                                                              *)

\* A flight's server is a name, perhaps the empty one.
LEMMA ServerType == \A f \in Flights : Server(f) \in Names \cup {NoName}
BY FlightsJobAssumption DEF Server

\* Times are numbers.
LEMMA TrailType ==
  ASSUME TypeOK, NEW f \in Flights, histories[f] # Missing
  PROVE  histories[f].trail \in Seq(Time) /\ histories[f].trail \in Seq(Nat)
<1>1. histories[f].trail \in Seq(Time) /\ Time \subseteq Nat
  BY FlightsJobAssumption DEF TypeOK, StoredHistory, Time
<1> QED
  BY <1>1, SeqMonotonic

\* Redis and the clock as they were: what does not speak of runs still holds.
LEMMA RedisUnchanged ==
  ASSUME IInv, UNCHANGED <<now, redis>>
  PROVE  SnapshotsInPast' /\ HistoriesInPast' /\ HistoryOrdered'
BY DEF IInv, SnapshotsInPast, HistoriesInPast, HistoryOrdered, Shown, redis

\* A run that goes on is the only one.
LEMMA OnlyRun ==
  ASSUME SingleRun, NEW r \in runs, NEW r2, Continue(r, r2)
  PROVE  runs' = {r2} /\ SingleRun'
BY DEF SingleRun, Continue

LEMMA RunEnds ==
  ASSUME SingleRun, NEW r \in runs, Succeed(r)
  PROVE  runs' = {} /\ lastSuccess' = now
BY DEF SingleRun, Succeed

\* The run's next step is the only thing to look at when it leaves Redis alone.
LEMMA RunContinues ==
  ASSUME IInv, NEW r \in runs, NEW r2 \in Run, Continue(r, r2),
         UNCHANGED <<now, up, redis>>,
         RunIsNewest(r2), RunHolds(r2), RunExtends(r2)
  PROVE  IInv'
<1>1. runs' = {r2} /\ SingleRun'
  BY OnlyRun DEF IInv
<1>2. TypeOK'
  BY <1>1 DEF IInv, TypeOK, Continue, redis
<1>3. RunIsNewest(r2)' /\ RunHolds(r2)' /\ RunExtends(r2)'
  BY DEF RunIsNewest, RunHolds, RunExtends, Server, redis
<1> QED
  BY <1>1, <1>2, <1>3, RedisUnchanged DEF IInv

\* A run that is over, or dies, leaves nothing behind but what is in Redis.
LEMMA NoRunLeft ==
  ASSUME IInv, runs' = {}, up' \in BOOLEAN,
         lastSuccess' \in Time \cup {Missing}, UNCHANGED <<now, redis>>
  PROVE  IInv'
<1>1. TypeOK' /\ SingleRun'
  BY DEF IInv, TypeOK, SingleRun, redis
<1> QED
  BY <1>1, RedisUnchanged DEF IInv

LEMMA InitInv == Init => IInv
BY FlightsJobAssumption
   DEF Init, IInv, TypeOK, Time, SingleRun, SnapshotsInPast, HistoriesInPast,
       HistoryOrdered

LEMMA TickInv == IInv /\ Tick => IInv'
<1> SUFFICES ASSUME IInv, Tick
             PROVE  IInv'
  OBVIOUS
<1>1. now \in Nat /\ now' = now + 1 /\ now' \in Time
  BY FlightsJobAssumption DEF IInv, TypeOK, Tick, Time
<1>2. \A n \in Names : snapshots'[n] # Missing => snapshots'[n] = snapshots[n]
  BY DEF IInv, TypeOK, Tick, Unexpired
<1>3. \A f \in Flights : histories'[f] # Missing => histories'[f] = histories[f]
  BY DEF IInv, TypeOK, Tick, Unexpired
<1>4. runs' \subseteq runs \cup {NewRun(now + 1)} /\ (runs # {} => runs' = runs)
  BY DEF Tick, Fire
<1>5. TypeOK'
  <2>1. snapshots' \in [Names -> Snapshot \cup {Missing}]
    BY DEF IInv, TypeOK, Tick, Unexpired
  <2>2. histories' \in [Flights -> StoredHistory \cup {Missing}]
    BY DEF IInv, TypeOK, Tick, Unexpired
  <2>3. NewRun(now + 1) \in Run
    BY <1>1, EmptySeq DEF NewRun, Run
  <2> QED
    BY <1>1, <1>3, <1>4, <2>1, <2>2, <2>3 DEF IInv, TypeOK, Tick
<1>6. SingleRun'
  BY <1>4 DEF IInv, SingleRun
<1>7. SnapshotsInPast'
  BY <1>1, <1>2 DEF IInv, TypeOK, SnapshotsInPast, Snapshot, Time, Server
<1>8. HistoriesInPast'
  <2> SUFFICES ASSUME NEW f \in Flights, histories'[f] # Missing
               PROVE  UpTo(histories'[f].trail, now')
    BY DEF HistoriesInPast
  <2>1. histories'[f] = histories[f] /\ UpTo(histories[f].trail, now)
    BY <1>3 DEF IInv, HistoriesInPast
  <2>2. histories[f].trail \in Seq(Nat)
    BY <1>3, TrailType DEF IInv
  <2> QED
    BY <1>1, <2>1, <2>2, UpToLater
<1>9. HistoryOrdered'
  <2> SUFFICES ASSUME NEW f \in Flights, histories'[f] # Missing
               PROVE  /\ Ordered(histories'[f].trail)
                      /\ Shown(f)' => UpTo(histories'[f].trail, snapshots'[Server(f)].at)
    BY DEF HistoryOrdered, Server
  <2>1. histories'[f] = histories[f]
    BY <1>3
  <2>2. Shown(f)' => Shown(f) /\ snapshots'[Server(f)] = snapshots[Server(f)]
    BY <1>2, ServerType DEF Shown, Server
  <2> QED
    BY <2>1, <2>2 DEF IInv, HistoryOrdered
<1>10. ASSUME NEW r \in runs'
       PROVE  (RunIsNewest(r) /\ RunHolds(r) /\ RunExtends(r))'
  <2>1. CASE r \in runs
    <3>1. r \in Run /\ RunIsNewest(r) /\ RunHolds(r) /\ RunExtends(r)
      BY <2>1 DEF IInv, TypeOK
    <3>2. RunIsNewest(r)'
      BY <1>1, <1>2, <1>3, <3>1 DEF RunIsNewest, Run, Time
    <3>3. RunHolds(r)'
      BY <1>2, <1>3, <3>1 DEF RunHolds, Run, Server, IInv, TypeOK, Snapshot
    <3>4. RunExtends(r)'
      BY <3>1 DEF RunExtends
    <3> QED
      BY <3>2, <3>3, <3>4
  <2>2. CASE r = NewRun(now + 1)
    <3>1. r.pc = "sessions" /\ r.at = now + 1
      BY <2>2 DEF NewRun
    <3>2. RunIsNewest(r)'
      BY <1>1, <1>2, <3>1
         DEF RunIsNewest, IInv, SnapshotsInPast, TypeOK, Snapshot, Time
    <3> QED
      BY <3>1, <3>2 DEF RunHolds, RunExtends
  <2> QED
    BY <1>4, <2>1, <2>2
<1> QED
  BY <1>5, <1>6, <1>7, <1>8, <1>9, <1>10 DEF IInv

LEMMA ReadActiveSessionsInv ==
  ASSUME IInv, NEW r \in runs, NEW cached \in CachedSessions,
         ReadActiveSessions(r, cached)
  PROVE  IInv'
<1> USE DEF ReadActiveSessions
<1>1. CASE cached = Missing \/ cached = {}
  BY <1>1, RunEnds, NoRunLeft DEF IInv, TypeOK
<1>2. CASE ~(cached = Missing \/ cached = {})
  <2> DEFINE r2 == [r EXCEPT !.pc = "refresh", !.at = now, !.todo = cached]
  <2>1. r \in Run /\ now \in Time /\ cached \subseteq Sessions
    BY <1>2 DEF IInv, TypeOK, CachedSessions
  <2>2. r2 \in Run /\ r2.pc = "refresh" /\ r2.at = now
    BY <2>1 DEF Run
  <2>3. RunIsNewest(r2)
    BY <2>1, <2>2, FlightsJobAssumption
       DEF IInv, RunIsNewest, SnapshotsInPast, HistoriesInPast, Time
  <2>4. RunHolds(r2) /\ RunExtends(r2)
    BY <2>2 DEF RunHolds, RunExtends
  <2>5. Continue(r, r2)
    BY <1>2
  <2> HIDE DEF r2
  <2> QED
    BY <2>2, <2>3, <2>4, <2>5, RunContinues
<1> QED
  BY <1>1, <1>2

LEMMA PassOverInv ==
  ASSUME IInv, NEW r \in runs, NEW s \in Sessions, PassOver(r, s)
  PROVE  IInv'
<1> DEFINE r2 == [r EXCEPT !.todo = @ \ {s}]
<1>1. r \in Run /\ r.pc = "refresh" /\ RunIsNewest(r)
  BY DEF IInv, TypeOK, PassOver
<1>2. r2 \in Run /\ r2.pc = "refresh" /\ r2.at = r.at
  BY <1>1 DEF Run
<1>3. RunIsNewest(r2) /\ RunHolds(r2) /\ RunExtends(r2)
  BY <1>1, <1>2 DEF RunIsNewest, RunHolds, RunExtends
<1>4. Continue(r, r2) /\ UNCHANGED <<now, up, redis>>
  BY DEF PassOver
<1> HIDE DEF r2
<1> QED
  BY <1>2, <1>3, <1>4, RunContinues

LEMMA FetchFlightsInv ==
  ASSUME IInv, NEW r \in runs, NEW s \in Sessions, FetchFlights(r, s)
  PROVE  IInv'
<1>0. \A found \in GetSessionFlights(s) \ {Missing} :
        found \in SUBSET {f \in Flights : SessionOf[f] = s}
  BY DEF GetSessionFlights
<1>1. PICK found \in GetSessionFlights(s) \ {Missing},
           prior \in ReadOutcomes(snapshots[NameOf[s]], "readSnapshot") :
        Continue(r, [r EXCEPT !.pc = "histories", !.todo = @ \ {s},
                              !.name = NameOf[s], !.prior = prior,
                              !.found = found,
                              !.pending = Continuing(prior, found)])
  BY DEF FetchFlights
<1> DEFINE r2 == [r EXCEPT !.pc = "histories", !.todo = @ \ {s},
                           !.name = NameOf[s], !.prior = prior,
                           !.found = found,
                           !.pending = Continuing(prior, found)]
<1>2. r \in Run /\ r.pc = "refresh" /\ RunIsNewest(r)
  BY DEF IInv, TypeOK, FetchFlights
<1>3. NameOf[s] \in Names
  BY FlightsJobAssumption DEF FetchFlights, Refreshable
<1>4. prior \in {snapshots[NameOf[s]], Missing} /\ prior \in Snapshot \cup {Missing}
  BY <1>3 DEF ReadOutcomes, IInv, TypeOK
<1>5. /\ found \subseteq Flights
      /\ \A f \in found : Server(f) = NameOf[s]
      /\ Continuing(prior, found) \subseteq found
      /\ prior = Missing => Continuing(prior, found) = {}
      /\ prior # Missing => Continuing(prior, found) \subseteq prior.flights
  BY <1>0 DEF Server, Continuing
<1>6. /\ r2 \in Run /\ r2.pc = "histories" /\ r2.at = r.at
      /\ r2.name = NameOf[s] /\ r2.prior = prior /\ r2.found = found
      /\ r2.pending = Continuing(prior, found)
  BY <1>2, <1>3, <1>4, <1>5 DEF Run
<1>7. Continue(r, r2) /\ UNCHANGED <<now, up, redis>>
  BY <1>1 DEF FetchFlights
<1> HIDE DEF r2
<1>8. RunIsNewest(r2) /\ RunExtends(r2)
  BY <1>2, <1>6 DEF RunIsNewest, RunExtends
<1>9. prior # Missing =>
        /\ prior = snapshots[NameOf[s]]
        /\ prior.at <= r.at
        /\ \A f \in prior.flights :
             histories[f] # Missing => UpTo(histories[f].trail, prior.at)
  <2> SUFFICES ASSUME prior # Missing
               PROVE  /\ prior = snapshots[NameOf[s]]
                      /\ prior.at <= r.at
                      /\ \A f \in prior.flights :
                           histories[f] # Missing => UpTo(histories[f].trail, prior.at)
    OBVIOUS
  <2>1. prior = snapshots[NameOf[s]] /\ prior \in Snapshot
    BY <1>4
  <2>2. prior.at <= r.at
    BY <2>1, <1>2, <1>3 DEF RunIsNewest
  <2>3. \A f \in prior.flights : f \in Flights /\ Shown(f) /\ Server(f) = NameOf[s]
    BY <2>1, <1>3, FlightsJobAssumption DEF IInv, SnapshotsInPast, Shown, Snapshot
  <2> QED
    BY <2>1, <2>2, <2>3 DEF IInv, HistoryOrdered
<1>10. RunHolds(r2)
  BY <1>3, <1>4, <1>5, <1>6, <1>9 DEF RunHolds
<1> QED
  BY <1>6, <1>7, <1>8, <1>10, RunContinues

LEMMA LoadHistoryInv ==
  ASSUME IInv, NEW r \in runs, NEW f \in Flights, LoadHistory(r, f)
  PROVE  IInv'
<1>1. PICK stored \in ReadOutcomes(histories[f], "readHistory") :
        Continue(r, [r EXCEPT !.pc = "store", !.flight = f,
                     !.loaded = IF stored = Missing THEN << >> ELSE stored.trail])
  BY DEF LoadHistory
<1> DEFINE trail == IF stored = Missing THEN << >> ELSE stored.trail
           r2 == [r EXCEPT !.pc = "store", !.flight = f, !.loaded = trail]
<1>2. r \in Run /\ r.pc = "histories" /\ f \in r.pending
        /\ RunIsNewest(r) /\ RunHolds(r)
  BY DEF IInv, TypeOK, LoadHistory
<1>3. r.prior # Missing /\ f \in r.prior.flights
  BY <1>2 DEF RunHolds
<1>4. /\ trail \in Seq(Time)
      /\ Len(trail) <= MaxHistory
      /\ Ordered(trail)
      /\ UpTo(trail, r.prior.at)
  <2>1. CASE stored = Missing
    BY <2>1, EmptySeq, FlightsJobAssumption DEF Ordered, UpTo
  <2>2. CASE stored # Missing
    <3>1. stored = histories[f]
      BY <2>2 DEF ReadOutcomes
    <3> QED
      BY <2>2, <3>1, <1>2, <1>3, TrailType DEF IInv, TypeOK, HistoryOrdered, RunHolds
  <2> QED
    BY <2>1, <2>2
<1> HIDE DEF trail
<1>5. /\ r2 \in Run /\ r2.pc = "store" /\ r2.flight = f /\ r2.loaded = trail
      /\ r2.at = r.at /\ r2.name = r.name /\ r2.prior = r.prior
      /\ r2.found = r.found /\ r2.pending = r.pending
  BY <1>2, <1>4 DEF Run
<1>6. Continue(r, r2) /\ UNCHANGED <<now, up, redis>>
  BY <1>1 DEF LoadHistory, trail
<1> HIDE DEF r2
<1>7. RunIsNewest(r2)
  BY <1>2, <1>5 DEF RunIsNewest
<1>8. RunHolds(r2)
  BY <1>2, <1>5 DEF RunHolds
<1>9. RunExtends(r2)
  BY <1>2, <1>4, <1>5 DEF RunExtends
<1> QED
  BY <1>5, <1>6, <1>7, <1>8, <1>9, RunContinues

LEMMA StoreHistoryInv ==
  ASSUME IInv, NEW r \in runs, StoreHistory(r)
  PROVE  IInv'
<1> DEFINE g == r.flight
           trail == NextHistory(r.loaded, r.prior.at, MaxHistory)
           r2 == [r EXCEPT !.pc = "histories", !.pending = @ \ {r.flight},
                           !.flight = Missing, !.loaded = << >>]
<1>1. r \in Run /\ r.pc = "store"
        /\ RunIsNewest(r) /\ RunHolds(r) /\ RunExtends(r)
  BY DEF IInv, TypeOK, StoreHistory
<1>2. /\ g \in Flights /\ g \in r.pending /\ g \in r.found /\ g \in r.prior.flights
      /\ Server(g) = r.name /\ r.name \in Names
      /\ r.prior # Missing /\ r.prior \in Snapshot /\ r.prior.at <= r.at
  BY <1>1 DEF RunHolds, RunExtends, Run
<1>3. /\ r.prior.at \in Time /\ r.prior.at \in Nat /\ r.at \in Nat /\ now \in Nat
      /\ r.at <= now /\ MaxHistory \in Nat
      /\ now + TTL \in Nat
  BY <1>1, <1>2, FlightsJobAssumption
     DEF Run, Snapshot, Time, IInv, TypeOK, RunIsNewest
<1>4. r.loaded \in Seq(Time) /\ r.loaded \in Seq(Nat)
  <2>1. r.loaded \in Seq(Time) /\ Time \subseteq Nat
    BY <1>1, FlightsJobAssumption DEF Run, Time
  <2> QED
    BY <2>1, SeqMonotonic
<1>5. /\ trail \in Seq(Time) /\ trail \in Seq(Nat) /\ Len(trail) <= MaxHistory
      /\ Ordered(trail) /\ UpTo(trail, r.prior.at)
  BY <1>1, <1>3, <1>4, NextHistoryType, NextHistoryOrdered DEF RunExtends
<1>6. /\ UpTo(trail, r.at) /\ UpTo(trail, now)
  <2>1. r.prior.at <= now
    BY <1>2, <1>3
  <2> QED
    BY <1>2, <1>3, <1>5, <2>1, UpToLater
<1>7. r2 \in Run /\ r2.pc = "histories" /\ r2.at = r.at /\ r2.name = r.name
        /\ r2.prior = r.prior /\ r2.found = r.found /\ r2.pending = r.pending \ {g}
  BY <1>1, EmptySeq DEF Run
<1>8. runs' = {r2} /\ SingleRun'
  BY OnlyRun DEF StoreHistory, IInv
<1>9. UNCHANGED <<now, up, snapshots, lastSuccess>>
  BY DEF StoreHistory, Continue
<1>10. /\ histories' \in [Flights -> StoredHistory \cup {Missing}]
       /\ \A f \in Flights :
            histories'[f] = histories[f] \/ (f = g /\ histories'[f].trail = trail)
  <2>1. PICK applied \in Applied("storeHistory") :
          histories' = IF applied
            THEN [histories EXCEPT ![g] = [trail |-> trail, exp |-> now + TTL]]
            ELSE histories
    BY DEF StoreHistory
  <2> HIDE DEF trail
  <2> QED
    BY <2>1, <1>2, <1>3, <1>5 DEF IInv, TypeOK, StoredHistory
<1> HIDE DEF trail, r2, g
<1>11. TypeOK'
  BY <1>5, <1>7, <1>8, <1>9, <1>10 DEF IInv, TypeOK
<1>12. SnapshotsInPast'
  BY <1>9 DEF IInv, SnapshotsInPast
<1>13. HistoriesInPast'
  BY <1>6, <1>9, <1>10 DEF IInv, HistoriesInPast
<1>14. HistoryOrdered'
  <2> SUFFICES ASSUME NEW f \in Flights, histories'[f] # Missing
               PROVE  /\ Ordered(histories'[f].trail)
                      /\ Shown(f)' => UpTo(histories'[f].trail, snapshots[Server(f)].at)
    BY <1>9 DEF HistoryOrdered, Server
  <2>1. Shown(f)' <=> Shown(f)
    BY <1>9 DEF Shown, Server
  <2>2. CASE histories'[f] = histories[f]
    BY <2>1, <2>2 DEF IInv, HistoryOrdered
  <2>3. CASE f = g /\ histories'[f].trail = trail
    <3>1. Shown(f) => snapshots[Server(f)] = r.prior
      BY <1>1, <1>2, <2>3 DEF Shown, RunHolds
    <3> QED
      BY <1>5, <2>1, <2>3, <3>1
  <2> QED
    BY <1>10, <2>2, <2>3
<1>15. RunIsNewest(r2)'
  BY <1>1, <1>6, <1>7, <1>9, <1>10 DEF RunIsNewest
<1>16. RunHolds(r2)'
  <2>1. \A f \in r.prior.flights :
          histories'[f] # Missing => UpTo(histories'[f].trail, r.prior.at)
    BY <1>1, <1>2, <1>5, <1>10 DEF RunHolds, Snapshot
  <2> QED
    BY <1>1, <1>2, <1>7, <1>9, <2>1 DEF RunHolds, Server
<1>17. RunExtends(r2)'
  BY <1>7 DEF RunExtends
<1> QED
  BY <1>8, <1>11, <1>12, <1>13, <1>14, <1>15, <1>16, <1>17 DEF IInv

LEMMA StoreSnapshotInv ==
  ASSUME IInv, NEW r \in runs, StoreSnapshot(r)
  PROVE  IInv'
<1> DEFINE n0 == r.name
           r2 == [r EXCEPT !.pc = "refresh", !.name = NoName,
                           !.prior = Missing, !.found = {}]
<1>1. r \in Run /\ r.pc = "histories" /\ RunIsNewest(r) /\ RunHolds(r)
  BY DEF IInv, TypeOK, StoreSnapshot
<1>2. n0 \in Names /\ r.at \in Time /\ r.found \subseteq Flights
        /\ \A f \in r.found : Server(f) = n0
  BY <1>1 DEF RunHolds, Run
<1>3. now \in Nat /\ r.at <= now /\ now + TTL \in Nat /\ r.at <= r.at
  BY <1>1, <1>2, FlightsJobAssumption DEF IInv, TypeOK, Time, RunIsNewest
<1>4. r2 \in Run /\ r2.pc = "refresh" /\ r2.at = r.at
  BY <1>1 DEF Run
<1>5. runs' = {r2} /\ SingleRun'
  BY OnlyRun DEF StoreSnapshot, IInv
<1>6. UNCHANGED <<now, up, histories, lastSuccess>>
  BY DEF StoreSnapshot, Continue
<1>7. /\ snapshots' \in [Names -> Snapshot \cup {Missing}]
      /\ \A n \in Names :
           \/ snapshots'[n] = snapshots[n]
           \/ n = n0 /\ snapshots'[n].at = r.at /\ snapshots'[n].flights = r.found
  <2>1. PICK applied \in Applied("storeSnapshot") :
          snapshots' = IF applied THEN [snapshots EXCEPT ![n0] = Stored(r)]
                                  ELSE snapshots
    BY DEF StoreSnapshot
  <2> QED
    BY <2>1, <1>2, <1>3 DEF IInv, TypeOK, Snapshot, Stored
<1> HIDE DEF r2, n0
<1>8. TypeOK'
  BY <1>4, <1>5, <1>6, <1>7 DEF IInv, TypeOK
<1>9. SnapshotsInPast'
  BY <1>2, <1>3, <1>6, <1>7 DEF IInv, SnapshotsInPast, Server
<1>10. HistoriesInPast'
  BY <1>6 DEF IInv, HistoriesInPast
<1>11. HistoryOrdered'
  <2> SUFFICES ASSUME NEW f \in Flights, histories[f] # Missing
               PROVE  /\ Ordered(histories[f].trail)
                      /\ Shown(f)' => UpTo(histories[f].trail, snapshots'[Server(f)].at)
    BY <1>6 DEF HistoryOrdered, Server
  <2>1. Ordered(histories[f].trail)
    BY DEF IInv, HistoryOrdered
  <2>2. ASSUME Shown(f)'
        PROVE  UpTo(histories[f].trail, snapshots'[Server(f)].at)
    <3>1. Server(f) \in Names
      BY <2>2, ServerType DEF Shown, Server
    <3>2. CASE snapshots'[Server(f)] = snapshots[Server(f)]
      BY <2>2, <3>2 DEF IInv, HistoryOrdered, Shown, Server
    <3>3. CASE snapshots'[Server(f)].at = r.at
      BY <1>1, <3>3 DEF RunIsNewest
    <3> QED
      BY <1>7, <3>1, <3>2, <3>3
  <2> QED
    BY <2>1, <2>2
<1>12. RunIsNewest(r2)'
  BY <1>1, <1>3, <1>4, <1>6, <1>7 DEF RunIsNewest
<1>13. RunHolds(r2)' /\ RunExtends(r2)'
  BY <1>4 DEF RunHolds, RunExtends
<1> QED
  BY <1>5, <1>8, <1>9, <1>10, <1>11, <1>12, <1>13 DEF IInv
-----------------------------------------------------------------------------
(* The invariant and the theorems.                                         *)

LEMMA NextInv == IInv /\ [Next]_vars => IInv'
<1> SUFFICES ASSUME IInv, [Next]_vars
             PROVE  IInv'
  OBVIOUS
<1>1. CASE Tick
  BY <1>1, TickInv
<1>2. CASE RunStep
  <2>1. PICK r \in runs :
          \/ \E cached \in CachedSessions : ReadActiveSessions(r, cached)
          \/ \E s \in Sessions : PassOver(r, s) \/ FetchFlights(r, s)
          \/ \E f \in Flights : LoadHistory(r, f)
          \/ StoreHistory(r)
          \/ StoreSnapshot(r)
          \/ Finish(r)
    BY <1>2 DEF RunStep
  <2>2. CASE Finish(r)
    BY <2>2, RunEnds, NoRunLeft DEF Finish, IInv, TypeOK
  <2> QED
    BY <2>1, <2>2, ReadActiveSessionsInv, PassOverInv, FetchFlightsInv,
       LoadHistoryInv, StoreHistoryInv, StoreSnapshotInv
<1>3. CASE Crash
  BY <1>3, NoRunLeft DEF Crash, redis
<1>4. CASE Restart
  <2>1. TypeOK' /\ SingleRun'
    BY <1>4 DEF Restart, redis, IInv, TypeOK, SingleRun
  <2>2. \A r \in runs' : (RunIsNewest(r) /\ RunHolds(r) /\ RunExtends(r))'
    BY <1>4 DEF Restart, redis, IInv, RunIsNewest, RunHolds, RunExtends, Server
  <2> QED
    BY <1>4, <2>1, <2>2, RedisUnchanged DEF Restart, IInv
<1>5. CASE UNCHANGED vars
  <2>1. TypeOK' /\ SingleRun'
    BY <1>5 DEF vars, IInv, TypeOK, SingleRun
  <2>2. \A r \in runs' : (RunIsNewest(r) /\ RunHolds(r) /\ RunExtends(r))'
    BY <1>5 DEF vars, IInv, RunIsNewest, RunHolds, RunExtends, Server
  <2> QED
    BY <1>5, <2>1, <2>2, RedisUnchanged DEF vars, redis, IInv
<1> QED
  BY <1>1, <1>2, <1>3, <1>4, <1>5 DEF Next, Terminating

THEOREM Invariance == Spec => []IInv
<1>1. Init => IInv
  BY InitInv
<1>2. IInv /\ [Next]_vars => IInv'
  BY NextInv
<1> QED
  BY <1>1, <1>2, PTL DEF Spec

\* The flights job keeps to its types, and every history to its cap.
THEOREM TypeCorrect == Spec => []TypeOK
<1>1. IInv => TypeOK
  BY DEF IInv
<1> QED
  BY <1>1, Invariance, PTL

\* Whatever fails, a history lists positions from old to new, none of them
\* newer than the one now shown.
THEOREM HistoriesAreOrdered == Spec => []HistoryOrdered
<1>1. IInv => HistoryOrdered
  BY DEF IInv
<1> QED
  BY <1>1, Invariance, PTL

\* Whatever fails, a snapshot is only ever replaced by one at least as new.
THEOREM SnapshotsStayNewest == Spec => SnapshotsNeverGoBack
<1> DEFINE Forward == \A n \in Names :
             snapshots[n] # Missing /\ snapshots'[n] # Missing =>
               snapshots'[n].at >= snapshots[n].at
<1>1. IInv /\ [Next]_vars => [Forward]_vars
  <2> SUFFICES ASSUME IInv, Next, NEW n \in Names,
                      snapshots[n] # Missing, snapshots'[n] # Missing
               PROVE  snapshots'[n].at >= snapshots[n].at
    OBVIOUS
  <2>1. snapshots[n].at \in Nat
    BY FlightsJobAssumption DEF IInv, TypeOK, Snapshot, Time
  <2>2. CASE snapshots'[n] = snapshots[n]
    BY <2>1, <2>2
  <2>3. ASSUME Tick PROVE snapshots'[n] = snapshots[n]
    BY <2>3 DEF Tick, Unexpired, IInv, TypeOK
  <2>4. ASSUME NEW r \in runs, StoreSnapshot(r)
        PROVE  snapshots'[n] = snapshots[n] \/ snapshots'[n].at = r.at
    BY <2>4 DEF StoreSnapshot, Stored, IInv, TypeOK
  <2>5. ASSUME NEW r \in runs, StoreSnapshot(r)
        PROVE  snapshots[n].at <= r.at /\ r.at \in Nat
    BY <2>5, FlightsJobAssumption DEF IInv, RunIsNewest, TypeOK, Run, Time
  <2>6. \/ Tick
        \/ \E r \in runs : StoreSnapshot(r)
        \/ snapshots' = snapshots
    BY DEF Next, RunStep, ReadActiveSessions, PassOver, FetchFlights,
           LoadHistory, StoreHistory, Finish, Crash, Restart, Terminating,
           vars, redis
  <2> QED
    BY <2>1, <2>2, <2>3, <2>4, <2>5, <2>6
<1>2. Spec => [][Forward]_vars
  BY <1>1, Invariance, PTL DEF Spec
<1> QED
  BY <1>2 DEF SnapshotsNeverGoBack
-----------------------------------------------------------------------------
(* What a run holds of the trails.                                         *)

\* The run's prior snapshot is of its own server, and given up with it; where
\* reads succeed, what it read and found nothing of is still not there.
HoldsPrior(r) ==
  /\ r.pc \in {"sessions", "refresh"} => r.prior = Missing
  /\ r.prior # Missing => \A f \in r.prior.flights : Server(f) = r.name
  /\ "readSnapshot" \notin Faults /\ r.pc \in {"histories", "store"} /\ r.prior = Missing =>
       snapshots[r.name] = Missing

\* Where reads succeed, the history it is about to extend is the stored one.
HoldsTrail(r) ==
  "readHistory" \notin Faults /\ r.pc = "store" /\ histories[r.flight] # Missing =>
    histories[r.flight].trail = r.loaded

EndsWith(history, t) == history # << >> /\ history[Len(history)] = t

\* Where writes of histories succeed, the flights that stay and are not pending
\* any more have their prior position recorded, and for longer than a run lasts.
HasRecorded(r) ==
  "storeHistory" \notin Faults /\ r.pc \in {"histories", "store"} =>
    \A f \in Continuing(r.prior, r.found) \ r.pending :
      /\ histories[f] # Missing
      /\ EndsWith(histories[f].trail, r.prior.at)
      /\ histories[f].exp > r.at + MaxRunTicks

HoldsOn(r) ==
  /\ now <= r.at + MaxRunTicks
  /\ HoldsPrior(r) /\ HoldsTrail(r) /\ HasRecorded(r)

TrailInv == \A r \in runs : HoldsOn(r)

LEMMA TickTrailInv == ASSUME IInv, TrailInv, Tick PROVE TrailInv'
<1> SUFFICES ASSUME NEW r \in runs' PROVE HoldsOn(r)'
  BY DEF TrailInv
<1>1. now \in Nat /\ now' = now + 1 /\ MaxRunTicks \in Nat
  BY FlightsJobAssumption DEF IInv, TypeOK, Tick, Time
<1>2. CASE r \in runs
  <2>1. r \in Run /\ HoldsOn(r) /\ RunHolds(r) /\ RunExtends(r) /\ r.at \in Nat
    BY <1>2, FlightsJobAssumption DEF IInv, TypeOK, TrailInv, Run, Time
  <2>2. now' <= r.at + MaxRunTicks
    BY <1>1, <1>2, <2>1 DEF Tick
  <2>3. HoldsPrior(r)'
    BY <2>1 DEF HoldsOn, HoldsPrior, RunHolds, IInv, TypeOK, Tick, Unexpired, Server
  <2>4. HoldsTrail(r)'
    BY <2>1 DEF HoldsOn, HoldsTrail, Run, RunExtends, IInv, TypeOK, Tick, Unexpired
  <2>5. HasRecorded(r)'
    <3> SUFFICES ASSUME "storeHistory" \notin Faults, r.pc \in {"histories", "store"},
                        NEW f \in Continuing(r.prior, r.found) \ r.pending
                 PROVE  /\ histories'[f] # Missing
                        /\ EndsWith(histories'[f].trail, r.prior.at)
                        /\ histories'[f].exp > r.at + MaxRunTicks
      BY DEF HasRecorded
    <3>1. /\ histories[f] # Missing
          /\ EndsWith(histories[f].trail, r.prior.at)
          /\ histories[f].exp > r.at + MaxRunTicks
      BY <2>1 DEF HoldsOn, HasRecorded
    <3>2. f \in Flights /\ histories[f].exp \in Nat
      BY <2>1, <3>1 DEF Continuing, Run, IInv, TypeOK, StoredHistory
    <3>3. ~(histories[f].exp <= now + 1)
      BY <1>1, <2>1, <2>2, <3>1, <3>2
    <3>4. histories'[f] = histories[f]
      BY <3>2, <3>3 DEF IInv, TypeOK, Tick, Unexpired
    <3> QED
      BY <3>1, <3>4
  <2> QED
    BY <2>2, <2>3, <2>4, <2>5 DEF HoldsOn
<1>3. CASE r = NewRun(now + 1)
  <2>1. r.pc = "sessions" /\ r.at = now + 1 /\ r.prior = Missing
    BY <1>3 DEF NewRun
  <2> QED
    BY <1>1, <2>1 DEF HoldsOn, HoldsPrior, HoldsTrail, HasRecorded
<1> QED
  BY <1>2, <1>3 DEF Tick, Fire

\* The run's next step is all there is to look at when it leaves Redis alone.
LEMMA TrailContinues ==
  ASSUME IInv, NEW r \in runs, NEW r2, Continue(r, r2), UNCHANGED <<now, redis>>,
         HoldsOn(r2)
  PROVE  TrailInv'
<1>1. runs' = {r2}
  BY OnlyRun DEF IInv
<1> QED
  BY <1>1 DEF TrailInv, HoldsOn, HoldsPrior, HoldsTrail, HasRecorded, redis, Server

LEMMA ReadActiveSessionsTrailInv ==
  ASSUME IInv, TrailInv, NEW r \in runs, NEW cached \in CachedSessions,
         ReadActiveSessions(r, cached)
  PROVE  TrailInv'
<1>1. CASE cached = Missing \/ cached = {}
  BY <1>1, RunEnds DEF ReadActiveSessions, IInv, TrailInv
<1>2. CASE ~(cached = Missing \/ cached = {})
  <2> DEFINE r2 == [r EXCEPT !.pc = "refresh", !.at = now, !.todo = cached]
  <2>1. r \in Run /\ r.pc = "sessions" /\ HoldsPrior(r)
    BY DEF IInv, TypeOK, TrailInv, HoldsOn, ReadActiveSessions
  <2>2. r2.pc = "refresh" /\ r2.at = now /\ r2.prior = r.prior
    BY <2>1 DEF Run
  <2>3. Continue(r, r2) /\ UNCHANGED <<now, redis>>
    BY <1>2 DEF ReadActiveSessions
  <2>4. now <= now + MaxRunTicks
    BY FlightsJobAssumption DEF IInv, TypeOK, Time
  <2> HIDE DEF r2
  <2>5. HoldsOn(r2)
    BY <2>1, <2>2, <2>4 DEF HoldsOn, HoldsPrior, HoldsTrail, HasRecorded
  <2> QED
    BY <2>3, <2>5, TrailContinues
<1> QED
  BY <1>1, <1>2

LEMMA PassOverTrailInv ==
  ASSUME IInv, TrailInv, NEW r \in runs, NEW s \in Sessions, PassOver(r, s)
  PROVE  TrailInv'
<1> DEFINE r2 == [r EXCEPT !.todo = @ \ {s}]
<1>1. r \in Run /\ r.pc = "refresh" /\ HoldsOn(r)
  BY DEF IInv, TypeOK, TrailInv, PassOver
<1>2. r2.pc = "refresh" /\ r2.at = r.at /\ r2.prior = r.prior
  BY <1>1 DEF Run
<1>3. Continue(r, r2) /\ UNCHANGED <<now, redis>>
  BY DEF PassOver
<1> HIDE DEF r2
<1>4. HoldsOn(r2)
  BY <1>1, <1>2 DEF HoldsOn, HoldsPrior, HoldsTrail, HasRecorded
<1> QED
  BY <1>3, <1>4, TrailContinues

LEMMA FetchFlightsTrailInv ==
  ASSUME IInv, TrailInv, NEW r \in runs, NEW s \in Sessions, FetchFlights(r, s)
  PROVE  TrailInv'
<1>1. PICK found \in GetSessionFlights(s) \ {Missing},
           prior \in ReadOutcomes(snapshots[NameOf[s]], "readSnapshot") :
        Continue(r, [r EXCEPT !.pc = "histories", !.todo = @ \ {s},
                              !.name = NameOf[s], !.prior = prior,
                              !.found = found,
                              !.pending = Continuing(prior, found)])
  BY DEF FetchFlights
<1> DEFINE r2 == [r EXCEPT !.pc = "histories", !.todo = @ \ {s},
                           !.name = NameOf[s], !.prior = prior,
                           !.found = found,
                           !.pending = Continuing(prior, found)]
<1>2. r \in Run /\ r.pc = "refresh" /\ HoldsOn(r) /\ NameOf[s] \in Names
  BY FlightsJobAssumption DEF IInv, TypeOK, TrailInv, FetchFlights, Refreshable
<1>3. /\ r2.pc = "histories" /\ r2.at = r.at /\ r2.name = NameOf[s]
      /\ r2.prior = prior /\ r2.found = found /\ r2.pending = Continuing(prior, found)
  BY <1>2 DEF Run
<1>4. Continue(r, r2) /\ UNCHANGED <<now, redis>>
  BY <1>1 DEF FetchFlights
<1> HIDE DEF r2
<1>5. HoldsPrior(r2)
  BY <1>2, <1>3 DEF HoldsPrior, ReadOutcomes, IInv, SnapshotsInPast
<1>6. HoldsTrail(r2) /\ HasRecorded(r2) /\ now <= r2.at + MaxRunTicks
  BY <1>2, <1>3 DEF HoldsOn, HoldsTrail, HasRecorded
<1> QED
  BY <1>4, <1>5, <1>6, TrailContinues DEF HoldsOn

LEMMA LoadHistoryTrailInv ==
  ASSUME IInv, TrailInv, NEW r \in runs, NEW f \in Flights, LoadHistory(r, f)
  PROVE  TrailInv'
<1>1. PICK stored \in ReadOutcomes(histories[f], "readHistory") :
        Continue(r, [r EXCEPT !.pc = "store", !.flight = f,
                     !.loaded = IF stored = Missing THEN << >> ELSE stored.trail])
  BY DEF LoadHistory
<1> DEFINE trail == IF stored = Missing THEN << >> ELSE stored.trail
           r2 == [r EXCEPT !.pc = "store", !.flight = f, !.loaded = trail]
<1>2. r \in Run /\ r.pc = "histories" /\ HoldsOn(r)
  BY DEF IInv, TypeOK, TrailInv, LoadHistory
<1>3. "readHistory" \notin Faults /\ histories[f] # Missing => trail = histories[f].trail
  BY DEF ReadOutcomes
<1> HIDE DEF trail
<1>4. /\ r2.pc = "store" /\ r2.flight = f /\ r2.loaded = trail
      /\ r2.at = r.at /\ r2.name = r.name /\ r2.prior = r.prior
      /\ r2.found = r.found /\ r2.pending = r.pending
  BY <1>2 DEF Run
<1>5. Continue(r, r2) /\ UNCHANGED <<now, redis>>
  BY <1>1 DEF LoadHistory, trail
<1> HIDE DEF r2
<1>6. HoldsOn(r2)
  BY <1>2, <1>3, <1>4 DEF HoldsOn, HoldsPrior, HoldsTrail, HasRecorded
<1> QED
  BY <1>5, <1>6, TrailContinues

\* What StoreHistory leaves in Redis, where its write succeeds.
LEMMA StoredHistories ==
  ASSUME IInv, NEW r \in runs, StoreHistory(r)
  PROVE  /\ r.flight \in Flights /\ r.flight \in r.pending
         /\ r.prior # Missing /\ r.prior.at \in Time /\ r.flight \in r.prior.flights
         /\ Server(r.flight) = r.name
         /\ r.loaded \in Seq(Time)
         /\ EndsWith(NextHistory(r.loaded, r.prior.at, MaxHistory), r.prior.at)
         /\ \A f \in Flights \ {r.flight} : histories'[f] = histories[f]
         /\ \/ histories' = histories /\ "storeHistory" \in Faults
            \/ /\ histories'[r.flight] # Missing
               /\ histories'[r.flight] =
                    [trail |-> NextHistory(r.loaded, r.prior.at, MaxHistory),
                     exp |-> now + TTL]
<1>1. r \in Run /\ RunHolds(r) /\ RunExtends(r) /\ r.pc = "store"
  BY DEF IInv, TypeOK, StoreHistory
<1>2. /\ r.flight \in Flights /\ r.flight \in r.pending
      /\ r.prior # Missing /\ r.prior.at \in Time /\ r.flight \in r.prior.flights
      /\ Server(r.flight) = r.name
      /\ r.loaded \in Seq(Time) /\ MaxHistory \in Nat \ {0}
  BY <1>1, FlightsJobAssumption DEF Run, RunHolds, RunExtends, Snapshot
<1> DEFINE new == NextHistory(r.loaded, r.prior.at, MaxHistory)
<1>3. EndsWith(new, r.prior.at)
  BY <1>2, NextHistoryLast DEF EndsWith
<1>4. new \in Seq(Time)
  BY <1>2, NextHistoryType
<1> HIDE DEF new
<1>5. [trail |-> new, exp |-> now + TTL] # Missing
  BY <1>4, FlightsJobAssumption, FlightsJobTrailAssumption
     DEF StoredHistory, IInv, TypeOK, Time
<1>6. \E applied \in Applied("storeHistory") :
        histories' = IF applied
          THEN [histories EXCEPT ![r.flight] = [trail |-> new, exp |-> now + TTL]]
          ELSE histories
  BY DEF StoreHistory, new
<1>7. histories \in [Flights -> StoredHistory \cup {Missing}]
  BY DEF IInv, TypeOK
<1>8. /\ \A f \in Flights \ {r.flight} : histories'[f] = histories[f]
      /\ \/ histories' = histories /\ "storeHistory" \in Faults
         \/ histories'[r.flight] = [trail |-> new, exp |-> now + TTL]
  BY <1>2, <1>6, <1>7 DEF Applied
<1> QED
  BY <1>2, <1>3, <1>5, <1>8 DEF new

LEMMA StoreHistoryTrailInv ==
  ASSUME IInv, TrailInv, NEW r \in runs, StoreHistory(r)
  PROVE  TrailInv'
<1> DEFINE r2 == [r EXCEPT !.pc = "histories", !.pending = @ \ {r.flight},
                           !.flight = Missing, !.loaded = << >>]
<1>1. r \in Run /\ r.pc = "store" /\ HoldsOn(r) /\ RunIsNewest(r)
  BY DEF IInv, TypeOK, TrailInv, StoreHistory
<1>2. /\ r2.pc = "histories" /\ r2.at = r.at /\ r2.name = r.name /\ r2.prior = r.prior
      /\ r2.found = r.found /\ r2.pending = r.pending \ {r.flight}
  BY <1>1 DEF Run
<1>3. runs' = {r2}
  BY OnlyRun DEF StoreHistory, IInv
<1>4. UNCHANGED <<now, snapshots>>
  BY DEF StoreHistory
<1> HIDE DEF r2
<1>5. HoldsPrior(r2)' /\ HoldsTrail(r2)' /\ now' <= r2.at + MaxRunTicks
  BY <1>1, <1>2, <1>4 DEF HoldsOn, HoldsPrior, HoldsTrail, Server
<1>6. HasRecorded(r2)'
  <2> SUFFICES ASSUME "storeHistory" \notin Faults,
                      NEW f \in Continuing(r.prior, r.found) \ (r.pending \ {r.flight})
               PROVE  /\ histories'[f] # Missing
                      /\ EndsWith(histories'[f].trail, r.prior.at)
                      /\ histories'[f].exp > r.at + MaxRunTicks
    BY <1>2 DEF HasRecorded
  <2>1. f \in Flights
    BY <1>1 DEF Continuing, Run
  <2>2. CASE f # r.flight
    <3>1. histories'[f] = histories[f]
      BY <2>1, <2>2, StoredHistories
    <3> QED
      BY <1>1, <2>2, <3>1 DEF HoldsOn, HasRecorded
  <2>3. CASE f = r.flight
    <3> DEFINE new == NextHistory(r.loaded, r.prior.at, MaxHistory)
    <3>1. /\ histories'[f] = [trail |-> new, exp |-> now + TTL]
          /\ histories'[f] # Missing /\ EndsWith(new, r.prior.at)
      BY <2>3, StoredHistories
    <3> HIDE DEF new
    <3>2. now \in Nat /\ r.at \in Nat /\ r.at <= now
      BY <1>1, FlightsJobAssumption DEF IInv, TypeOK, Time, RunIsNewest, Run
    <3>3. now + TTL > r.at + MaxRunTicks
      BY <3>2, FlightsJobAssumption
    <3> QED
      BY <3>1, <3>3
  <2> QED
    BY <2>2, <2>3
<1> QED
  BY <1>2, <1>3, <1>5, <1>6 DEF TrailInv, HoldsOn

LEMMA StoreSnapshotTrailInv ==
  ASSUME IInv, TrailInv, NEW r \in runs, StoreSnapshot(r)
  PROVE  TrailInv'
<1> DEFINE r2 == [r EXCEPT !.pc = "refresh", !.name = NoName,
                           !.prior = Missing, !.found = {}]
<1>1. r \in Run /\ HoldsOn(r)
  BY DEF IInv, TypeOK, TrailInv
<1>2. r2.pc = "refresh" /\ r2.at = r.at /\ r2.prior = Missing
  BY <1>1 DEF Run
<1>3. runs' = {r2} /\ now' = now
  BY OnlyRun DEF StoreSnapshot, IInv
<1> HIDE DEF r2
<1>4. HoldsOn(r2)'
  BY <1>1, <1>2, <1>3 DEF HoldsOn, HoldsPrior, HoldsTrail, HasRecorded
<1> QED
  BY <1>3, <1>4 DEF TrailInv

LEMMA NextTrailInv == IInv /\ TrailInv /\ [Next]_vars => TrailInv'
<1> SUFFICES ASSUME IInv, TrailInv, [Next]_vars
             PROVE  TrailInv'
  OBVIOUS
<1>1. CASE Tick
  BY <1>1, TickTrailInv
<1>2. CASE RunStep
  <2>1. PICK r \in runs :
          \/ \E cached \in CachedSessions : ReadActiveSessions(r, cached)
          \/ \E s \in Sessions : PassOver(r, s) \/ FetchFlights(r, s)
          \/ \E f \in Flights : LoadHistory(r, f)
          \/ StoreHistory(r) \/ StoreSnapshot(r) \/ Finish(r)
    BY <1>2 DEF RunStep
  <2>2. CASE Finish(r)
    BY <2>2, RunEnds DEF Finish, IInv, TrailInv
  <2> QED
    BY <2>1, <2>2, ReadActiveSessionsTrailInv, PassOverTrailInv, FetchFlightsTrailInv,
       LoadHistoryTrailInv, StoreHistoryTrailInv, StoreSnapshotTrailInv
<1>3. CASE Crash
  BY <1>3 DEF Crash, TrailInv
<1>4. CASE Restart \/ UNCHANGED vars
  BY <1>4 DEF Restart, vars, redis, TrailInv, HoldsOn, HoldsPrior, HoldsTrail,
              HasRecorded, Server
<1> QED
  BY <1>1, <1>2, <1>3, <1>4 DEF Next, Terminating

THEOREM TrailInvariance == Spec => [](IInv /\ TrailInv)
<1>1. Init => IInv /\ TrailInv
  BY InitInv DEF Init, TrailInv
<1>2. IInv /\ TrailInv /\ [Next]_vars => (IInv /\ TrailInv)'
  BY NextInv, NextTrailInv
<1> QED
  BY <1>1, <1>2, PTL DEF Spec
-----------------------------------------------------------------------------
(* What a reader of the snapshots may rely on.                             *)

\* A snapshot is there for as long as it lives, and lives from when it was
\* stored, which was in time for its run.
SnapshotsLive ==
  \A n \in Names :
    snapshots[n] # Missing =>
      /\ now < snapshots[n].exp
      /\ snapshots[n].exp <= snapshots[n].at + MaxRunTicks + TTL

\* What a step does to the snapshots and the runs.
LEMMA StepEffect ==
  ASSUME IInv, Next
  PROVE  /\ now' \in {now, now + 1}
         /\ \A n \in Names :
              \/ snapshots'[n] = Missing
              \/ snapshots'[n] = snapshots[n] /\ (now' = now \/ now' < snapshots[n].exp)
              \/ now' = now /\ \E r \in runs : snapshots'[n] = Stored(r)
         /\ \A q \in runs' : q.at = now' \/ \E r \in runs : q.at = r.at
<1>1. CASE Tick
  <2>1. now \in Nat /\ now' = now + 1
    BY <1>1, FlightsJobAssumption DEF IInv, TypeOK, Tick, Time
  <2>2. ASSUME NEW n \in Names, snapshots'[n] # Missing
        PROVE  snapshots'[n] = snapshots[n] /\ now' < snapshots[n].exp
    <3>1. snapshots'[n] = snapshots[n] /\ ~(snapshots[n].exp <= now + 1)
      BY <1>1, <2>2 DEF Tick, Unexpired, IInv, TypeOK
    <3>2. snapshots[n].exp \in Nat
      BY <2>2, <3>1 DEF IInv, TypeOK, Snapshot
    <3> QED
      BY <2>1, <3>1, <3>2
  <2>3. \A q \in runs' : q \in runs \/ q.at = now'
    BY <1>1, <2>1 DEF Tick, Fire, NewRun
  <2> QED
    BY <2>1, <2>2, <2>3
<1>2. CASE RunStep
  <2>1. PICK r \in runs :
          \/ \E cached \in CachedSessions : ReadActiveSessions(r, cached)
          \/ \E s \in Sessions : PassOver(r, s) \/ FetchFlights(r, s)
          \/ \E f \in Flights : LoadHistory(r, f)
          \/ StoreHistory(r) \/ StoreSnapshot(r) \/ Finish(r)
    BY <1>2 DEF RunStep
  <2>2. r \in Run
    BY DEF IInv, TypeOK
  <2>3. now' = now
    BY <2>1 DEF ReadActiveSessions, PassOver, FetchFlights, LoadHistory, StoreHistory,
                StoreSnapshot, Finish
  <2>4. \A n \in Names : snapshots'[n] = snapshots[n] \/ snapshots'[n] = Stored(r)
    <3>1. CASE StoreSnapshot(r)
      BY <3>1 DEF StoreSnapshot, IInv, TypeOK
    <3>2. CASE ~StoreSnapshot(r)
      BY <2>1, <3>2 DEF ReadActiveSessions, PassOver, FetchFlights, LoadHistory,
                        StoreHistory, Finish, redis
    <3> QED
      BY <3>1, <3>2
  <2>5. \A q \in runs' : q \in runs \/ q.at = now \/ q.at = r.at
    <3>1. ASSUME NEW r2, Continue(r, r2), r2.at \in {now, r.at}
          PROVE  \A q \in runs' : q \in runs \/ q.at = now \/ q.at = r.at
      BY <3>1 DEF Continue
    <3>2. Succeed(r) => \A q \in runs' : q \in runs
      BY DEF Succeed
    <3>3. ASSUME NEW cached \in CachedSessions, ReadActiveSessions(r, cached)
          PROVE  \A q \in runs' : q \in runs \/ q.at = now \/ q.at = r.at
      <4>1. [r EXCEPT !.pc = "refresh", !.at = now, !.todo = cached].at = now
        BY <2>2 DEF Run
      <4> QED
        BY <3>1, <3>2, <3>3, <4>1 DEF ReadActiveSessions
    <3>4. ASSUME NEW s \in Sessions, PassOver(r, s)
          PROVE  \A q \in runs' : q \in runs \/ q.at = now \/ q.at = r.at
      <4>1. [r EXCEPT !.todo = @ \ {s}].at = r.at
        BY <2>2 DEF Run
      <4> QED
        BY <3>1, <3>4, <4>1 DEF PassOver
    <3>5. ASSUME NEW s \in Sessions, FetchFlights(r, s)
          PROVE  \A q \in runs' : q \in runs \/ q.at = now \/ q.at = r.at
      <4>1. PICK found, prior :
              Continue(r, [r EXCEPT !.pc = "histories", !.todo = @ \ {s},
                                    !.name = NameOf[s], !.prior = prior, !.found = found,
                                    !.pending = Continuing(prior, found)])
        BY <3>5 DEF FetchFlights
      <4>2. [r EXCEPT !.pc = "histories", !.todo = @ \ {s},
                      !.name = NameOf[s], !.prior = prior, !.found = found,
                      !.pending = Continuing(prior, found)].at = r.at
        BY <2>2 DEF Run
      <4> QED
        BY <3>1, <4>1, <4>2
    <3>6. ASSUME NEW f \in Flights, LoadHistory(r, f)
          PROVE  \A q \in runs' : q \in runs \/ q.at = now \/ q.at = r.at
      <4>1. PICK trail :
              Continue(r, [r EXCEPT !.pc = "store", !.flight = f, !.loaded = trail])
        BY <3>6 DEF LoadHistory
      <4>2. [r EXCEPT !.pc = "store", !.flight = f, !.loaded = trail].at = r.at
        BY <2>2 DEF Run
      <4> QED
        BY <3>1, <4>1, <4>2
    <3>7. StoreHistory(r) \/ StoreSnapshot(r) =>
            \A q \in runs' : q \in runs \/ q.at = now \/ q.at = r.at
      <4>1. /\ [r EXCEPT !.pc = "histories", !.pending = @ \ {r.flight},
                         !.flight = Missing, !.loaded = << >>].at = r.at
            /\ [r EXCEPT !.pc = "refresh", !.name = NoName,
                         !.prior = Missing, !.found = {}].at = r.at
        BY <2>2 DEF Run
      <4> QED
        BY <3>1, <4>1 DEF StoreHistory, StoreSnapshot
    <3> QED
      BY <2>1, <3>2, <3>3, <3>4, <3>5, <3>6, <3>7 DEF Finish
  <2> QED
    BY <2>3, <2>4, <2>5
<1>3. CASE Crash \/ Restart \/ Terminating
  BY <1>3 DEF Crash, Restart, Terminating, vars, redis
<1> QED
  BY <1>1, <1>2, <1>3 DEF Next

\* What no position of a server is older than, the past of the run among it.
NothingOlder(n, t) ==
  /\ t <= now
  /\ snapshots[n] # Missing => t <= snapshots[n].at
  /\ \A r \in runs : t <= r.at

\* It stays so: whoever has seen a position of a server will not see one that is
\* older, though the snapshot may expire, or not be stored, in between.
LEMMA NothingOlderStays ==
  ASSUME IInv, Next, NEW n \in Names, NEW t \in Nat, NothingOlder(n, t)
  PROVE  NothingOlder(n, t)'
<1>1. now \in Nat /\ now' \in Nat /\ now <= now'
  BY StepEffect, FlightsJobAssumption DEF IInv, TypeOK, Time
<1>2. \A r \in runs : r.at \in Nat /\ t <= r.at
  BY FlightsJobAssumption DEF IInv, TypeOK, Run, Time, NothingOlder
<1>3. t <= now'
  BY <1>1 DEF NothingOlder
<1>4. snapshots'[n] # Missing => t <= snapshots'[n].at
  <2>1. \A r \in runs : Stored(r).at = r.at
    BY DEF Stored
  <2>2. \/ snapshots'[n] \in {snapshots[n], Missing}
        \/ \E r \in runs : snapshots'[n] = Stored(r)
    BY StepEffect
  <2> QED
    BY <1>2, <2>1, <2>2 DEF NothingOlder
<1>5. \A q \in runs' : t <= q.at
  BY <1>2, <1>3, StepEffect
<1> QED
  BY <1>3, <1>4, <1>5 DEF NothingOlder

\* What is now read of a server is such a position.
LEMMA NothingOlderNow ==
  ASSUME IInv, NEW n \in Names, snapshots[n] # Missing
  PROVE  NothingOlder(n, snapshots[n].at)
<1>1. snapshots[n].at \in Nat
  BY FlightsJobAssumption DEF IInv, TypeOK, Snapshot, Time
<1> QED
  BY <1>1 DEF IInv, SnapshotsInPast, RunIsNewest, NothingOlder

\* No snapshot outlives its run by more than the time to live.
THEOREM SnapshotsExpire == Spec => [](IInv /\ TrailInv /\ SnapshotsLive)
<1>1. Init => SnapshotsLive
  BY DEF Init, SnapshotsLive
<1>2. IInv /\ TrailInv /\ SnapshotsLive /\ [Next]_vars => SnapshotsLive'
  <2> SUFFICES ASSUME IInv, TrailInv, SnapshotsLive, Next, NEW n \in Names,
                      snapshots'[n] # Missing
               PROVE  /\ now' < snapshots'[n].exp
                      /\ snapshots'[n].exp <= snapshots'[n].at + MaxRunTicks + TTL
    BY DEF SnapshotsLive, vars
  <2>1. CASE snapshots'[n] = snapshots[n] /\ (now' = now \/ now' < snapshots[n].exp)
    BY <2>1 DEF SnapshotsLive
  <2>2. ASSUME now' = now, NEW r \in runs, snapshots'[n] = Stored(r)
        PROVE  /\ now' < snapshots'[n].exp
               /\ snapshots'[n].exp <= snapshots'[n].at + MaxRunTicks + TTL
    <3>1. r.at \in Nat /\ now \in Nat /\ MaxRunTicks \in Nat /\ TTL \in Nat /\ TTL > 0
      BY FlightsJobAssumption DEF IInv, TypeOK, Run, Time
    <3>2. now <= r.at + MaxRunTicks
      BY DEF TrailInv, HoldsOn
    <3> QED
      BY <2>2, <3>1, <3>2 DEF Stored
  <2> QED
    BY <2>1, <2>2, StepEffect
<1> QED
  BY <1>1, <1>2, TrailInvariance, PTL DEF Spec
-----------------------------------------------------------------------------
(* The job seen as FlightTrail.                                            *)

\* What the run r says of the position of f, and of its trail, when Redis says
\* nothing any more.
PriorAt(r, f) ==
  IF r.prior # Missing /\ f \in r.prior.flights THEN r.prior.at ELSE None

LoadedOf(r, f) ==
  IF r.pc = "store" /\ r.flight = f THEN r.loaded ELSE << >>

\* The refinement mapping without its choices: there is but one run to choose.
ViewIs ==
  /\ ShownPosition = [f \in Flights |-> ShownPosition[f]]
  /\ StoredTrail = [f \in Flights |-> StoredTrail[f]]
  /\ \A f \in Flights :
       /\ Shown(f) => ShownPosition[f] = snapshots[Server(f)].at
       /\ histories[f] # Missing => StoredTrail[f] = histories[f].trail
       /\ runs = {} /\ ~Shown(f) => ShownPosition[f] = None
       /\ runs = {} /\ histories[f] = Missing => StoredTrail[f] = << >>
       /\ \A r \in runs :
            /\ ~Shown(f) => ShownPosition[f] = PriorAt(r, f)
            /\ histories[f] = Missing => StoredTrail[f] = LoadedOf(r, f)

LEMMA ViewOfOneRun == SingleRun => ViewIs
<1> SUFFICES ASSUME SingleRun PROVE ViewIs
  OBVIOUS
<1>1. /\ ShownPosition = [f \in Flights |-> ShownPosition[f]]
      /\ StoredTrail = [f \in Flights |-> StoredTrail[f]]
  BY DEF ShownPosition, StoredTrail
<1>2. ASSUME NEW f \in Flights
      PROVE  /\ Shown(f) => ShownPosition[f] = snapshots[Server(f)].at
             /\ histories[f] # Missing => StoredTrail[f] = histories[f].trail
             /\ runs = {} /\ ~Shown(f) => ShownPosition[f] = None
             /\ runs = {} /\ histories[f] = Missing => StoredTrail[f] = << >>
  BY DEF ShownPosition, StoredTrail, HeldPosition, HeldTrail
<1>3. ASSUME NEW f \in Flights, NEW r \in runs
      PROVE  /\ ~Shown(f) => ShownPosition[f] = PriorAt(r, f)
             /\ histories[f] = Missing => StoredTrail[f] = LoadedOf(r, f)
  <2>1. \A q \in runs : q = r
    BY DEF SingleRun
  <2>2. HeldPosition(f) \in {{}, {r}} /\ HeldTrail(f) \in {{}, {r}}
    BY <2>1 DEF HeldPosition, HeldTrail
  <2>3. HeldPosition(f) = {r} <=> r.prior # Missing /\ f \in r.prior.flights
    BY <2>1 DEF HeldPosition
  <2>4. HeldTrail(f) = {r} <=> r.pc = "store" /\ r.flight = f
    BY <2>1 DEF HeldTrail
  <2>5. (CHOOSE q \in {r} : TRUE) = r
    OBVIOUS
  <2>6. ~Shown(f) => ShownPosition[f] = PriorAt(r, f)
    BY <2>2, <2>3, <2>5 DEF ShownPosition, PriorAt
  <2>7. histories[f] = Missing => StoredTrail[f] = LoadedOf(r, f)
    BY <2>2, <2>4, <2>5 DEF StoredTrail, LoadedOf
  <2> QED
    BY <2>6, <2>7
<1> QED
  BY <1>1, <1>2, <1>3 DEF ViewIs

LEMMA ViewAfter == SingleRun' => ViewIs'
BY ViewOfOneRun, PTL


\* A step after which nothing is there that was not there before.
LEMMA OnlyForgotten ==
  ASSUME IInv, IInv',
         \A f \in Flights : ShownPosition'[f] \in {ShownPosition[f], None},
         \A f \in Flights : StoredTrail'[f] \in {StoredTrail[f], << >>}
  PROVE  Abstract!Forget
<1>1. ViewIs /\ ViewIs'
  BY ViewOfOneRun, ViewAfter DEF IInv
<1> DEFINE hidden == {f \in Flights : ShownPosition'[f] # ShownPosition[f]}
           lost == {f \in Flights : StoredTrail'[f] # StoredTrail[f]}
<1>2. ShownPosition' = [f \in Flights |-> IF f \in hidden THEN None ELSE ShownPosition[f]]
  BY <1>1 DEF ViewIs
<1>3. StoredTrail' = [f \in Flights |-> IF f \in lost THEN << >> ELSE StoredTrail[f]]
  BY <1>1 DEF ViewIs
<1>4. hidden \in SUBSET Flights /\ lost \in SUBSET Flights
  OBVIOUS
<1> HIDE DEF hidden, lost
<1> QED
  BY <1>2, <1>3, <1>4 DEF Abstract!Forget

\* A step of a run that leaves Redis alone and goes on with what it held.
LEMMA SameView ==
  ASSUME IInv, IInv', NEW r \in runs, NEW r2, Continue(r, r2), UNCHANGED redis,
         \A f \in Flights :
           /\ ~Shown(f) => PriorAt(r2, f) = PriorAt(r, f)
           /\ histories[f] = Missing => LoadedOf(r2, f) = LoadedOf(r, f)
  PROVE  UNCHANGED Abstract!vars
<1>1. ViewIs /\ ViewIs' /\ runs' = {r2}
  BY ViewOfOneRun, ViewAfter, OnlyRun DEF IInv
<1>2. ASSUME NEW f \in Flights
      PROVE  ShownPosition'[f] = ShownPosition[f] /\ StoredTrail'[f] = StoredTrail[f]
  <2>1. (Shown(f)' <=> Shown(f)) /\ snapshots' = snapshots /\ histories' = histories
    BY DEF redis, Shown, Server
  <2>2. PriorAt(r2, f)' = PriorAt(r2, f) /\ LoadedOf(r2, f)' = LoadedOf(r2, f)
    BY DEF PriorAt, LoadedOf
  <2>3. Shown(f) => ShownPosition'[f] = ShownPosition[f]
    BY <1>1, <2>1 DEF ViewIs, Server
  <2>4. ~Shown(f) => ShownPosition'[f] = ShownPosition[f]
    BY <1>1, <2>1, <2>2 DEF ViewIs
  <2>5. StoredTrail'[f] = StoredTrail[f]
    BY <1>1, <2>1, <2>2 DEF ViewIs
  <2> QED
    BY <2>3, <2>4, <2>5
<1> QED
  BY <1>1, <1>2 DEF ViewIs, Abstract!vars

\* A run that is over held nothing.
LEMMA NothingHeld ==
  ASSUME IInv, IInv', NEW r \in runs, r.prior = Missing, r.pc # "store",
         runs' = {}, UNCHANGED redis
  PROVE  UNCHANGED Abstract!vars
<1>1. ViewIs /\ ViewIs'
  BY ViewOfOneRun, ViewAfter DEF IInv
<1>2. ASSUME NEW f \in Flights
      PROVE  ShownPosition'[f] = ShownPosition[f] /\ StoredTrail'[f] = StoredTrail[f]
  <2>1. (Shown(f)' <=> Shown(f)) /\ snapshots' = snapshots /\ histories' = histories
    BY DEF redis, Shown, Server
  <2>2. PriorAt(r, f) = None /\ LoadedOf(r, f) = << >>
    BY DEF PriorAt, LoadedOf
  <2> QED
    BY <1>1, <2>1, <2>2 DEF ViewIs, Server
<1> QED
  BY <1>1, <1>2 DEF ViewIs, Abstract!vars

LEMMA TickForgets ==
  ASSUME IInv, IInv', TrailInv, "readHistory" \notin Faults, Tick
  PROVE  Abstract!Forget
<1>1. ViewIs /\ ViewIs'
  BY ViewOfOneRun, ViewAfter DEF IInv
<1>2. runs' = runs \/ (runs = {} /\ runs' \subseteq {NewRun(now + 1)})
  BY DEF Tick, Fire
<1>3. NewRun(now + 1).prior = Missing /\ NewRun(now + 1).pc = "sessions"
  BY DEF NewRun
<1>4. ASSUME NEW f \in Flights
      PROVE  ShownPosition'[f] \in {ShownPosition[f], None}
  <2>1. Server(f) \in Names \cup {NoName} /\ Server(f)' = Server(f)
    BY ServerType DEF Server
  <2>2. \A n \in Names : snapshots'[n] \in {snapshots[n], Missing}
    BY DEF IInv, TypeOK, Tick, Unexpired
  <2>3. Shown(f)' => Shown(f) /\ snapshots'[Server(f)] = snapshots[Server(f)]
    BY <2>1, <2>2 DEF Shown
  <2>4. CASE Shown(f)'
    BY <1>1, <2>1, <2>3, <2>4 DEF ViewIs
  <2>5. CASE ~Shown(f)' /\ runs' = {}
    BY <1>1, <2>5 DEF ViewIs
  <2>6. ASSUME ~Shown(f)', NEW r \in runs'
        PROVE  ShownPosition'[f] \in {ShownPosition[f], None}
    <3>1. ShownPosition'[f] = PriorAt(r, f)
      <4>1. PriorAt(r, f)' = PriorAt(r, f)
        BY DEF PriorAt
      <4> QED
        BY <1>1, <2>6, <4>1 DEF ViewIs
    <3>2. CASE r = NewRun(now + 1)
      BY <1>3, <3>1, <3>2 DEF PriorAt
    <3>3. CASE r \in runs
      <4>1. HoldsPrior(r) /\ RunHolds(r) /\ r \in Run
        BY <3>3 DEF IInv, TypeOK, TrailInv, HoldsOn
      <4>2. CASE ~Shown(f)
        BY <1>1, <3>1, <3>3, <4>2 DEF ViewIs
      <4>3. CASE Shown(f) /\ r.prior # Missing /\ f \in r.prior.flights
        <5>1. Server(f) = r.name /\ snapshots[r.name] = r.prior
          BY <4>1, <4>3 DEF HoldsPrior, RunHolds, Run, Shown
        <5>2. PriorAt(r, f) = snapshots[Server(f)].at
          BY <4>3, <5>1 DEF PriorAt
        <5> QED
          BY <1>1, <3>1, <4>3, <5>2 DEF ViewIs
      <4>4. CASE ~(r.prior # Missing /\ f \in r.prior.flights)
        BY <3>1, <4>4 DEF PriorAt
      <4> QED
        BY <4>2, <4>3, <4>4
    <3> QED
      BY <1>2, <3>2, <3>3
  <2> QED
    BY <2>4, <2>5, <2>6
<1>5. ASSUME NEW f \in Flights
      PROVE  StoredTrail'[f] \in {StoredTrail[f], << >>}
  <2>1. histories'[f] \in {histories[f], Missing}
    BY DEF IInv, TypeOK, Tick, Unexpired
  <2>2. CASE histories'[f] # Missing
    BY <1>1, <2>1, <2>2 DEF ViewIs
  <2>3. CASE histories'[f] = Missing /\ runs' = {}
    BY <1>1, <2>3 DEF ViewIs
  <2>4. ASSUME histories'[f] = Missing, NEW r \in runs'
        PROVE  StoredTrail'[f] \in {StoredTrail[f], << >>}
    <3>1. StoredTrail'[f] = LoadedOf(r, f)
      <4>1. LoadedOf(r, f)' = LoadedOf(r, f)
        BY DEF LoadedOf
      <4> QED
        BY <1>1, <2>4, <4>1 DEF ViewIs
    <3>2. CASE r = NewRun(now + 1)
      BY <1>3, <3>1, <3>2 DEF LoadedOf
    <3>3. CASE r \in runs
      <4>1. HoldsTrail(r)
        BY <3>3 DEF TrailInv, HoldsOn
      <4>2. CASE histories[f] = Missing
        BY <1>1, <3>1, <3>3, <4>2 DEF ViewIs
      <4>3. CASE histories[f] # Missing /\ r.pc = "store" /\ r.flight = f
        <5>1. LoadedOf(r, f) = histories[f].trail
          BY <4>1, <4>3 DEF HoldsTrail, LoadedOf
        <5> QED
          BY <1>1, <3>1, <4>3, <5>1 DEF ViewIs
      <4>4. CASE ~(r.pc = "store" /\ r.flight = f)
        BY <3>1, <4>4 DEF LoadedOf
      <4> QED
        BY <4>2, <4>3, <4>4
    <3> QED
      BY <1>2, <3>2, <3>3
  <2> QED
    BY <2>2, <2>3, <2>4
<1> QED
  BY <1>4, <1>5, OnlyForgotten

LEMMA CrashForgets ==
  ASSUME IInv, IInv', Crash
  PROVE  Abstract!Forget
<1>1. ViewIs /\ ViewIs' /\ runs' = {}
  BY ViewOfOneRun, ViewAfter DEF IInv, Crash
<1>2. ASSUME NEW f \in Flights
      PROVE  /\ ShownPosition'[f] \in {ShownPosition[f], None}
             /\ StoredTrail'[f] \in {StoredTrail[f], << >>}
  <2>1. (Shown(f)' <=> Shown(f)) /\ snapshots' = snapshots /\ histories' = histories
    BY DEF Crash, redis, Shown, Server
  <2> QED
    BY <1>1, <2>1 DEF ViewIs, Server
<1> QED
  BY <1>2, OnlyForgotten

LEMMA StoreHistoryRecords ==
  ASSUME IInv, IInv', TrailInv, NEW r \in runs,
         {"readHistory", "storeHistory"} \cap Faults = {}, StoreHistory(r)
  PROVE  \E f \in Flights : Abstract!Record(f)
<1> DEFINE g == r.flight
           r2 == [r EXCEPT !.pc = "histories", !.pending = @ \ {r.flight},
                           !.flight = Missing, !.loaded = << >>]
           new == NextHistory(r.loaded, r.prior.at, MaxHistory)
<1>1. r \in Run /\ r.pc = "store" /\ HoldsTrail(r) /\ RunHolds(r)
  BY DEF IInv, TypeOK, TrailInv, HoldsOn, StoreHistory
<1>2. r2.pc = "histories" /\ r2.prior = r.prior
  BY <1>1 DEF Run
<1>3. runs' = {r2} /\ snapshots' = snapshots
  BY OnlyRun DEF StoreHistory, IInv
<1>4. /\ g \in Flights /\ r.prior # Missing /\ r.prior.at \in Time
      /\ g \in r.prior.flights /\ Server(g) = r.name
      /\ \A f \in Flights \ {g} : histories'[f] = histories[f]
      /\ histories'[g] # Missing /\ histories'[g].trail = new
  <2>1. "storeHistory" \notin Faults
    OBVIOUS
  <2> HIDE DEF new
  <2>2. histories'[g] = [trail |-> new, exp |-> now + TTL]
    BY <2>1, StoredHistories DEF new
  <2>3. histories'[g].trail = new
    BY <2>2
  <2>4. histories'[g] # Missing /\ \A f \in Flights \ {g} : histories'[f] = histories[f]
    BY <2>1, StoredHistories
  <2> QED
    BY <2>3, <2>4, StoredHistories
<1>5. ViewIs /\ ViewIs'
  BY ViewOfOneRun, ViewAfter DEF IInv
<1> HIDE DEF r2, new, g
<1>6. ASSUME NEW f \in Flights PROVE ShownPosition'[f] = ShownPosition[f]
  <2>1. Shown(f)' <=> Shown(f)
    BY <1>3 DEF Shown, Server
  <2>2. PriorAt(r2, f)' = PriorAt(r, f)
    BY <1>2 DEF PriorAt
  <2> QED
    BY <1>3, <1>5, <2>1, <2>2 DEF ViewIs, Server
<1>7. ShownPosition[g] = r.prior.at
  <2>1. CASE Shown(g)
    <3>1. snapshots[Server(g)] = r.prior
      BY <1>1, <1>4, <2>1 DEF Shown, RunHolds
    <3> QED
      BY <1>4, <1>5, <2>1, <3>1 DEF ViewIs
  <2>2. CASE ~Shown(g)
    BY <1>4, <1>5, <2>2 DEF ViewIs, PriorAt
  <2> QED
    BY <2>1, <2>2
<1>8. StoredTrail[g] = r.loaded
  BY <1>1, <1>4, <1>5 DEF ViewIs, LoadedOf, HoldsTrail, g
<1>9. StoredTrail'[g] = NextHistory(StoredTrail[g], ShownPosition[g], MaxHistory)
  BY <1>4, <1>5, <1>7, <1>8 DEF ViewIs, new
<1>10. ASSUME NEW f \in Flights \ {g} PROVE StoredTrail'[f] = StoredTrail[f]
  <2>1. LoadedOf(r, f) = << >> /\ LoadedOf(r2, f)' = << >>
    BY <1>2 DEF LoadedOf, g
  <2> QED
    BY <1>3, <1>4, <1>5, <2>1 DEF ViewIs
<1>11. ShownPosition' = ShownPosition
  BY <1>5, <1>6 DEF ViewIs
<1>12. StoredTrail' = [StoredTrail EXCEPT ![g] =
                         NextHistory(@, ShownPosition[g], MaxHistory)]
  BY <1>4, <1>5, <1>9, <1>10 DEF ViewIs
<1>13. ShownPosition[g] # None
  BY <1>4, <1>7, FlightsJobTrailAssumption
<1>14. \A h, p, cap : Abstract!NextHistory(h, p, cap) = NextHistory(h, p, cap)
  BY DEF Abstract!NextHistory, Abstract!Newest, NextHistory, Newest
<1> QED
  BY <1>4, <1>11, <1>12, <1>13, <1>14 DEF Abstract!Record

\* What a run that is about to leave a session knows of the positions shown.
LEMMA PositionsBefore ==
  ASSUME IInv, TrailInv, "readSnapshot" \notin Faults,
         NEW r \in runs, r.pc \in {"histories", "store"}, NEW f \in Flights
  PROVE  ShownPosition[f] # None /\ Server(f) = r.name =>
           r.prior # Missing /\ f \in r.prior.flights /\ ShownPosition[f] = r.prior.at
<1>1. ViewIs /\ RunHolds(r) /\ HoldsPrior(r)
  BY ViewOfOneRun DEF IInv, TrailInv, HoldsOn
<1>2. CASE Shown(f) /\ Server(f) = r.name
  <2>1. snapshots[r.name] # Missing /\ f \in snapshots[r.name].flights
    BY <1>2 DEF Shown
  <2>2. r.prior # Missing /\ snapshots[r.name] = r.prior
    BY <1>1, <2>1 DEF RunHolds, HoldsPrior
  <2> QED
    BY <1>1, <1>2, <2>1, <2>2 DEF ViewIs
<1>3. CASE ~Shown(f)
  BY <1>1, <1>3 DEF ViewIs, PriorAt
<1> QED
  BY <1>2, <1>3

LEMMA StoreSnapshotShows ==
  ASSUME IInv, IInv', TrailInv, NoFlightID \notin Flights, NEW r \in runs,
         {"readSnapshot", "storeHistory"} \cap Faults = {}, StoreSnapshot(r)
  PROVE  \/ Abstract!Forget
         \/ \E server \in Names, found \in SUBSET Flights, t \in Time :
              Abstract!Show(server, found, t)
<1> DEFINE r2 == [r EXCEPT !.pc = "refresh", !.name = NoName,
                           !.prior = Missing, !.found = {}]
<1>1. /\ r \in Run /\ r.pc = "histories" /\ r.pending = {}
      /\ RunHolds(r) /\ HoldsPrior(r) /\ HasRecorded(r)
  BY DEF IInv, TypeOK, TrailInv, HoldsOn, StoreSnapshot
<1>2. r2.pc = "refresh" /\ r2.prior = Missing
  BY <1>1 DEF Run
<1>3. runs' = {r2} /\ histories' = histories
  BY OnlyRun DEF StoreSnapshot, IInv
<1>4. ViewIs /\ ViewIs'
  BY ViewOfOneRun, ViewAfter DEF IInv
<1> HIDE DEF r2
<1>5. \A f \in Flights : StoredTrail'[f] = StoredTrail[f]
  <2> TAKE f \in Flights
  <2>1. LoadedOf(r, f) = << >> /\ LoadedOf(r2, f)' = << >>
    BY <1>1, <1>2 DEF LoadedOf
  <2> QED
    BY <1>3, <1>4, <2>1 DEF ViewIs
<1>6. \A f \in Flights : ~Shown(f)' => ShownPosition'[f] = None
  BY <1>2, <1>3, <1>4 DEF ViewIs, PriorAt
<1>7. CASE snapshots' = snapshots
  <2>1. \A f \in Flights : ShownPosition'[f] \in {ShownPosition[f], None}
    <3> TAKE f \in Flights
    <3>1. Shown(f)' => ShownPosition'[f] = ShownPosition[f]
      BY <1>4, <1>7 DEF ViewIs, Shown, Server
    <3> QED
      BY <1>6, <3>1
  <2> QED
    BY <1>5, <2>1, OnlyForgotten
<1>8. CASE snapshots' = [snapshots EXCEPT ![r.name] = Stored(r)]
  <2>1. /\ r.name \in Names /\ r.found \in SUBSET Flights /\ r.at \in Time
        /\ \A f \in r.found : Server(f) = r.name
    BY <1>1 DEF RunHolds, Run
  <2>2. r.name # NoName
    BY <2>1, FlightsJobAssumption
  <2>3. Stored(r) # Missing /\ Stored(r).at = r.at /\ Stored(r).flights = r.found
    BY <2>1, FlightsJobAssumption, FlightsJobTrailAssumption
       DEF Stored, Snapshot, IInv, TypeOK, Time
  <2>4. /\ snapshots'[r.name] = Stored(r)
        /\ \A n \in Names \ {r.name} : snapshots'[n] = snapshots[n]
    BY <1>8, <2>1 DEF IInv, TypeOK
  <2>5. ASSUME NEW f \in Flights
        PROVE  ShownPosition'[f] = IF Server(f) # r.name THEN ShownPosition[f]
                                   ELSE IF f \in r.found THEN r.at ELSE None
    <3>1. CASE Server(f) # r.name
      <4>1. /\ Shown(f)' <=> Shown(f)
            /\ Shown(f) => snapshots'[Server(f)] = snapshots[Server(f)]
        BY <2>4, <3>1, ServerType DEF Shown, Server
      <4>2. CASE Shown(f)
        BY <1>4, <3>1, <4>1, <4>2 DEF ViewIs, Server
      <4>3. CASE ~Shown(f)
        <5>1. PriorAt(r, f) = None
          BY <1>1, <3>1 DEF HoldsPrior, PriorAt
        <5> QED
          BY <1>4, <1>6, <3>1, <4>1, <4>3, <5>1 DEF ViewIs
      <4> QED
        BY <3>1, <4>2, <4>3
    <3>2. CASE Server(f) = r.name
      <4>1. Shown(f)' <=> f \in r.found
        BY <2>2, <2>3, <2>4, <3>2 DEF Shown, Server
      <4>2. f \in r.found => ShownPosition'[f] = r.at
        BY <1>4, <2>3, <2>4, <3>2, <4>1 DEF ViewIs, Server
      <4> QED
        BY <1>6, <3>2, <4>1, <4>2
    <3> QED
      BY <3>1, <3>2
  <2>6. ASSUME NEW f \in Flights, Server(f) = r.name, ShownPosition[f] # None
        PROVE  /\ ShownPosition[f] <= r.at
               /\ f \in r.found => /\ StoredTrail[f] # << >>
                                   /\ StoredTrail[f][Len(StoredTrail[f])] = ShownPosition[f]
    <3>1. r.prior # Missing /\ f \in r.prior.flights /\ ShownPosition[f] = r.prior.at
      BY <1>1, <2>6, PositionsBefore
    <3>2. r.prior.at <= r.at
      BY <1>1, <3>1 DEF RunHolds
    <3>3. ASSUME f \in r.found
          PROVE  histories[f] # Missing /\ EndsWith(histories[f].trail, r.prior.at)
      BY <1>1, <3>1, <3>3 DEF HasRecorded, Continuing
    <3> QED
      BY <1>4, <3>1, <3>2, <3>3 DEF ViewIs, EndsWith
  <2>7. ShownPosition' = [f \in Flights |->
                            IF Server(f) # r.name THEN ShownPosition[f]
                            ELSE IF f \in r.found THEN r.at ELSE None]
    BY <1>4, <2>5 DEF ViewIs
  <2>8. StoredTrail' = StoredTrail
    BY <1>4, <1>5 DEF ViewIs
  <2>9. \A f \in Flights : ServerOfFlight[f] = Server(f)
    BY DEF ServerOfFlight
  <2>10. Abstract!Show(r.name, r.found, r.at)
    BY <2>1, <2>6, <2>7, <2>8, <2>9 DEF Abstract!Show, Abstract!Recorded
  <2> QED
    BY <2>1, <2>10
<1> QED
  BY <1>7, <1>8 DEF StoreSnapshot

LEMMA RunStepRefines ==
  ASSUME IInv, IInv', TrailInv, NoFlightID \notin Flights, RunStep,
         {"readSnapshot", "readHistory", "storeHistory"} \cap Faults = {}
  PROVE  Abstract!Next \/ UNCHANGED Abstract!vars
<1>1. PICK r \in runs :
        \/ \E cached \in CachedSessions : ReadActiveSessions(r, cached)
        \/ \E s \in Sessions : PassOver(r, s) \/ FetchFlights(r, s)
        \/ \E f \in Flights : LoadHistory(r, f)
        \/ StoreHistory(r) \/ StoreSnapshot(r) \/ Finish(r)
  BY DEF RunStep
<1>2. /\ r \in Run /\ HoldsPrior(r) /\ SingleRun
      /\ r.pc \in {"sessions", "refresh"} => r.prior = Missing /\ r.pc # "store"
  BY DEF IInv, TypeOK, TrailInv, HoldsOn, HoldsPrior
<1>3. ASSUME NEW cached \in CachedSessions, ReadActiveSessions(r, cached)
      PROVE  UNCHANGED Abstract!vars
  <2>1. CASE cached = Missing \/ cached = {}
    BY <1>2, <1>3, <2>1, RunEnds, NothingHeld DEF ReadActiveSessions
  <2>2. CASE ~(cached = Missing \/ cached = {})
    <3> DEFINE r2 == [r EXCEPT !.pc = "refresh", !.at = now, !.todo = cached]
    <3>1. r.pc = "sessions" /\ Continue(r, r2) /\ UNCHANGED redis
      BY <1>3, <2>2 DEF ReadActiveSessions
    <3>2. r2.pc = "refresh" /\ r2.prior = r.prior
      BY <1>2 DEF Run
    <3> HIDE DEF r2
    <3>3. \A f \in Flights : PriorAt(r2, f) = PriorAt(r, f) /\ LoadedOf(r2, f) = LoadedOf(r, f)
      BY <3>1, <3>2 DEF PriorAt, LoadedOf
    <3> QED
      BY <3>1, <3>3, SameView
  <2> QED
    BY <2>1, <2>2
<1>4. ASSUME NEW s \in Sessions, PassOver(r, s)
      PROVE  UNCHANGED Abstract!vars
  <2> DEFINE r2 == [r EXCEPT !.todo = @ \ {s}]
  <2>1. r.pc = "refresh" /\ Continue(r, r2) /\ UNCHANGED redis
    BY <1>4 DEF PassOver
  <2>2. r2.pc = r.pc /\ r2.prior = r.prior
    BY <1>2 DEF Run
  <2> HIDE DEF r2
  <2>3. \A f \in Flights : PriorAt(r2, f) = PriorAt(r, f) /\ LoadedOf(r2, f) = LoadedOf(r, f)
    BY <2>1, <2>2 DEF PriorAt, LoadedOf
  <2> QED
    BY <2>1, <2>3, SameView
<1>5. ASSUME NEW s \in Sessions, FetchFlights(r, s)
      PROVE  UNCHANGED Abstract!vars
  <2>1. PICK found \in GetSessionFlights(s) \ {Missing},
             prior \in ReadOutcomes(snapshots[NameOf[s]], "readSnapshot") :
          Continue(r, [r EXCEPT !.pc = "histories", !.todo = @ \ {s},
                                !.name = NameOf[s], !.prior = prior,
                                !.found = found,
                                !.pending = Continuing(prior, found)])
    BY <1>5 DEF FetchFlights
  <2> DEFINE r2 == [r EXCEPT !.pc = "histories", !.todo = @ \ {s},
                             !.name = NameOf[s], !.prior = prior,
                             !.found = found,
                             !.pending = Continuing(prior, found)]
  <2>2. Continue(r, r2) /\ UNCHANGED redis
    BY <1>5, <2>1 DEF FetchFlights
  <2>3. r2.pc = "histories" /\ r2.prior = prior
    BY <1>2 DEF Run
  <2>4. r.pc = "refresh" /\ NameOf[s] \in Names /\ prior = snapshots[NameOf[s]]
    BY <1>5, FlightsJobAssumption DEF FetchFlights, Refreshable, ReadOutcomes
  <2> HIDE DEF r2
  <2>5. ASSUME NEW f \in Flights, ~Shown(f)
        PROVE  PriorAt(r2, f) = PriorAt(r, f)
    <3>1. prior # Missing => f \notin prior.flights
      BY <2>4, <2>5, FlightsJobAssumption DEF IInv, SnapshotsInPast, Shown
    <3> QED
      BY <1>2, <2>3, <2>4, <3>1 DEF PriorAt
  <2>6. \A f \in Flights : LoadedOf(r2, f) = LoadedOf(r, f)
    BY <2>3, <2>4 DEF LoadedOf
  <2> QED
    BY <2>2, <2>5, <2>6, SameView
<1>6. ASSUME NEW g \in Flights, LoadHistory(r, g)
      PROVE  UNCHANGED Abstract!vars
  <2>1. PICK stored \in ReadOutcomes(histories[g], "readHistory") :
          Continue(r, [r EXCEPT !.pc = "store", !.flight = g,
                       !.loaded = IF stored = Missing THEN << >> ELSE stored.trail])
    BY <1>6 DEF LoadHistory
  <2> DEFINE trail == IF stored = Missing THEN << >> ELSE stored.trail
             r2 == [r EXCEPT !.pc = "store", !.flight = g, !.loaded = trail]
  <2>2. Continue(r, r2) /\ UNCHANGED redis
    BY <1>6, <2>1 DEF LoadHistory
  <2>3. r.pc = "histories" /\ (histories[g] = Missing => trail = << >>)
    BY <1>6 DEF LoadHistory, ReadOutcomes
  <2> HIDE DEF trail
  <2>4. r2.pc = "store" /\ r2.flight = g /\ r2.loaded = trail /\ r2.prior = r.prior
    BY <1>2 DEF Run
  <2> HIDE DEF r2
  <2>5. \A f \in Flights :
          /\ PriorAt(r2, f) = PriorAt(r, f)
          /\ histories[f] = Missing => LoadedOf(r2, f) = LoadedOf(r, f)
    BY <2>3, <2>4 DEF PriorAt, LoadedOf
  <2> QED
    BY <2>2, <2>5, SameView
<1>7. CASE StoreHistory(r)
  BY <1>7, StoreHistoryRecords DEF Abstract!Next
<1>8. CASE StoreSnapshot(r)
  BY <1>8, StoreSnapshotShows DEF Abstract!Next
<1>9. CASE Finish(r)
  BY <1>2, <1>9, RunEnds, NothingHeld DEF Finish
<1> QED
  BY <1>1, <1>3, <1>4, <1>5, <1>6, <1>7, <1>8, <1>9

LEMMA Unmoved ==
  ASSUME IInv, IInv', UNCHANGED <<runs, redis>>
  PROVE  UNCHANGED Abstract!vars
BY DEF Abstract!vars, ShownPosition, StoredTrail, HeldPosition, HeldTrail,
       Shown, Server, redis

\* Where reads succeed and histories are stored, whatever else fails and
\* wherever the process dies: a position is in the flight's history by the
\* time a newer one replaces it.
THEOREM JobImplementsTrail ==
  ASSUME NoFlightID \notin Flights,
         {"readSnapshot", "readHistory", "storeHistory"} \cap Faults = {}
  PROVE  Spec => ImplementsTrail
<1>1. Init => Abstract!Init
  <2> SUFFICES ASSUME Init PROVE Abstract!Init
    OBVIOUS
  <2>1. \A f \in Flights : ~Shown(f)
    BY FlightsJobAssumption DEF Init, Shown, Server
  <2> QED
    BY <2>1 DEF Init, Abstract!Init, ShownPosition, StoredTrail, HeldPosition, HeldTrail
<1>2. IInv /\ TrailInv /\ IInv' /\ [Next]_vars => [Abstract!Next]_(Abstract!vars)
  <2> SUFFICES ASSUME IInv, TrailInv, IInv', [Next]_vars
               PROVE  Abstract!Next \/ UNCHANGED Abstract!vars
    OBVIOUS
  <2>1. CASE Tick
    BY <2>1, TickForgets DEF Abstract!Next
  <2>2. CASE RunStep
    BY <2>2, RunStepRefines
  <2>3. CASE Crash
    BY <2>3, CrashForgets DEF Abstract!Next
  <2>4. CASE Restart \/ UNCHANGED vars
    BY <2>4, Unmoved DEF Restart, vars, redis
  <2> QED
    BY <2>1, <2>2, <2>3, <2>4 DEF Next, Terminating
<1> QED
  BY <1>1, <1>2, TrailInvariance, PTL DEF Spec, ImplementsTrail, Abstract!Spec

\* Where reads succeed, a history that is rewritten has lost nothing but what
\* the cap pushes out, whichever writes fail and wherever the process dies.
THEOREM HistoriesKeepGrowing ==
  ASSUME "readHistory" \notin Faults
  PROVE  Spec => HistoriesOnlyGrow
<1> DEFINE Grown(old, new) == new # << >> /\ new = NextHistory(old, new[Len(new)], MaxHistory)
           Growing == \A f \in Flights :
             histories[f] # Missing /\ histories'[f] # Missing
               /\ histories'[f] # histories[f] =>
                 Grown(histories[f].trail, histories'[f].trail)
<1>1. IInv /\ TrailInv /\ [Next]_vars => [Growing]_vars
  <2> SUFFICES ASSUME IInv, TrailInv, Next, NEW f \in Flights,
                      histories[f] # Missing, histories'[f] # Missing,
                      histories'[f] # histories[f]
               PROVE  Grown(histories[f].trail, histories'[f].trail)
    OBVIOUS
  <2>1. ~Tick
    BY DEF Tick, Unexpired, IInv, TypeOK
  <2>2. PICK r \in runs : StoreHistory(r)
    BY <2>1 DEF Next, RunStep, ReadActiveSessions, PassOver, FetchFlights,
           LoadHistory, StoreSnapshot, Finish, Crash, Restart, Terminating, vars, redis
  <2>3. HoldsTrail(r) /\ r.pc = "store"
    BY <2>2 DEF TrailInv, HoldsOn, StoreHistory
  <2> DEFINE new == NextHistory(r.loaded, r.prior.at, MaxHistory)
  <2>4. f = r.flight /\ histories'[f].trail = new /\ EndsWith(new, r.prior.at)
    <3>1. f = r.flight
      BY <2>2, StoredHistories
    <3>2. EndsWith(new, r.prior.at)
      BY <2>2, StoredHistories
    <3> HIDE DEF new
    <3>3. histories'[f] = [trail |-> new, exp |-> now + TTL]
      BY <2>2, <3>1, StoredHistories DEF new
    <3> QED
      BY <3>1, <3>2, <3>3
  <2>5. histories[f].trail = r.loaded
    BY <2>3, <2>4 DEF HoldsTrail
  <2> QED
    BY <2>4, <2>5 DEF EndsWith
<1>2. Spec => [][Growing]_vars
  BY <1>1, TrailInvariance, PTL DEF Spec
<1> QED
  BY <1>2 DEF HistoriesOnlyGrow
=============================================================================

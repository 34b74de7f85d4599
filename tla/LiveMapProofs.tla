--------------------------- MODULE LiveMapProofs ---------------------------
(***************************************************************************)
(* Proofs about what the live map shows: the names of its flights          *)
(* (FlightNames), the filter they answer to (ActiveFlightsPage), and the   *)
(* lines that are drawn (FlightMap), each for every value of its           *)
(* constants.  The three have no state in common.                          *)
(***************************************************************************)
EXTENDS FlightNames, ActiveFlightsPage, FlightMap, FiniteSetTheorems, FunctionTheorems, TLAPS
-----------------------------------------------------------------------------
(* FlightNames.  That a snapshot names a flight only after liveries of its *)
(* own follows from the same of all that a run carries with it; that names *)
(* stay, from what the run has mapped so far against the snapshot it will  *)
(* replace.                                                                *)

\* Every name in the snapshot s is one its flight may have, or none.
OwnNames(s) ==
  \A f \in Flights : s[f] # Gone => s[f].name \in LiveriesOf[f] \cup {NoLivery}

\* Every livery upstream lists is one its flight may have.
OwnLiveries(u) == \A f \in Flights : u[f] \in LiveriesOf[f] \cup {Gone}

NamesInv ==
  /\ NamesTypeOK
  /\ OwnLiveries(upstream) /\ OwnLiveries(run.found)
  /\ OwnNames(snapshot) /\ OwnNames(run.existing) /\ OwnNames(run.mapped)
  /\ \A f \in run.todo : run.found[f] # Gone

\* The snapshot is still the one the run has read, and what it has mapped so
\* far names each flight that has a name; between runs there is nothing.
Replacing ==
  IF run.pc = "idle" THEN run = Idle
  ELSE
    /\ run.existing = snapshot
    /\ \A f \in Flights :
         snapshot[f] # Gone /\ run.mapped[f] # Gone /\ snapshot[f].name # NoLivery =>
           run.mapped[f].name # NoLivery

LEMMA InitNamesInv == NamesInit => NamesInv /\ Replacing
BY FlightNamesAssumption
   DEF NamesInit, NamesInv, NamesTypeOK, OwnLiveries, OwnNames, Empty, Idle, Run, Snapshots, Replacing

\* Upstream and the liveries job leave the run and the snapshot alone.
LEMMA OthersKeep ==
  ASSUME NamesInv,
         \/ \E f \in Flights, livery \in Liveries \cup {NoLivery, Gone} : Fly(f, livery)
         \/ LiveriesStep \/ \E l \in Liveries : Expire(l)
  PROVE  NamesInv' /\ UNCHANGED <<snapshot, run>>
<1> USE DEF NamesInv, NamesTypeOK, OwnLiveries, OwnNames
<1>1. ASSUME NEW f \in Flights, NEW livery \in Liveries \cup {NoLivery, Gone}, Fly(f, livery)
      PROVE  NamesInv' /\ UNCHANGED <<snapshot, run>>
  BY <1>1 DEF Fly
<1>2. CASE RefreshLiveries
  BY <1>2 DEF RefreshLiveries, GetAircraftLiveries
<1>3. ASSUME NEW l \in Liveries, StoreLivery(l) \/ StoreLiveryFails(l) \/ Expire(l)
      PROVE  NamesInv' /\ UNCHANGED <<snapshot, run>>
  BY <1>3 DEF StoreLivery, StoreLiveryFails, Expire
<1>4. QED
  BY <1>1, <1>2, <1>3 DEF LiveriesStep

LEMMA StartKeeps == ASSUME NamesInv, Start PROVE NamesInv'
<1>1. PICK existing \in {snapshot, Empty} :
        run' = [run EXCEPT !.pc = "map", !.found = upstream, !.existing = existing,
                           !.todo = {f \in Flights : upstream[f] # Gone}]
  BY DEF Start
<1>2. existing \in Snapshots /\ OwnNames(existing)
  BY <1>1 DEF NamesInv, NamesTypeOK, OwnNames, Empty, Snapshots
<1>3. run' \in Run
  BY <1>1, <1>2 DEF NamesInv, NamesTypeOK, Run
<1>4. /\ run'.found = upstream /\ run'.existing = existing /\ run'.mapped = run.mapped
      /\ run'.todo = {f \in Flights : upstream[f] # Gone}
  BY <1>1 DEF NamesInv, NamesTypeOK, Run
<1>5. QED
  BY <1>2, <1>3, <1>4 DEF Start, NamesInv, NamesTypeOK, OwnLiveries, OwnNames

\* What mapping the flight f adds to the run.
LEMMA MapOneAdds ==
  ASSUME NamesInv, NEW f \in Flights, MapOne(f)
  PROVE  \E known \in Known(run.found[f]) :
           /\ run' \in Run
           /\ run'.pc = run.pc /\ run'.found = run.found /\ run'.existing = run.existing
           /\ run'.todo = run.todo \ {f}
           /\ run'.mapped = [run.mapped EXCEPT
                ![f] = [livery |-> run.found[f], name |-> NameFor(f, known)]]
           /\ NameFor(f, known) \in LiveriesOf[f] \cup {NoLivery}
           /\ run.existing[f] # Gone /\ run.existing[f].name # NoLivery =>
                NameFor(f, known) # NoLivery
<1>1. PICK known \in Known(run.found[f]) :
        run' = [run EXCEPT
          !.todo = @ \ {f},
          !.mapped[f] = [livery |-> run.found[f], name |-> NameFor(f, known)],
          !.memo = IF run.found[f] = NoLivery THEN @ ELSE [@ EXCEPT ![run.found[f]] = known]]
  BY DEF MapOne
<1>2. run.found[f] \in LiveriesOf[f] /\ LiveriesOf[f] \subseteq Liveries \cup {NoLivery}
  BY FlightNamesAssumption DEF NamesInv, OwnLiveries, MapOne
<1>3. known \in {"unread", "hit", "miss"} /\ (known = "hit" => run.found[f] # NoLivery)
  BY <1>2 DEF Known, NamesInv, NamesTypeOK, Run
<1>4. /\ NameFor(f, known) \in LiveriesOf[f] \cup {NoLivery}
      /\ run.existing[f] # Gone /\ run.existing[f].name # NoLivery => NameFor(f, known) # NoLivery
  BY <1>2, <1>3 DEF NameFor, NamesInv, OwnNames
<1>5. [livery |-> run.found[f], name |-> NameFor(f, known)] \in Named
  BY <1>2, <1>4 DEF Named
<1>6. run' \in Run
  BY <1>1, <1>2, <1>3, <1>5 DEF NamesInv, NamesTypeOK, Run, Snapshots
<1>7. QED
  BY <1>1, <1>4, <1>6 DEF NamesInv, NamesTypeOK, Run

\* The flight that is mapped has a name of its own, and one if it had one.
LEMMA MapOneKeeps ==
  ASSUME NamesInv, NEW f \in Flights, MapOne(f)
  PROVE  NamesInv' /\ (Replacing => Replacing')
<1>1. PICK known \in Known(run.found[f]) :
           /\ run' \in Run
           /\ run'.pc = run.pc /\ run'.found = run.found /\ run'.existing = run.existing
           /\ run'.todo = run.todo \ {f}
           /\ run'.mapped = [run.mapped EXCEPT
                ![f] = [livery |-> run.found[f], name |-> NameFor(f, known)]]
           /\ NameFor(f, known) \in LiveriesOf[f] \cup {NoLivery}
           /\ run.existing[f] # Gone /\ run.existing[f].name # NoLivery =>
                NameFor(f, known) # NoLivery
  BY MapOneAdds
<1>2. \A g \in Flights :
        run'.mapped[g] = IF g = f THEN [livery |-> run.found[f], name |-> NameFor(f, known)]
                         ELSE run.mapped[g]
  BY <1>1 DEF NamesInv, NamesTypeOK, Run, Snapshots
<1>3. UNCHANGED <<upstream, catalog, refreshing, snapshot>>
  BY DEF MapOne
<1>4. OwnNames(run'.mapped)
  BY <1>1, <1>2 DEF NamesInv, OwnNames
<1>5. NamesInv'
  BY <1>1, <1>3, <1>4 DEF NamesInv, NamesTypeOK, OwnLiveries, OwnNames
<1>6. Replacing => Replacing'
  BY <1>1, <1>2, <1>3 DEF Replacing, Idle, MapOne
<1>7. QED
  BY <1>5, <1>6

LEMMA StoreKeeps == ASSUME NamesInv, Store PROVE NamesInv' /\ Replacing'
<1>1. run' = Idle /\ snapshot' \in {run.mapped, snapshot}
  BY DEF Store
<1>2. Idle \in Run /\ OwnLiveries(Idle.found) /\ OwnNames(Idle.existing)
        /\ OwnNames(Idle.mapped) /\ Idle.todo = {} /\ Idle.pc = "idle"
  BY DEF Idle, Run, Empty, Snapshots, OwnLiveries, OwnNames
<1>3. run.mapped \in Snapshots
  BY DEF NamesInv, NamesTypeOK, Run
<1>4. QED
  BY <1>1, <1>2, <1>3 DEF Store, NamesInv, NamesTypeOK, OwnLiveries, OwnNames, Replacing

LEMMA NextNamesInv == NamesInv /\ [NamesNext]_namesVars => NamesInv'
<1> SUFFICES ASSUME NamesInv, [NamesNext]_namesVars
             PROVE  NamesInv'
  OBVIOUS
<1>1. CASE FlightsStep
  BY <1>1, StartKeeps, MapOneKeeps, StoreKeeps DEF FlightsStep
<1>2. CASE UNCHANGED namesVars
  BY <1>2 DEF namesVars, NamesInv, NamesTypeOK, OwnLiveries, OwnNames
<1>3. QED
  BY <1>1, <1>2, OthersKeep DEF NamesNext

\* All names and liveries, in the snapshot and in the run, are their flights'
\* own (job.go:135-152, mapper.go:12-97).
THEOREM NamesInvariance == NamesSpec => []NamesInv
BY InitNamesInv, NextNamesInv, PTL DEF NamesSpec

\* The variables keep their types.
THEOREM NamesTypeCorrect == NamesSpec => []NamesTypeOK
BY NamesInvariance, PTL DEF NamesInv

\* A flight is never named after another's livery, for any flights, liveries
\* and faults (job.go:135-152).
THEOREM NamesAreOwn == NamesSpec => []NamedAfterLivery
<1>1. NamesInv => NamedAfterLivery
  BY DEF NamesInv, OwnNames, NamedAfterLivery
<1>2. QED
  BY <1>1, NamesInvariance, PTL
-----------------------------------------------------------------------------
LEMMA NextReplacing ==
  ASSUME "readSnapshot" \notin NamesFaults, NamesInv, Replacing, [NamesNext]_namesVars
  PROVE  Replacing'
<1>1. CASE Start
  <2>1. run' = [run EXCEPT !.pc = "map", !.found = upstream, !.existing = snapshot,
                           !.todo = {f \in Flights : upstream[f] # Gone}]
    BY <1>1 DEF Start
  <2>2. run'.existing = snapshot /\ run'.mapped = Empty /\ run'.pc = "map" /\ snapshot' = snapshot
    BY <1>1, <2>1 DEF Start, NamesInv, NamesTypeOK, Run, Replacing, Idle
  <2>3. \A f \in Flights : run'.mapped[f] = Gone
    BY <2>2 DEF Empty
  <2>4. QED
    BY <2>2, <2>3 DEF Replacing
<1>2. ASSUME NEW f \in Flights, MapOne(f)
      PROVE  Replacing'
  BY <1>2, MapOneKeeps
<1>3. CASE Store
  BY <1>3, StoreKeeps
<1>4. CASE UNCHANGED <<snapshot, run>>
  BY <1>4 DEF Replacing
<1>5. QED
  BY <1>1, <1>2, <1>3, <1>4, OthersKeep DEF NamesNext, FlightsStep, namesVars

LEMMA StepKeepsNames ==
  ASSUME NamesInv, Replacing, [NamesNext]_namesVars
  PROVE  [\A f \in Flights :
            snapshot[f] # Gone /\ snapshot'[f] # Gone /\ snapshot[f].name # NoLivery =>
              snapshot'[f].name # NoLivery]_namesVars
<1>1. CASE Store
  BY <1>1 DEF Store, Replacing
<1>2. CASE UNCHANGED snapshot
  BY <1>2
<1>3. QED
  BY <1>1, <1>2, OthersKeep DEF NamesNext, FlightsStep, Start, MapOne, namesVars

\* Where the previous snapshot can always be read, no flight loses its name,
\* whatever becomes of the liveries in Redis (mapper.go:25-32).
THEOREM NamesAreKept == "readSnapshot" \notin NamesFaults => (NamesSpec => NamesStay)
<1> SUFFICES ASSUME "readSnapshot" \notin NamesFaults
             PROVE  NamesSpec => NamesStay
  OBVIOUS
<1>1. NamesInit => Replacing
  BY InitNamesInv
<1>2. NamesInv /\ Replacing /\ [NamesNext]_namesVars => Replacing'
  BY NextReplacing
<1>3. NamesInv /\ Replacing /\ [NamesNext]_namesVars =>
        [\A f \in Flights :
            snapshot[f] # Gone /\ snapshot'[f] # Gone /\ snapshot[f].name # NoLivery =>
              snapshot'[f].name # NoLivery]_namesVars
  BY StepKeepsNames
<1>4. QED
  BY <1>1, <1>2, <1>3, NamesInvariance, PTL DEF NamesSpec, NamesStay
-----------------------------------------------------------------------------
(* ActiveFlightsPage.  The URL follows the form because a form, once it is *)
(* filled, has a server, so that no load ends before it writes the URL.    *)

PageInv ==
  /\ TypeOK
  /\ phase # "servers" => form.server \in Servers
  /\ UrlFollowsForm

\* What a load does that is started with a server in the form.
LEMMA LoadFlightsDoes ==
  ASSUME NEW f \in Filter, f.server \in Servers, NEW x \in Slots, LoadFlights(f, x),
         loads \in [Slots -> Filter \cup {None}]
  PROVE  /\ url' = f /\ UNCHANGED shown
         /\ loads' \in [Slots -> Filter \cup {None}]
BY ActiveFlightsPageAssumption DEF LoadFlights

LEMMA InitPageInv == Init => PageInv
<1> SUFFICES ASSUME Init PROVE PageInv
  OBVIOUS
<1>1. form \in Filter /\ url \in Filter
  BY ActiveFlightsPageAssumption DEF Init, Filter
<1>2. edits \in 0 .. MaxEdits
  BY ActiveFlightsPageAssumption DEF Init
<1>3. loads \in [Slots -> Filter \cup {None}]
  BY DEF Init
<1>4. QED
  BY <1>1, <1>2, <1>3 DEF Init, PageInv, TypeOK, UrlFollowsForm

\* The form that is filled has a server that is offered.
LEMMA FillFormKeeps ==
  ASSUME PageInv, NEW listed \in SUBSET Servers, NEW server \in listed, NEW x \in Slots,
         FillForm(listed, server, x)
  PROVE  PageInv'
<1> DEFINE f == [server |-> server, text |-> url.text]
<1>1. f \in Filter /\ f.server \in Servers
  BY DEF PageInv, TypeOK, Filter
<1>2. /\ phase' = "flights" /\ options' = listed /\ form' = f /\ first' = x
      /\ LoadFlights(f, x) /\ UNCHANGED <<timer, edits>>
  BY DEF FillForm
<1>3. /\ url' = f /\ UNCHANGED shown
      /\ loads' \in [Slots -> Filter \cup {None}]
  <2> HIDE DEF f
  <2>1. QED
    BY <1>1, <1>2, LoadFlightsDoes DEF PageInv, TypeOK
<1> HIDE DEF f
<1>4. QED
  BY <1>1, <1>2, <1>3 DEF PageInv, TypeOK, UrlFollowsForm

LEMMA SessionsKeep == ASSUME PageInv, SessionsAnswered PROVE PageInv'
<1>1. PICK x \in Slots :
        (\E listed \in SUBSET Servers : SessionsArrive(listed, x)) \/ SessionsFail(x)
  BY DEF SessionsAnswered
<1>2. CASE SessionsFail(x)
  BY <1>2, FillFormKeeps, ActiveFlightsPageAssumption DEF SessionsFail
<1>3. ASSUME NEW listed \in SUBSET Servers, SessionsArrive(listed, x)
      PROVE  PageInv'
  <2> DEFINE offered == IF listed = {} THEN {Default} ELSE listed
             preferred == IF url.server = NoServer THEN Default ELSE url.server
  <2>1. offered \in SUBSET Servers
    BY ActiveFlightsPageAssumption
  <2>2. PICK server \in offered : FillForm(offered, server, x)
    BY <1>3 DEF SessionsArrive
  <2>3. QED
    BY <2>1, <2>2, FillFormKeeps
<1>4. QED
  BY <1>1, <1>2, <1>3

LEMMA EditsKeep ==
  ASSUME PageInv, NEW x \in Slots,
         (\E server \in Servers : ChooseServer(server, x)) \/ Submit(x)
  PROVE  PageInv'
<1>1. Edit => edits' \in 0 .. MaxEdits
  BY ActiveFlightsPageAssumption DEF Edit, PageInv, TypeOK
<1>2. ASSUME NEW server \in Servers, ChooseServer(server, x)
      PROVE  PageInv'
  <2>1. form' = [form EXCEPT !.server = server] /\ LoadFlights(form', x)
    BY <1>2 DEF ChooseServer
  <2>2. form' \in Filter /\ form'.server \in Servers
    BY <2>1 DEF PageInv, TypeOK, Filter
  <2>3. QED
    BY <1>1, <1>2, <2>1, <2>2, LoadFlightsDoes
       DEF ChooseServer, PageInv, TypeOK, UrlFollowsForm
<1>3. CASE Submit(x)
  BY <1>1, <1>3 DEF Submit, LoadFlights, PageInv, TypeOK, UrlFollowsForm
<1>4. QED
  BY <1>2, <1>3

LEMMA TimersKeep ==
  ASSUME PageInv, NEW x \in Slots, Debounced(x) \/ Poll(x)
  PROVE  PageInv'
<1>1. LoadFlights(form, x) /\ UNCHANGED <<phase, options, form, first, edits>>
      /\ timer' \in {timer, FALSE} /\ (timer' = timer => phase = "polling")
  BY DEF Debounced, Poll, PageInv, TypeOK
<1>2. CASE form.server \in Servers
  BY <1>1, <1>2, LoadFlightsDoes DEF PageInv, TypeOK, UrlFollowsForm
<1>3. CASE form.server \notin Servers
  BY <1>1, <1>3 DEF LoadFlights, PageInv, TypeOK, Filter, UrlFollowsForm
<1>4. QED
  BY <1>2, <1>3

LEMMA AnswersKeep ==
  ASSUME PageInv, NEW x \in Slots, Answered(x)
  PROVE  PageInv'
<1>1. loads[x] \in Filter /\ shown' \in {loads[x], None} /\ loads' = [loads EXCEPT ![x] = None]
  BY DEF Answered, Answer, AnswerFails, PageInv, TypeOK
<1>2. QED
  BY <1>1 DEF Answered, Answer, AnswerFails, Awaited, PageInv, TypeOK, UrlFollowsForm

LEMMA NextPageInv == PageInv /\ [Next]_vars => PageInv'
<1> SUFFICES ASSUME PageInv, [Next]_vars
             PROVE  PageInv'
  OBVIOUS
<1>1. CASE UNCHANGED vars
  BY <1>1 DEF vars, PageInv, TypeOK, UrlFollowsForm
<1>2. ASSUME NEW text \in Texts, EnterText(text)
      PROVE  PageInv'
  <2>1. edits' \in 0 .. MaxEdits
    BY <1>2, ActiveFlightsPageAssumption DEF EnterText, Edit, PageInv, TypeOK
  <2>2. QED
    BY <1>2, <2>1 DEF EnterText, PageInv, TypeOK, Filter, UrlFollowsForm
<1>3. QED
  BY <1>1, <1>2, SessionsKeep, EditsKeep, TimersKeep, AnswersKeep DEF Next, Polled, Settled

\* Types hold, and the URL follows the form (active-flights.mjs).
THEOREM PageInvariance == Spec => []PageInv
BY InitPageInv, NextPageInv, PTL DEF Spec

\* The variables keep their types, the filter in the URL among them.
THEOREM PageTypeCorrect == Spec => []TypeOK
BY PageInvariance, PTL DEF PageInv

\* In whatever order loads are started and answered or fail, and whatever the
\* user does, a page that is not about to bring its URL up to date has the
\* filter of its form in it, for any servers, texts and number of loads.
THEOREM UrlKeepsUp == Spec => []UrlFollowsForm
BY PageInvariance, PTL DEF PageInv
-----------------------------------------------------------------------------
(* FlightMap.  First what the prover has no rule for: induction, least and *)
(* greatest numbers, and new layers.                                       *)

\* Induction over the natural numbers, as a fact about sets of them.
LEMMA SetInduction ==
  ASSUME NEW S \in SUBSET Nat, 0 \in S, \A n \in S : n + 1 \in S
  PROVE  S = Nat
<1> SUFFICES ASSUME Nat \ S # {}
             PROVE  FALSE
  OBVIOUS
<1>1. PICK x \in Nat \ S : \A y \in Nat \ S : <<y, x>> \notin OpToRel(<, Nat)
  BY WFMin, NatLessThanWellFounded
<1>2. x - 1 \in Nat /\ x - 1 < x /\ (x - 1) + 1 = x
  <2>1. x \in Nat /\ x # 0
    OBVIOUS
  <2>2. QED
    BY <2>1
<1>3. <<x - 1, x>> \in OpToRel(<, Nat)
  BY <1>2 DEF OpToRel
<1>4. QED
  BY <1>1, <1>2, <1>3

\* Every set of natural numbers that is not empty has a least one, and one that
\* is bounded a greatest.
LEMMA MinIsLeast ==
  ASSUME NEW S \in SUBSET Nat, S # {}
  PROVE  Min(S) \in S /\ \A y \in S : Min(S) <= y
<1>1. PICK x \in S : \A y \in S : <<y, x>> \notin OpToRel(<, Nat)
  BY WFMin, NatLessThanWellFounded
<1>2. ASSUME NEW y \in S
      PROVE  x <= y
  <2>1. y < x => <<y, x>> \in OpToRel(<, Nat)
    BY DEF OpToRel
  <2>2. ~(y < x)
    BY <1>1, <2>1
  <2>3. QED
    BY <2>2
<1>3. QED
  BY <1>1, <1>2 DEF Min

LEMMA BoundedHasGreatest ==
  ASSUME NEW S \in SUBSET Nat, S # {}, NEW n \in Nat, \A y \in S : y <= n
  PROVE  \E x \in S : \A y \in S : y <= x
<1> DEFINE above == {m \in Nat : \A y \in S : y <= m}
<1> HIDE DEF above
<1>1. above \in SUBSET Nat /\ n \in above
  BY DEF above
<1>2. Min(above) \in above /\ \A m \in above : Min(above) <= m
  BY <1>1, MinIsLeast
<1>3. Min(above) \in Nat /\ \A y \in S : y \in Nat /\ y <= Min(above)
  BY <1>2 DEF above
<1>4. ASSUME Min(above) \notin S
      PROVE  FALSE
  <2>1. \A y \in S : y < Min(above)
    BY <1>3, <1>4
  <2>2. Min(above) > 0
    <3>1. PICK y \in S : TRUE
      OBVIOUS
    <3>2. QED
      BY <1>3, <2>1, <3>1
  <2>3. Min(above) - 1 \in Nat /\ \A y \in S : y <= Min(above) - 1
    BY <1>3, <2>1, <2>2
  <2>4. Min(above) - 1 \in above
    BY <2>3 DEF above
  <2>5. QED
    BY <1>2, <1>3, <2>3, <2>4
<1>5. QED
  BY <1>3, <1>4

\* What is kept of a route is a sequence of waypoints.
LEMMA NormalizedAreWaypoints ==
  ASSUME NEW route \in Seq(Waypoints \cup {NoPosition})
  PROVE  normalizeRoutePoints(route) \in Seq(Waypoints)
<1> DEFINE next(kept, i) == IF i = 0 THEN << >> ELSE Kept(kept[i - 1], route[i])
           upTo(n) == {k \in [0 .. n -> Seq(Waypoints)] : \A i \in 0 .. n : k[i] = next(k, i)}
           S == {n \in Nat : n <= Len(route) => upTo(n) # {}}
<1>1. Len(route) \in Nat /\ \A i \in 1 .. Len(route) : route[i] \in Waypoints \cup {NoPosition}
  OBVIOUS
<1>2. \A kept \in Seq(Waypoints), p \in Waypoints \cup {NoPosition} : Kept(kept, p) \in Seq(Waypoints)
  BY DEF Kept
<1>3. 0 \in S
  <2>1. [i \in 0 .. 0 |-> << >>] \in upTo(0)
    OBVIOUS
  <2>2. QED
    BY <2>1
<1>4. ASSUME NEW n \in S, n + 1 <= Len(route)
      PROVE  upTo(n + 1) # {}
  <2>1. n \in Nat /\ n <= Len(route)
    BY <1>1, <1>4
  <2>2. PICK k \in [0 .. n -> Seq(Waypoints)] : \A i \in 0 .. n : k[i] = next(k, i)
    BY <2>1
  <2> DEFINE more == [i \in 0 .. n + 1 |-> IF i <= n THEN k[i] ELSE Kept(k[n], route[n + 1])]
  <2>3. Kept(k[n], route[n + 1]) \in Seq(Waypoints)
    <3>1. k[n] \in Seq(Waypoints) /\ route[n + 1] \in Waypoints \cup {NoPosition}
      BY <1>1, <1>4, <2>1, <2>2
    <3>2. QED
      BY <1>2, <3>1
  <2>4. more \in [0 .. n + 1 -> Seq(Waypoints)]
    BY <2>1, <2>2, <2>3
  <2>5. ASSUME NEW i \in 0 .. n + 1
        PROVE  more[i] = next(more, i)
    <3>1. CASE i = 0
      BY <2>1, <2>2, <3>1
    <3>2. CASE i \in 1 .. n
      <4>1. more[i] = k[i] /\ more[i - 1] = k[i - 1]
        BY <2>1, <3>2
      <4>2. QED
        BY <2>1, <2>2, <3>2, <4>1
    <3>3. CASE i = n + 1
      <4>1. more[i] = Kept(k[n], route[n + 1]) /\ more[i - 1] = k[n] /\ i # 0
        BY <2>1, <3>3
      <4>2. QED
        BY <3>3, <4>1
    <3>4. QED
      BY <2>1, <3>1, <3>2, <3>3
  <2>6. QED
    BY <2>4, <2>5
<1>5. S = Nat
  <2> HIDE DEF upTo
  <2>1. \A n \in S : n + 1 \in S
    BY <1>4
  <2> HIDE DEF S
  <2>2. S \in SUBSET Nat
    BY DEF S
  <2>3. QED
    BY <1>3, <2>1, <2>2, SetInduction
<1> DEFINE kept == CHOOSE k : k = [i \in 0 .. Len(route) |-> next(k, i)]
<1>6. kept = [i \in 0 .. Len(route) |-> next(kept, i)]
  <2>1. upTo(Len(route)) # {}
    <3> HIDE DEF upTo
    <3>1. QED
      BY <1>1, <1>5
  <2>2. PICK k : k = [i \in 0 .. Len(route) |-> next(k, i)]
    BY <2>1
  <2>3. QED
    BY <2>2
<1>7. normalizeRoutePoints(route) = kept[Len(route)]
  BY DEF normalizeRoutePoints
<1> DEFINE T == {n \in Nat : n <= Len(route) => kept[n] \in Seq(Waypoints)}
<1>8. T = Nat
  <2> HIDE DEF kept
  <2>1. 0 \in T
    BY <1>1, <1>6
  <2>2. ASSUME NEW n \in T
        PROVE  n + 1 \in T
    <3>1. SUFFICES ASSUME n + 1 <= Len(route)
                   PROVE  kept[n + 1] \in Seq(Waypoints)
      OBVIOUS
    <3>2. n \in Nat /\ n + 1 \in 1 .. Len(route) /\ n + 1 # 0 /\ (n + 1) - 1 = n
      BY <1>1, <3>1
    <3>3. kept[n + 1] = Kept(kept[n], route[n + 1])
      BY <1>6, <3>2
    <3>4. kept[n] \in Seq(Waypoints)
      BY <1>1, <3>1, <3>2
    <3>5. QED
      BY <1>1, <1>2, <3>2, <3>3, <3>4
  <2> HIDE DEF T
  <2>3. T \in SUBSET Nat
    BY DEF T
  <2>4. QED
    BY <2>1, <2>2, <2>3, SetInduction
<1>9. QED
  BY <1>1, <1>7, <1>8

\* A set as large as another has an element of its own for each of that one's.
LEMMA InjectionExists ==
  ASSUME NEW S, NEW T, IsFiniteSet(S), IsFiniteSet(T), Cardinality(S) <= Cardinality(T)
  PROVE  Injection(S, T) # {}
<1> DEFINE s == Cardinality(S)
           t == Cardinality(T)
<1>1. /\ s \in Nat /\ ExistsBijection(1 .. s, S)
      /\ t \in Nat /\ ExistsBijection(1 .. t, T)
  BY FS_CardinalityType
<1>2. ExistsInjection(S, 1 .. s) /\ ExistsInjection(1 .. t, T)
  BY <1>1, Fun_ExistsBijSymmetric DEF ExistsBijection, ExistsInjection, Bijection
<1>3. ExistsInjection(1 .. s, 1 .. t)
  <2>1. [i \in 1 .. s |-> i] \in Injection(1 .. s, 1 .. t)
    BY <1>1 DEF Injection, IsInjective
  <2>2. QED
    BY <2>1 DEF ExistsInjection
<1>4. ExistsInjection(S, T)
  BY <1>2, <1>3, Fun_ExistsInjTransitive
<1>5. QED
  BY <1>4 DEF ExistsInjection

\* The layers of lines are their own, one for each line, and not on the map yet.
LEMMA PolylinesAreNew ==
  ASSUME NEW lines, IsFiniteSet(DOMAIN lines), NEW group, IsFiniteSet(group),
         NEW layers, layers = Polylines(lines, group)
  PROVE  /\ DOMAIN layers = DOMAIN lines
         /\ \A i \in DOMAIN lines : layers[i].line = lines[i]
         /\ Range(layers) \cap group = {}
         /\ IsFiniteSet(Range(layers))
<1> DEFINE used == {layer.id : layer \in group}
           size == Cardinality(used) + Cardinality(DOMAIN lines)
           free == (1 .. size) \ used
           id == CHOOSE f \in Injection(DOMAIN lines, free) : TRUE
<1>1. IsFiniteSet(used)
  <2>1. [layer \in group |-> layer.id] \in Surjection(group, used)
    BY DEF Surjection
  <2> HIDE DEF used
  <2>2. QED
    BY <2>1, FS_Surjection
<1>2. Injection(DOMAIN lines, free) # {}
  <2> HIDE DEF used
  <2>1. /\ Cardinality(used) \in Nat /\ Cardinality(DOMAIN lines) \in Nat
        /\ size \in Nat
    BY <1>1, FS_CardinalityType
  <2>2. IsFiniteSet(1 .. size) /\ Cardinality(1 .. size) = size
    BY <2>1, FS_Interval
  <2>3. /\ IsFiniteSet((1 .. size) \cap used) /\ Cardinality((1 .. size) \cap used) <= Cardinality(used)
    BY <1>1, FS_Intersection
  <2>4. /\ IsFiniteSet(free)
        /\ Cardinality(free) = Cardinality(1 .. size) - Cardinality((1 .. size) \cap used)
    BY <2>2, FS_Difference
  <2>5. Cardinality((1 .. size) \cap used) \in Nat
    BY <2>3, FS_CardinalityType
  <2>6. Cardinality(DOMAIN lines) <= Cardinality(free)
    BY <2>1, <2>2, <2>3, <2>4, <2>5
  <2> HIDE DEF free
  <2>7. QED
    BY <2>4, <2>6, InjectionExists
<1>3. id \in Injection(DOMAIN lines, free)
  BY <1>2
<1>4. layers = [i \in DOMAIN lines |-> [id |-> id[i], line |-> lines[i]]]
  BY DEF Polylines
<1>5. \A i \in DOMAIN lines : id[i] \notin used
  BY <1>3 DEF Injection
<1> HIDE DEF id
<1>6. DOMAIN layers = DOMAIN lines /\ \A i \in DOMAIN lines : layers[i].line = lines[i]
  BY <1>4
<1>7. Range(layers) \cap group = {}
  <2>1. \A layer \in Range(layers) : layer.id \notin used
    BY <1>4, <1>5 DEF Range
  <2>2. QED
    BY <2>1
<1>8. IsFiniteSet(Range(layers))
  <2>1. layers \in Surjection(DOMAIN layers, Range(layers))
    BY <1>4 DEF Surjection, Range
  <2>2. QED
    BY <1>6, <2>1, FS_Surjection
<1>9. QED
  BY <1>6, <1>7, <1>8

\* A leg of more than half the globe has its ends on opposite sides.
LEMMA OppositeSides ==
  ASSUME NEW p \in -180 .. 180, NEW q \in -180 .. 180, q - p \notin -180 .. 180
  PROVE  (p < 0 /\ q > 0) \/ (p > 0 /\ q < 0)
OBVIOUS

\* Where a leg crosses the border, it leaves on one side and comes in on the other.
LEMMA SidesOfBorder ==
  ASSUME NEW a \in Waypoints, NEW b \in Waypoints, crossesAntimeridian(a, b)
  PROVE  /\ Side(a) \in {-180, 180} /\ Side(b) = -Side(a)
         /\ Side(a) - a.lng \in -180 .. 180 /\ b.lng - Side(b) \in -180 .. 180
<1>1. a.lng \in -180 .. 180 /\ b.lng \in -180 .. 180
  BY FlightMapAssumption
<1>2. (a.lng < 0 /\ b.lng > 0) \/ (a.lng > 0 /\ b.lng < 0)
  BY <1>1, OppositeSides DEF crossesAntimeridian
<1>3. QED
  BY <1>1, <1>2 DEF Side

LEMMA LeavesAtBorder ==
  ASSUME NEW a \in Waypoints, NEW b \in Waypoints, crossesAntimeridian(a, b),
         NEW out, out = interpolateAntimeridianPoint(a, b, Side(a))
  PROVE  OnBorder(out) /\ out.lng - a.lng \in -180 .. 180
<1>1. out.lng = Side(a)
  BY DEF interpolateAntimeridianPoint, At
<1>2. QED
  BY <1>1, SidesOfBorder DEF OnBorder

LEMMA EntersAtBorder ==
  ASSUME NEW a \in Waypoints, NEW b \in Waypoints, crossesAntimeridian(a, b),
         NEW in, in = interpolateAntimeridianPoint(a, b, Side(b))
  PROVE  OnBorder(in) /\ b.lng - in.lng \in -180 .. 180
<1>1. in.lng = Side(b)
  BY DEF interpolateAntimeridianPoint, At
<1>2. Side(b) \in {-180, 180} /\ b.lng - Side(b) \in -180 .. 180
  BY SidesOfBorder
<1>3. QED
  BY <1>1, <1>2 DEF OnBorder

LEMMA MeetAtBorder ==
  ASSUME NEW a \in Waypoints, NEW b \in Waypoints, crossesAntimeridian(a, b),
         NEW s, s[Len(s)] = interpolateAntimeridianPoint(a, b, Side(a)),
         NEW t, t[1] = interpolateAntimeridianPoint(a, b, Side(b))
  PROVE  Meets(s, t)
<1>1. /\ s[Len(s)].lng = Side(a) /\ t[1].lng = Side(b)
      /\ s[Len(s)].lat = t[1].lat
  BY DEF interpolateAntimeridianPoint, At
<1>2. Side(a) \in {-180, 180} /\ Side(b) = -Side(a)
  BY SidesOfBorder
<1>3. SameLatitude(s[Len(s)].lat, t[1].lat)
  BY <1>1 DEF SameLatitude
<1>4. QED
  BY <1>1, <1>2, <1>3 DEF Meets, OnBorder
-----------------------------------------------------------------------------
\* Waypoint `last' is the last of the segment that begins with waypoint i.
EndsWith(points, i, last) ==
  /\ last \in i .. Len(points)
  /\ \A j \in Starts(points) : j <= i \/ j > last
  /\ last = Len(points) \/ last + 1 \in Starts(points)

\* The first and the last waypoint whose leg the segment has a part in.
Before(i) == IF i = 1 THEN 1 ELSE i - 1
After(points, last) == IF last = Len(points) THEN last ELSE last + 1

\* What stands for waypoint m on the segment from i to last.
PointAt(points, i, last, m) ==
  CASE m < i -> interpolateAntimeridianPoint(points[m], points[i], Side(points[i]))
    [] m > last -> interpolateAntimeridianPoint(points[last], points[m], Side(points[last]))
    [] OTHER -> Drawn(points[m])

\* Segments begin at waypoints, and one of them at the first.
LEMMA StartsAreWaypoints ==
  ASSUME NEW points \in Seq(Waypoints), Len(points) >= 2
  PROVE  1 \in Starts(points) /\ Starts(points) \in SUBSET (1 .. Len(points))
BY DEF Starts

\* A segment, in terms of the last waypoint that is on it.
LEMMA SegmentIs ==
  ASSUME NEW points \in Seq(Waypoints), Len(points) >= 2, NEW i \in Starts(points)
  PROVE  \E last \in i .. Len(points) :
           /\ EndsWith(points, i, last)
           /\ Segment(points, i) = [k \in 1 .. After(points, last) - Before(i) + 1 |->
                                      PointAt(points, i, last, Before(i) + k - 1)]
<1> DEFINE later == {j \in Starts(points) : j > i}
           last == IF later = {} THEN Len(points) ELSE Min(later) - 1
<1>1. i \in 1 .. Len(points) /\ Starts(points) \in SUBSET (1 .. Len(points)) /\ Len(points) \in Nat
  BY StartsAreWaypoints
<1>2. later # {} => Min(later) \in later /\ \A j \in later : Min(later) <= j
  <2>1. later \in SUBSET Nat
    BY <1>1
  <2> HIDE DEF later
  <2>2. QED
    BY <2>1, MinIsLeast
<1>3. CASE later = {}
  <2>1. last = Len(points) /\ After(points, last) = last
    BY <1>3 DEF After
  <2>2. EndsWith(points, i, last)
    BY <1>1, <1>3, <2>1 DEF EndsWith
  <2>3. QED
    BY <1>1, <1>3, <2>1, <2>2 DEF Segment, PointAt, Before, After
<1>4. CASE later # {}
  <2>1. last = Min(later) - 1
    BY <1>4
  <2>2. /\ Min(later) \in Starts(points) /\ Min(later) \in i + 1 .. Len(points)
        /\ \A j \in Starts(points) : j > i => Min(later) <= j
    BY <1>1, <1>2, <1>4
  <2>3. last \in i .. Len(points) - 1 /\ last + 1 = Min(later)
    BY <1>1, <2>1, <2>2
  <2>4. After(points, last) = last + 1
    BY <1>1, <2>3 DEF After
  <2>5. Segment(points, i) = [k \in 1 .. After(points, last) - Before(i) + 1 |->
                                PointAt(points, i, last, Before(i) + k - 1)]
    BY <1>4, <2>1, <2>4 DEF Segment, PointAt, Before
  <2> HIDE DEF later, last
  <2>6. \A j \in Starts(points) : j \in Nat /\ (j <= i \/ j > last)
    BY <1>1, <2>2, <2>3
  <2>7. EndsWith(points, i, last)
    BY <1>1, <2>2, <2>3, <2>6 DEF EndsWith
  <2>8. QED
    BY <1>1, <2>3, <2>5, <2>7
<1>5. QED
  BY <1>3, <1>4

\* Each piece of a segment is short, and is a leg or the part of one up to or
\* from the border.
LEMMA PiecesAreLegs ==
  ASSUME NEW points \in Seq(Waypoints), Len(points) >= 2, NEW i \in Starts(points),
         NEW last \in i .. Len(points), EndsWith(points, i, last),
         NEW m \in Before(i) .. After(points, last) - 1,
         NEW x, x = PointAt(points, i, last, m),
         NEW y, y = PointAt(points, i, last, m + 1)
  PROVE  /\ m \in 1 .. Len(points) - 1
         /\ y.lng - x.lng \in -180 .. 180
         /\ OfLeg(x, y, points[m], points[m + 1])
<1>1. /\ i \in 1 .. Len(points) /\ Len(points) \in Nat
      /\ last + 1 \in Starts(points) => last + 1 \in 1 .. Len(points)
  BY StartsAreWaypoints
<1>2. m \in 1 .. Len(points) - 1 /\ points[m] \in Waypoints /\ points[m + 1] \in Waypoints
  BY <1>1 DEF Before, After, EndsWith
<1>3. CASE m < i
  <2>1. i # 1 /\ m = i - 1 /\ m + 1 = i /\ i <= last
    BY <1>1, <1>2, <1>3 DEF Before
  <2>2. crossesAntimeridian(points[m], points[m + 1])
    BY <1>1, <2>1 DEF Starts
  <2>3. /\ x = interpolateAntimeridianPoint(points[m], points[m + 1], Side(points[m + 1]))
        /\ y = Drawn(points[m + 1])
    BY <1>1, <1>3, <2>1 DEF PointAt
  <2>4. OnBorder(x) /\ points[m + 1].lng - x.lng \in -180 .. 180
    BY <1>2, <2>2, <2>3, EntersAtBorder
  <2>5. y.lng = points[m + 1].lng
    BY <2>3 DEF Drawn
  <2>6. QED
    BY <1>2, <2>2, <2>3, <2>4, <2>5 DEF OfLeg
<1>4. CASE m >= i /\ m < last
  <2>1. m + 1 \in 2 .. Len(points) /\ m + 1 > i /\ m + 1 <= last
    BY <1>1, <1>2, <1>4
  <2>2. m + 1 \notin Starts(points)
    BY <1>1, <2>1 DEF EndsWith
  <2>3. ~crossesAntimeridian(points[m], points[m + 1])
    BY <1>1, <1>2, <2>1, <2>2 DEF Starts
  <2>4. x = Drawn(points[m]) /\ y = Drawn(points[m + 1])
    BY <1>1, <1>2, <1>4, <2>1 DEF PointAt
  <2>5. y.lng = points[m + 1].lng /\ x.lng = points[m].lng
    BY <2>4 DEF Drawn
  <2>6. QED
    BY <1>2, <2>3, <2>4, <2>5 DEF OfLeg, crossesAntimeridian
<1>5. CASE m >= last
  <2>1. m = last /\ last # Len(points)
    BY <1>1, <1>2, <1>5 DEF After
  <2>2. m + 1 \in Starts(points) /\ m + 1 # 1
    BY <1>2, <2>1 DEF EndsWith
  <2>3. crossesAntimeridian(points[m], points[m + 1])
    BY <1>1, <1>2, <2>2 DEF Starts
  <2>4. /\ x = Drawn(points[m])
        /\ y = interpolateAntimeridianPoint(points[m], points[m + 1], Side(points[m]))
    BY <1>1, <1>2, <2>1 DEF PointAt
  <2>5. OnBorder(y) /\ y.lng - points[m].lng \in -180 .. 180
    BY <1>2, <2>3, <2>4, LeavesAtBorder
  <2>6. x.lng = points[m].lng
    BY <2>4 DEF Drawn
  <2>7. QED
    BY <1>2, <2>3, <2>4, <2>5, <2>6 DEF OfLeg
<1>6. QED
  BY <1>1, <1>2, <1>3, <1>4, <1>5

\* All pieces of a segment.
LEMMA SegmentsAreShort ==
  ASSUME NEW points \in Seq(Waypoints), Len(points) >= 2, NEW i \in Starts(points),
         NEW s, s = Segment(points, i), NEW m \in 1 .. Len(s) - 1
  PROVE  /\ s[m + 1].lng - s[m].lng \in -180 .. 180
         /\ \E k \in 1 .. Len(points) - 1 : OfLeg(s[m], s[m + 1], points[k], points[k + 1])
<1>1. PICK last \in i .. Len(points) :
           /\ EndsWith(points, i, last)
           /\ Segment(points, i) = [k \in 1 .. After(points, last) - Before(i) + 1 |->
                                      PointAt(points, i, last, Before(i) + k - 1)]
  BY SegmentIs
<1>2. i \in 1 .. Len(points) /\ Len(points) \in Nat
  BY StartsAreWaypoints
<1>3. Before(i) \in Nat /\ After(points, last) \in Nat /\ Before(i) <= After(points, last)
  BY <1>2 DEF Before, After
<1>4. Len(s) = After(points, last) - Before(i) + 1
  BY <1>1, <1>3
<1> DEFINE k == Before(i) + m - 1
<1>5. k \in Before(i) .. After(points, last) - 1 /\ m \in 1 .. Len(s) /\ m + 1 \in 1 .. Len(s)
      /\ Before(i) + (m + 1) - 1 = k + 1
  BY <1>3, <1>4
<1>6. s[m] = PointAt(points, i, last, k) /\ s[m + 1] = PointAt(points, i, last, k + 1)
  BY <1>1, <1>4, <1>5
<1> HIDE DEF k
<1>7. /\ k \in 1 .. Len(points) - 1
      /\ s[m + 1].lng - s[m].lng \in -180 .. 180
      /\ OfLeg(s[m], s[m + 1], points[k], points[k + 1])
  BY <1>1, <1>5, <1>6, PiecesAreLegs
<1>8. QED
  BY <1>7

\* Each leg is on a segment, or on two that meet.
LEMMA LegsAreShown ==
  ASSUME NEW points \in Seq(Waypoints), Len(points) >= 2, NEW k \in 1 .. Len(points) - 1,
         NEW lines, lines = {Segment(points, i) : i \in Starts(points)}
  PROVE  LegShown(lines, points[k], points[k + 1])
<1>1. /\ Starts(points) \in SUBSET (1 .. Len(points)) /\ 1 \in Starts(points)
      /\ Len(points) \in Nat /\ points[k] \in Waypoints /\ points[k + 1] \in Waypoints
  BY StartsAreWaypoints
<1>2. PICK i \in Starts(points) : i <= k /\ \A j \in Starts(points) : j <= k => j <= i
  <2> DEFINE S == {j \in Starts(points) : j <= k}
  <2>1. S \in SUBSET Nat /\ S # {} /\ k \in Nat /\ \A y \in S : y <= k
    BY <1>1
  <2>2. PICK i \in S : \A y \in S : y <= i
    <3> HIDE DEF S
    <3>1. QED
      BY <2>1, BoundedHasGreatest
  <2>3. QED
    BY <2>2
<1>3. PICK last \in i .. Len(points) :
           /\ EndsWith(points, i, last)
           /\ Segment(points, i) = [n \in 1 .. After(points, last) - Before(i) + 1 |->
                                      PointAt(points, i, last, Before(i) + n - 1)]
  BY SegmentIs
<1> DEFINE s == Segment(points, i)
           at == k - Before(i) + 1
<1>4. i \in 1 .. Len(points) /\ Before(i) \in Nat /\ Before(i) <= i /\ k \in Nat
        /\ After(points, last) \in Nat /\ last <= After(points, last)
  BY <1>1 DEF Before, After
<1>5. last = Len(points) \/ last + 1 \in Starts(points)
  BY <1>3 DEF EndsWith
<1>6. last >= k
  BY <1>1, <1>2, <1>4, <1>5
<1>7. /\ k + 1 <= After(points, last)
      /\ Len(s) = After(points, last) - Before(i) + 1
  BY <1>3, <1>4, <1>6 DEF After
<1> HIDE DEF s
<1>8. Before(i) <= k
  BY <1>2, <1>4
<1>9. /\ at \in 1 .. Len(s) - 1 /\ Before(i) + at - 1 = k /\ Before(i) + (at + 1) - 1 = k + 1
      /\ at \in 1 .. Len(s) /\ at + 1 \in 1 .. Len(s)
  BY <1>4, <1>7, <1>8
<1>10. s[at] = PointAt(points, i, last, k) /\ s[at + 1] = PointAt(points, i, last, k + 1)
  BY <1>3, <1>7, <1>9 DEF s
<1> HIDE DEF at
<1>11. s[at] = Drawn(points[k])
  BY <1>2, <1>4, <1>6, <1>10 DEF PointAt
<1>12. s \in lines
  BY DEF s
<1>13. CASE k + 1 \notin Starts(points)
  <2>1. k + 1 <= last
    BY <1>1, <1>4, <1>5, <1>6, <1>13
  <2>2. s[at + 1] = Drawn(points[k + 1])
    BY <1>2, <1>4, <1>10, <2>1 DEF PointAt
  <2>3. QED
    BY <1>9, <1>11, <1>12, <2>2 DEF LegShown
<1>14. CASE k + 1 \in Starts(points)
  <2>1. last = k /\ last # Len(points)
    BY <1>1, <1>2, <1>3, <1>4, <1>6, <1>14 DEF EndsWith
  <2>2. crossesAntimeridian(points[k], points[k + 1]) /\ k + 1 # 1
    BY <1>4, <1>14 DEF Starts
  <2>3. s[at + 1] = interpolateAntimeridianPoint(points[k], points[k + 1], Side(points[k]))
    BY <1>2, <1>4, <1>10, <2>1 DEF PointAt
  <2>4. Len(s) = at + 1
    BY <1>4, <1>7, <1>9, <2>1 DEF After
  <2>5. PICK end \in k + 1 .. Len(points) :
          /\ EndsWith(points, k + 1, end)
          /\ Segment(points, k + 1) = [n \in 1 .. After(points, end) - Before(k + 1) + 1 |->
                                         PointAt(points, k + 1, end, Before(k + 1) + n - 1)]
    BY <1>14, SegmentIs
  <2> DEFINE t == Segment(points, k + 1)
  <2>6. Before(k + 1) = k /\ After(points, end) \in Nat /\ After(points, end) >= k + 1
    BY <1>1, <1>4, <2>2 DEF Before, After
  <2>7. Len(t) = After(points, end) - k + 1 /\ Len(t) > 1
    BY <1>4, <2>5, <2>6
  <2>8. t[1] = PointAt(points, k + 1, end, k) /\ t[2] = PointAt(points, k + 1, end, k + 1)
    BY <1>4, <2>5, <2>6
  <2>9. /\ t[1] = interpolateAntimeridianPoint(points[k], points[k + 1], Side(points[k + 1]))
        /\ t[2] = Drawn(points[k + 1])
    <3> HIDE DEF t
    <3>1. k < k + 1 /\ ~(k + 1 < k + 1) /\ ~(k + 1 > end)
      BY <1>4
    <3>2. QED
      BY <2>8, <3>1 DEF PointAt
  <2>10. t \in lines
    BY <1>14
  <2> HIDE DEF t
  <2>11. Meets(s, t)
    BY <1>1, <2>2, <2>3, <2>4, <2>9, MeetAtBorder
  <2>12. Len(s) > 1 /\ s[Len(s) - 1] = Drawn(points[k])
    BY <1>9, <1>11, <2>4
  <2>13. QED
    BY <1>12, <2>7, <2>9, <2>10, <2>11, <2>12 DEF LegShown
<1>15. QED
  BY <1>13, <1>14
-----------------------------------------------------------------------------
\* The layers of a path and the waypoints it was given, as in PathsAreWhole.
Whole(layers, points) ==
  LET lines == {layer.line : layer \in Range(layers)}
  IN  /\ \A k \in 1 .. Len(points) - 1 : LegShown(lines, points[k], points[k + 1])
      /\ \A s \in lines : \A m \in 1 .. Len(s) - 1 :
           \E k \in 1 .. Len(points) - 1 : OfLeg(s[m], s[m + 1], points[k], points[k + 1])

Short(line) == \A i \in 1 .. Len(line) - 1 : line[i + 1].lng - line[i].lng \in -180 .. 180

MapInv ==
  /\ IsFiniteSet(routeLayerGroup)
  /\ namedRouteLayers = [n \in Names |-> namedRouteLayers[n]]
  /\ given = [n \in Names |-> given[n]]
  /\ \A layer \in routeLayerGroup : Short(layer.line)
  /\ \A n \in Names : namedRouteLayers[n] # << >> => Whole(namedRouteLayers[n], given[n])

LEMMA MapInvMeans == MapInv => LinesStayShort /\ PathsAreWhole
BY DEF MapInv, Short, Whole, LinesStayShort, PathsAreWhole, Layers

LEMMA InitMapInv == MapInit => MapInv /\ LayersOwned
<1>1. Range(<< >>) = {}
  BY DEF Range
<1>2. QED
  BY <1>1, FS_EmptySet DEF MapInit, MapInv, LayersOwned, Layers

LEMMA PointsAreWaypoints ==
  ASSUME NEW route \in Routes
  PROVE  Points[route] \in Seq(Waypoints)
BY FlightMapAssumption, NormalizedAreWaypoints DEF Points

\* What is drawn for a route: nothing, or a segment for each start.
LEMMA SegmentsAre ==
  ASSUME NEW route \in Routes, NEW points, points = Points[route],
         NEW segments, segments = Segments[route]
  PROVE  /\ IsFiniteSet(DOMAIN segments)
         /\ IF Len(points) < 2 THEN segments = << >>
            ELSE /\ DOMAIN segments = Starts(points)
                 /\ \A i \in Starts(points) : segments[i] = Segment(points, i)
<1>1. points \in Seq(Waypoints)
  BY PointsAreWaypoints
<1>2. segments = IF Len(points) < 2 THEN << >> ELSE [i \in Starts(points) |-> Segment(points, i)]
  BY DEF Segments, Points, splitRouteAtAntimeridian
<1>3. CASE Len(points) < 2
  <2>1. DOMAIN segments = {}
    BY <1>2, <1>3
  <2>2. QED
    BY <1>2, <1>3, <2>1, FS_EmptySet
<1>4. CASE Len(points) >= 2
  <2>1. IsFiniteSet(Starts(points))
    <3>1. Len(points) \in Int
      BY <1>1
    <3>2. IsFiniteSet(1 .. Len(points))
      BY <3>1, FS_Interval
    <3>3. QED
      BY <1>1, <1>4, <3>2, StartsAreWaypoints, FS_Subset
  <2>2. QED
    BY <1>1, <1>2, <1>4, <2>1
<1>5. QED
  BY <1>1, <1>3, <1>4

\* What drawing the path n does, beside the layers others.
LEMMA DrawDoes ==
  ASSUME MapInv, NEW n \in Names, NEW route \in Routes,
         NEW others \in SUBSET routeLayerGroup, Draw(n, route, others)
  PROVE  \E layers :
           /\ Range(layers) \cap others = {} /\ IsFiniteSet(Range(layers))
           /\ \A layer \in Range(layers) : Short(layer.line)
           /\ routeLayerGroup' = others \cup Range(layers)
           /\ \/ /\ \A i \in DOMAIN Segments[route] : ~Refused(Segments[route][i])
                 /\ namedRouteLayers' = [namedRouteLayers EXCEPT ![n] = layers]
                 /\ given' = [given EXCEPT ![n] = Points[route]]
                 /\ Whole(layers, Points[route])
              \/ /\ Range(layers) = {} \/ \E i \in DOMAIN Segments[route] : Refused(Segments[route][i])
                 /\ namedRouteLayers' = [namedRouteLayers EXCEPT ![n] = << >>]
                 /\ given' = [given EXCEPT ![n] = << >>]
           /\ UNCHANGED routePolylines
<1> DEFINE segments == Segments[route]
           points == Points[route]
           refused == {i \in DOMAIN segments : Refused(segments[i])}
           drawn == {i \in DOMAIN segments : \A j \in refused : i < j}
           lines == [i \in drawn |-> segments[i]]
           layers == Polylines(lines, others)
           whole == refused = {} /\ segments # << >>
<1>1. /\ routeLayerGroup' = others \cup Range(layers)
      /\ namedRouteLayers' = [namedRouteLayers EXCEPT ![n] = IF whole THEN layers ELSE << >>]
      /\ given' = [given EXCEPT ![n] = IF whole THEN points ELSE << >>]
      /\ UNCHANGED routePolylines
  BY DEF Draw
<1>2. points \in Seq(Waypoints)
  BY PointsAreWaypoints
<1>3. /\ IsFiniteSet(DOMAIN segments)
      /\ IF Len(points) < 2 THEN segments = << >>
         ELSE /\ DOMAIN segments = Starts(points)
              /\ \A i \in Starts(points) : segments[i] = Segment(points, i)
  BY SegmentsAre
<1>4. drawn \in SUBSET DOMAIN segments /\ (refused = {} => drawn = DOMAIN segments)
        /\ (refused = {} <=> \A i \in DOMAIN segments : ~Refused(segments[i]))
  OBVIOUS
<1>5. DOMAIN lines = drawn /\ \A i \in drawn : lines[i] = segments[i]
  OBVIOUS
<1> HIDE DEF segments, points, refused, drawn, lines
<1>6. IsFiniteSet(DOMAIN lines) /\ IsFiniteSet(others)
  BY <1>3, <1>4, <1>5, FS_Subset DEF MapInv
<1>7. /\ DOMAIN layers = drawn
      /\ \A i \in drawn : layers[i].line = segments[i]
      /\ Range(layers) \cap others = {}
      /\ IsFiniteSet(Range(layers))
  BY <1>5, <1>6, PolylinesAreNew
<1> HIDE DEF layers
<1>8. DOMAIN segments # {} => Len(points) >= 2
  BY <1>2, <1>3
<1>9. \A layer \in Range(layers) : Short(layer.line)
  <2>1. SUFFICES ASSUME NEW i \in drawn
                 PROVE  Short(layers[i].line)
    BY <1>7 DEF Range
  <2>2. Len(points) >= 2 /\ i \in Starts(points) /\ layers[i].line = Segment(points, i)
    BY <1>2, <1>3, <1>4, <1>7, <1>8
  <2>3. QED
    BY <1>2, <2>2, SegmentsAreShort DEF Short
<1>10. CASE whole
  <2>1. DOMAIN segments # {} /\ Len(points) >= 2
    <3>1. Len(points) >= 2
      BY <1>2, <1>3, <1>10
    <3>2. QED
      BY <1>2, <1>3, <3>1, StartsAreWaypoints
  <2>2. {layer.line : layer \in Range(layers)} = {Segment(points, i) : i \in Starts(points)}
    BY <1>2, <1>3, <1>4, <1>7, <1>10, <2>1 DEF Range
  <2>3. Whole(layers, points)
    BY <1>2, <2>1, <2>2, LegsAreShown, SegmentsAreShort DEF Whole
  <2>4. QED
    BY <1>1, <1>4, <1>7, <1>9, <1>10, <2>3 DEF segments, points
<1>11. CASE ~whole
  <2>1. Range(layers) = {} \/ \E i \in DOMAIN segments : Refused(segments[i])
    <3>1. CASE refused # {}
      BY <1>4, <3>1
    <3>2. CASE segments = << >>
      <4>1. drawn = {}
        BY <1>4, <3>2
      <4>2. QED
        BY <1>7, <4>1 DEF Range
    <3>3. QED
      BY <1>11, <3>1, <3>2
  <2>2. QED
    BY <1>1, <1>7, <1>9, <1>11, <2>1 DEF segments
<1>12. QED
  BY <1>10, <1>11

\* Paths that have no layer changed stay as they are.
LEMMA DrawKeeps ==
  ASSUME MapInv, NEW n \in Names, NEW route \in Routes,
         NEW others \in SUBSET routeLayerGroup, Draw(n, route, others)
  PROVE  MapInv'
<1>1. PICK layers :
           /\ IsFiniteSet(Range(layers))
           /\ \A layer \in Range(layers) : Short(layer.line)
           /\ routeLayerGroup' = others \cup Range(layers)
           /\ \/ /\ namedRouteLayers' = [namedRouteLayers EXCEPT ![n] = layers]
                 /\ given' = [given EXCEPT ![n] = Points[route]]
                 /\ Whole(layers, Points[route])
              \/ /\ namedRouteLayers' = [namedRouteLayers EXCEPT ![n] = << >>]
                 /\ given' = [given EXCEPT ![n] = << >>]
  BY DrawDoes
<1>2. IsFiniteSet(routeLayerGroup') /\ \A layer \in routeLayerGroup' : Short(layer.line)
  BY <1>1, FS_Subset, FS_Union DEF MapInv
<1>3. /\ namedRouteLayers' = [m \in Names |-> namedRouteLayers'[m]]
      /\ given' = [m \in Names |-> given'[m]]
  BY <1>1 DEF MapInv
<1>4. ASSUME NEW m \in Names, namedRouteLayers'[m] # << >>
      PROVE  Whole(namedRouteLayers'[m], given'[m])
  <2>1. CASE m = n
    BY <1>1, <1>4, <2>1 DEF MapInv
  <2>2. CASE m # n
    <3>1. namedRouteLayers'[m] = namedRouteLayers[m] /\ given'[m] = given[m]
      BY <1>1, <2>2 DEF MapInv
    <3>2. QED
      BY <1>4, <3>1 DEF MapInv
  <2>3. QED
    BY <2>1, <2>2
<1>5. QED
  BY <1>2, <1>3, <1>4 DEF MapInv

\* What adding a route does.
LEMMA AddRouteDoes ==
  ASSUME MapInv, NEW route \in Routes, AddRoute(route)
  PROVE  LET others == routeLayerGroup \ (routePolylines \cup UNION {Layers(n) : n \in Names})
         IN  /\ IsFiniteSet(routePolylines')
             /\ \A layer \in routePolylines' : Short(layer.line)
             /\ routeLayerGroup' = others \cup routePolylines'
<1> DEFINE points == Points[route]
           others == routeLayerGroup \ (routePolylines \cup UNION {Layers(n) : n \in Names})
           legs == Legs(points)
           layers == Polylines(legs, others)
<1>1. routePolylines' = Range(layers) /\ routeLayerGroup' = others \cup Range(layers)
  BY DEF AddRoute
<1>2. points \in Seq(Waypoints)
  BY PointsAreWaypoints
<1>3. DOMAIN legs \in SUBSET (1 .. Len(points) - 1)
  BY DEF Legs
<1>4. ASSUME NEW i \in DOMAIN legs
      PROVE  Short(legs[i])
  <2>1. /\ legs[i] = <<Drawn(points[i]), Drawn(points[i + 1])>>
        /\ points[i + 1].lng - points[i].lng \in -180 .. 180
    BY <1>4 DEF Legs, crossesAntimeridian
  <2>2. /\ Len(legs[i]) = 2 /\ legs[i][1].lng = points[i].lng
        /\ legs[i][2].lng = points[i + 1].lng
    BY <2>1 DEF Drawn
  <2> HIDE DEF legs, points
  <2>3. \A k \in 1 .. Len(legs[i]) - 1 : k = 1 /\ k + 1 = 2
    BY <2>2
  <2>4. QED
    BY <2>1, <2>2, <2>3 DEF Short
<1>5. IsFiniteSet(DOMAIN legs) /\ IsFiniteSet(others)
  <2>1. Len(points) - 1 \in Int
    BY <1>2
  <2>2. IsFiniteSet(1 .. Len(points) - 1)
    BY <2>1, FS_Interval
  <2>3. QED
    BY <1>3, <2>2, FS_Subset DEF MapInv
<1> HIDE DEF points, others, legs
<1>6. /\ DOMAIN layers = DOMAIN legs /\ IsFiniteSet(Range(layers))
      /\ \A i \in DOMAIN legs : layers[i].line = legs[i]
  BY <1>5, PolylinesAreNew
<1> HIDE DEF layers
<1>7. \A layer \in Range(layers) : Short(layer.line)
  BY <1>4, <1>6 DEF Range
<1>8. QED
  BY <1>1, <1>6, <1>7 DEF others

\* Clearing takes layers away, and what is added is short and whole.
LEMMA NextMapInv == MapInv /\ [MapNext]_mapVars => MapInv'
<1> SUFFICES ASSUME MapInv, [MapNext]_mapVars
             PROVE  MapInv'
  OBVIOUS
<1>1. CASE ClearRoute
  <2>1. routeLayerGroup' \in SUBSET routeLayerGroup
    BY <1>1 DEF ClearRoute
  <2>2. IsFiniteSet(routeLayerGroup')
    BY <2>1, FS_Subset DEF MapInv
  <2>3. QED
    BY <1>1, <2>1, <2>2 DEF ClearRoute, MapInv
<1>2. ASSUME NEW route \in Routes, AddRoute(route)
      PROVE  MapInv'
  <2> DEFINE others == routeLayerGroup \ (routePolylines \cup UNION {Layers(n) : n \in Names})
  <2>1. /\ IsFiniteSet(routePolylines')
        /\ \A layer \in routePolylines' : Short(layer.line)
        /\ routeLayerGroup' = others \cup routePolylines'
    BY <1>2, AddRouteDoes
  <2>2. others \in SUBSET routeLayerGroup
    OBVIOUS
  <2> HIDE DEF others
  <2>3. IsFiniteSet(routeLayerGroup') /\ \A layer \in routeLayerGroup' : Short(layer.line)
    BY <2>1, <2>2, FS_Subset, FS_Union DEF MapInv
  <2>4. QED
    BY <1>2, <2>3 DEF AddRoute, MapInv
<1>3. ASSUME NEW n \in Names, NEW route \in Routes, AddPath(n, route)
      PROVE  MapInv'
  BY <1>3, DrawKeeps DEF AddPath
<1>4. ASSUME NEW n \in Names, ClearPath(n)
      PROVE  MapInv'
  <2>1. routeLayerGroup' \in SUBSET routeLayerGroup
    BY <1>4 DEF ClearPath
  <2>2. IsFiniteSet(routeLayerGroup')
    BY <2>1, FS_Subset DEF MapInv
  <2>3. \A m \in Names : namedRouteLayers'[m] # << >> =>
          namedRouteLayers'[m] = namedRouteLayers[m] /\ given'[m] = given[m]
    BY <1>4 DEF ClearPath, MapInv
  <2>4. /\ namedRouteLayers' = [m \in Names |-> namedRouteLayers'[m]]
        /\ given' = [m \in Names |-> given'[m]]
    BY <1>4 DEF ClearPath, MapInv
  <2>5. QED
    BY <2>1, <2>2, <2>3, <2>4 DEF MapInv
<1>5. CASE UNCHANGED mapVars
  BY <1>5 DEF mapVars, MapInv
<1>6. QED
  BY <1>1, <1>2, <1>3, <1>4, <1>5 DEF MapNext

\* The lines on the map are short and the paths whole (flight-map.mjs:86-177).
THEOREM MapInvariance == MapSpec => []MapInv
BY InitMapInv, NextMapInv, PTL DEF MapSpec

\* Whatever routes and paths are drawn over one another, no line goes round the
\* globe the long way, for any waypoints, routes and names
\* (flight-map.mjs:119-170, 456-462).
THEOREM LinesAreShort == MapSpec => []LinesStayShort
BY MapInvariance, MapInvMeans, PTL

\* A path shows the legs between its waypoints, and no others, and comes in
\* where it left off, for any waypoints, routes and names (flight-map.mjs:123-177).
THEOREM PathsShowTheirLegs == MapSpec => []PathsAreWhole
BY MapInvariance, MapInvMeans, PTL
-----------------------------------------------------------------------------
\* Unwrapped, only the two names of the border are the same longitude.
LEMMA FullCircle ==
  ASSUME NEW p \in -180 .. 180, NEW q \in -180 .. 180
  PROVE  /\ (p = -180 /\ q = 180) \/ (q - 360) - p # 0
         /\ (p = 180 /\ q = -180) \/ (q + 360) - p # 0
OBVIOUS

LEMMA InterpolatedIsDrawable ==
  ASSUME NEW a \in Waypoints, NEW b \in Waypoints, crossesAntimeridian(a, b),
         {a.lng, b.lng} # {-180, 180}, NEW lng
  PROVE  interpolateAntimeridianPoint(a, b, lng).lat[2] # 0
<1>1. a.lng \in -180 .. 180 /\ b.lng \in -180 .. 180
  BY FlightMapAssumption
<1>2. (a.lng < 0 /\ b.lng > 0) \/ (a.lng > 0 /\ b.lng < 0)
  BY <1>1, OppositeSides DEF crossesAntimeridian
<1>3. Unwrapped(a, b) - a.lng # 0
  <2>1. CASE a.lng < 0 /\ b.lng > 0
    <3>1. Unwrapped(a, b) = b.lng - 360
      BY <1>1, <2>1 DEF Unwrapped
    <3>2. ~(a.lng = -180 /\ b.lng = 180)
      OBVIOUS
    <3>3. (b.lng - 360) - a.lng # 0
      BY <1>1, <3>2, FullCircle
    <3>4. QED
      BY <3>1, <3>3
  <2>2. CASE a.lng > 0 /\ b.lng < 0
    <3>1. Unwrapped(a, b) = b.lng + 360
      BY <1>1, <2>2 DEF Unwrapped
    <3>2. ~(a.lng = 180 /\ b.lng = -180)
      OBVIOUS
    <3>3. (b.lng + 360) - a.lng # 0
      BY <1>1, <3>2, FullCircle
    <3>4. QED
      BY <3>1, <3>3
  <2>3. QED
    BY <1>2, <2>1, <2>2
<1>4. QED
  BY <1>3 DEF interpolateAntimeridianPoint, At

\* Leaflet then refuses no segment.
LEMMA SegmentsAreDrawable ==
  ASSUME NoLegOnBorder, NEW route \in Routes, NEW i \in DOMAIN Segments[route]
  PROVE  ~Refused(Segments[route][i])
<1> DEFINE points == Points[route]
           s == Segments[route][i]
<1>1. points \in Seq(Waypoints) /\ Len(points) \in Nat
  BY PointsAreWaypoints
<1>2. Len(points) >= 2 /\ i \in Starts(points) /\ s = Segment(points, i)
  <2>1. ~(Len(points) < 2)
    <3>1. DOMAIN << >> = {}
      OBVIOUS
    <3>2. QED
      BY <3>1, SegmentsAre
  <2>2. DOMAIN Segments[route] = Starts(points)
        /\ \A j \in Starts(points) : Segments[route][j] = Segment(points, j)
    BY <2>1, SegmentsAre
  <2>3. QED
    BY <1>1, <2>1, <2>2
<1> HIDE DEF s
<1>3. PICK last \in i .. Len(points) :
           /\ EndsWith(points, i, last)
           /\ Segment(points, i) = [k \in 1 .. After(points, last) - Before(i) + 1 |->
                                      PointAt(points, i, last, Before(i) + k - 1)]
  BY <1>1, <1>2, SegmentIs
<1>4. i \in 1 .. Len(points) /\ (last + 1 \in Starts(points) => last + 1 \in 1 .. Len(points))
  BY <1>1, <1>2, StartsAreWaypoints
<1>5. ASSUME NEW m \in Before(i) .. After(points, last)
      PROVE  PointAt(points, i, last, m).lat[2] # 0
  <2>1. CASE m < i
    <3>1. i # 1 /\ m = i - 1 /\ m \in 1 .. Len(points) - 1 /\ m + 1 = i
      BY <1>1, <1>4, <2>1 DEF Before
    <3>2. crossesAntimeridian(points[m], points[i])
      BY <1>1, <1>2, <3>1 DEF Starts
    <3>3. {points[m].lng, points[i].lng} # {-180, 180}
      <4>1. {points[m].lng, points[m + 1].lng} # {-180, 180}
        BY <3>1 DEF NoLegOnBorder
      <4>2. QED
        BY <3>1, <4>1
    <3>4. points[m] \in Waypoints /\ points[i] \in Waypoints
      BY <1>1, <1>4, <3>1
    <3>5. PointAt(points, i, last, m) =
            interpolateAntimeridianPoint(points[m], points[i], Side(points[i]))
      <4>1. ~(m > last)
        BY <1>1, <1>4, <3>1
      <4>2. QED
        BY <2>1, <4>1 DEF PointAt
    <3>6. QED
      BY <3>2, <3>3, <3>4, <3>5, InterpolatedIsDrawable
  <2>2. CASE m > last
    <3>1. last # Len(points) /\ m = last + 1 /\ last \in 1 .. Len(points) - 1
      BY <1>1, <1>4, <2>2 DEF After, Before
    <3>2. m \in Starts(points) /\ m # 1
      BY <1>3, <1>4, <3>1 DEF EndsWith
    <3>3. crossesAntimeridian(points[last], points[m])
      BY <1>1, <3>1, <3>2 DEF Starts
    <3>4. {points[last].lng, points[m].lng} # {-180, 180}
      BY <3>1 DEF NoLegOnBorder
    <3>5. points[last] \in Waypoints /\ points[m] \in Waypoints
      BY <1>1, <3>1
    <3>6. ~(m < i)
      BY <1>4, <2>2
    <3>7. QED
      BY <2>2, <3>3, <3>4, <3>5, <3>6, InterpolatedIsDrawable DEF PointAt
  <2>3. CASE ~(m < i) /\ ~(m > last)
    BY <2>3 DEF PointAt, Drawn
  <2>4. QED
    BY <2>1, <2>2, <2>3
<1>6. Before(i) \in Nat /\ After(points, last) \in Nat
  BY <1>1, <1>4 DEF Before, After
<1>7. \A k \in DOMAIN s : s[k].lat[2] # 0
  <2>1. SUFFICES ASSUME NEW k \in 1 .. After(points, last) - Before(i) + 1
                 PROVE  PointAt(points, i, last, Before(i) + k - 1).lat[2] # 0
    BY <1>2, <1>3
  <2>2. Before(i) + k - 1 \in Before(i) .. After(points, last)
    BY <1>6
  <2>3. QED
    BY <1>5, <2>2
<1>8. QED
  BY <1>7 DEF Refused, s

\* A new layer is of the path that is drawn alone, and one that is gone was nobody else's.
LEMMA NextLayersOwned ==
  ASSUME NoLegOnBorder, MapInv, LayersOwned, [MapNext]_mapVars
  PROVE  LayersOwned'
<1>1. Range(<< >>) = {}
  BY DEF Range
<1>2. CASE ClearRoute
  BY <1>1, <1>2 DEF ClearRoute, LayersOwned, Layers
<1>3. ASSUME NEW route \in Routes, AddRoute(route)
      PROVE  LayersOwned'
  <2>1. routeLayerGroup' = routePolylines'
    BY <1>3, AddRouteDoes DEF LayersOwned
  <2>2. \A n \in Names : Layers(n)' = {}
    BY <1>1, <1>3 DEF AddRoute, Layers
  <2>3. QED
    BY <2>1, <2>2 DEF LayersOwned
<1>4. ASSUME NEW n \in Names, NEW route \in Routes, AddPath(n, route)
      PROVE  LayersOwned'
  <2> DEFINE others == routeLayerGroup \ Layers(n)
  <2>1. PICK layers :
           /\ Range(layers) \cap others = {}
           /\ routeLayerGroup' = others \cup Range(layers)
           /\ \/ namedRouteLayers' = [namedRouteLayers EXCEPT ![n] = layers]
              \/ Range(layers) = {} /\ namedRouteLayers' = [namedRouteLayers EXCEPT ![n] = << >>]
           /\ UNCHANGED routePolylines
    BY <1>4, DrawDoes, SegmentsAreDrawable DEF AddPath
  <2>2. Layers(n)' = Range(layers) /\ \A m \in Names \ {n} : Layers(m)' = Layers(m)
    BY <1>1, <2>1 DEF Layers, MapInv
  <2>3. others = routePolylines \cup UNION {Layers(m) : m \in Names \ {n}}
    BY DEF LayersOwned
  <2>4. /\ routeLayerGroup' = routePolylines' \cup UNION {Layers(m)' : m \in Names}
        /\ Layers(n)' \cap routePolylines' = {}
        /\ \A m \in Names \ {n} : Layers(n)' \cap Layers(m)' = {}
    BY <2>1, <2>2, <2>3
  <2>5. \A m \in Names \ {n} : Layers(m)' \cap routePolylines' = {}
    BY <2>1, <2>2 DEF LayersOwned
  <2>6. \A k, m \in Names \ {n} : k # m => Layers(k)' \cap Layers(m)' = {}
    BY <2>2 DEF LayersOwned
  <2>7. QED
    BY <2>4, <2>5, <2>6 DEF LayersOwned
<1>5. ASSUME NEW n \in Names, ClearPath(n)
      PROVE  LayersOwned'
  <2>1. Layers(n)' = {} /\ \A m \in Names \ {n} : Layers(m)' = Layers(m)
    BY <1>1, <1>5 DEF ClearPath, Layers, MapInv
  <2>2. routeLayerGroup' = routePolylines \cup UNION {Layers(m) : m \in Names \ {n}}
    BY <1>5 DEF ClearPath, LayersOwned
  <2>3. routePolylines' = routePolylines
    BY <1>5 DEF ClearPath
  <2>4. QED
    BY <2>1, <2>2, <2>3 DEF LayersOwned
<1>6. CASE UNCHANGED mapVars
  BY <1>6 DEF mapVars, LayersOwned, Layers
<1>7. QED
  BY <1>2, <1>3, <1>4, <1>5, <1>6 DEF MapNext

\* As long as no route has a leg between +180 and -180, every layer on the map
\* belongs to the route or to one path, so that a later call can take it away,
\* whatever is drawn over whatever (flight-map.mjs:381-641).
THEOREM NothingIsLeftBehind == NoLegOnBorder => (MapSpec => []LayersOwned)
<1> SUFFICES ASSUME NoLegOnBorder
             PROVE  MapSpec => []LayersOwned
  OBVIOUS
<1>1. MapInit => LayersOwned
  BY InitMapInv
<1>2. MapInv /\ LayersOwned /\ [MapNext]_mapVars => LayersOwned'
  BY NextLayersOwned
<1>3. QED
  BY <1>1, <1>2, MapInvariance, PTL DEF MapSpec
=============================================================================

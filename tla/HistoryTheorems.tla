-------------------------- MODULE HistoryTheorems --------------------------
(***************************************************************************)
(* What the operations on bounded histories return, for every history.     *)
(***************************************************************************)
EXTENDS History, SequenceTheorems, TLAPS

\* An upper bound of a history may grow.
LEMMA UpToLater ==
  ASSUME NEW h \in Seq(Nat), NEW s \in Nat, NEW t \in Nat, s <= t, UpTo(h, s)
  PROVE  UpTo(h, t)
<1>1. \A i \in 1 .. Len(h) : h[i] \in Nat
  BY ElementOfSeq
<1> QED
  BY <1>1 DEF UpTo

\* The newest entries of a history are entries of it, in their order, and
\* there are at most cap of them.
LEMMA NewestEntries ==
  ASSUME NEW S, NEW h \in Seq(S), NEW cap \in Nat
  PROVE  /\ Newest(h, cap) \in Seq(S)
         /\ Len(Newest(h, cap)) <= cap
         /\ \E k \in Nat :
              /\ k + Len(Newest(h, cap)) = Len(h)
              /\ \A i \in 1 .. Len(Newest(h, cap)) : Newest(h, cap)[i] = h[k + i]
<1>1. Len(h) \in Nat
  BY LenProperties
<1>2. CASE Len(h) <= cap
  <2>1. Newest(h, cap) = h
    BY <1>1, <1>2 DEF Newest
  <2> QED
    BY <1>1, <1>2, <2>1
<1>3. CASE Len(h) > cap
  <2>1. PICK k \in Nat : k + cap = Len(h)
    <3>1. Len(h) - cap \in Nat /\ (Len(h) - cap) + cap = Len(h)
      BY <1>1, <1>3
    <3> QED
      BY <3>1
  <2> DEFINE new == SubSeq(h, k + 1, Len(h))
  <2>2. Newest(h, cap) = new
    <3>1. Len(h) - cap + 1 = k + 1
      BY <1>1, <2>1
    <3> QED
      BY <1>3, <3>1 DEF Newest
  <2>3. \A i \in k + 1 .. Len(h) : h[i] \in S
    BY <1>1, ElementOfSeq
  <2>4. Len(h) - (k + 1) + 1 = cap /\ (k + 1 > Len(h) => cap = 0)
    BY <1>1, <2>1
  <2>5. /\ new \in Seq(S)
        /\ Len(new) = cap
        /\ \A i \in 1 .. cap : new[i] = h[(k + 1) + i - 1]
    BY <1>1, <2>3, <2>4, SubSeqProperties
  <2>6. \A i \in 1 .. cap : (k + 1) + i - 1 = k + i
    OBVIOUS
  <2> HIDE DEF new
  <2>7. \A i \in 1 .. Len(new) : new[i] = h[k + i]
    BY <2>5, <2>6
  <2>8. Len(new) <= cap /\ k + Len(new) = Len(h)
    BY <2>1, <2>5
  <2> QED
    BY <2>2, <2>5, <2>7, <2>8, Zenon
<1> QED
  BY <1>1, <1>2, <1>3

\* Adding a position keeps a history a sequence within its cap.
LEMMA NextHistoryType ==
  ASSUME NEW S, NEW h \in Seq(S), NEW p \in S, NEW cap \in Nat
  PROVE  /\ NextHistory(h, p, cap) \in Seq(S)
         /\ Len(NextHistory(h, p, cap)) <= cap
BY AppendProperties, NewestEntries DEF NextHistory

\* Adding a position at least as new as all others keeps a history ordered,
\* and that position stays the newest.
LEMMA NextHistoryOrdered ==
  ASSUME NEW h \in Seq(Nat), NEW p \in Nat, NEW cap \in Nat,
         Ordered(h), UpTo(h, p)
  PROVE  /\ Ordered(NextHistory(h, p, cap))
         /\ UpTo(NextHistory(h, p, cap), p)
<1> DEFINE longer == Append(h, p)
           new == NextHistory(h, p, cap)
<1>1. /\ longer \in Seq(Nat)
      /\ Len(longer) = Len(h) + 1
      /\ \A i \in 1 .. Len(h) : longer[i] = h[i]
      /\ longer[Len(h) + 1] = p
  BY AppendProperties
<1>2. Len(h) \in Nat
  BY LenProperties
<1> HIDE DEF longer
<1>3. UpTo(longer, p)
  BY <1>1, <1>2 DEF UpTo
<1>4. Ordered(longer)
  <2> SUFFICES ASSUME NEW i \in 1 .. Len(longer), NEW j \in 1 .. Len(longer),
                      i <= j
               PROVE  longer[i] <= longer[j]
    BY DEF Ordered
  <2>1. CASE j = Len(h) + 1
    BY <1>1, <1>3, <2>1 DEF UpTo
  <2>2. CASE j # Len(h) + 1
    <3>1. i \in 1 .. Len(h) /\ j \in 1 .. Len(h)
      BY <1>1, <1>2, <2>2
    <3> QED
      BY <1>1, <3>1 DEF Ordered
  <2> QED
    BY <2>1, <2>2
<1>5. PICK k \in Nat :
        /\ k + Len(new) = Len(longer)
        /\ \A i \in 1 .. Len(new) : new[i] = longer[k + i]
  BY <1>1, NewestEntries DEF NextHistory, longer
<1>6. Len(new) \in Nat
  BY <1>1, NewestEntries, LenProperties DEF NextHistory, longer
<1> HIDE DEF new
<1>7. \A i \in 1 .. Len(new) : k + i \in 1 .. Len(longer)
  BY <1>1, <1>2, <1>5, <1>6
<1>8. UpTo(new, p)
  BY <1>3, <1>5, <1>7 DEF UpTo
<1>9. Ordered(new)
  <2> SUFFICES ASSUME NEW i \in 1 .. Len(new), NEW j \in 1 .. Len(new), i <= j
               PROVE  new[i] <= new[j]
    BY DEF Ordered
  <2>1. k + i <= k + j
    BY <1>6
  <2> QED
    BY <2>1, <1>4, <1>5, <1>7 DEF Ordered
<1> QED
  BY <1>8, <1>9 DEF new

\* Adding a position newer than all others keeps a history free of repeats.
LEMMA NextHistoryStrict ==
  ASSUME NEW h \in Seq(Nat), NEW p \in Nat, NEW cap \in Nat,
         StrictlyOrdered(h), \A i \in 1 .. Len(h) : h[i] < p
  PROVE  /\ StrictlyOrdered(NextHistory(h, p, cap))
         /\ UpTo(NextHistory(h, p, cap), p)
<1> DEFINE longer == Append(h, p)
           new == NextHistory(h, p, cap)
<1>1. /\ longer \in Seq(Nat)
      /\ Len(longer) = Len(h) + 1
      /\ \A i \in 1 .. Len(h) : longer[i] = h[i]
      /\ longer[Len(h) + 1] = p
  BY AppendProperties
<1>2. Len(h) \in Nat
  BY LenProperties
<1>3. \A i \in 1 .. Len(h) : h[i] \in Nat
  BY ElementOfSeq
<1> HIDE DEF longer
<1>4. UpTo(longer, p)
  BY <1>1, <1>2, <1>3 DEF UpTo
<1>5. StrictlyOrdered(longer)
  <2> SUFFICES ASSUME NEW i \in 1 .. Len(longer), NEW j \in 1 .. Len(longer),
                      i < j
               PROVE  longer[i] < longer[j]
    BY DEF StrictlyOrdered
  <2>1. i \in 1 .. Len(h)
    BY <1>1, <1>2
  <2>2. CASE j = Len(h) + 1
    BY <1>1, <2>1, <2>2
  <2>3. CASE j # Len(h) + 1
    <3>1. j \in 1 .. Len(h) + 1
      BY <1>1
    <3>2. j \in 1 .. Len(h)
      BY <1>2, <2>3, <3>1
    <3> QED
      BY <1>1, <2>1, <3>2 DEF StrictlyOrdered
  <2> QED
    BY <2>2, <2>3
<1>6. PICK k \in Nat :
        /\ k + Len(new) = Len(longer)
        /\ \A i \in 1 .. Len(new) : new[i] = longer[k + i]
  BY <1>1, NewestEntries DEF NextHistory, longer
<1>7. Len(new) \in Nat
  BY <1>1, NewestEntries, LenProperties DEF NextHistory, longer
<1> HIDE DEF new
<1>8. \A i \in 1 .. Len(new) : k + i \in 1 .. Len(longer)
  BY <1>1, <1>2, <1>6, <1>7
<1>9. UpTo(new, p)
  BY <1>4, <1>6, <1>8 DEF UpTo
<1>10. StrictlyOrdered(new)
  <2> SUFFICES ASSUME NEW i \in 1 .. Len(new), NEW j \in 1 .. Len(new), i < j
               PROVE  new[i] < new[j]
    BY DEF StrictlyOrdered
  <2>1. k + i < k + j
    BY <1>7
  <2> QED
    BY <2>1, <1>5, <1>6, <1>8 DEF StrictlyOrdered
<1> QED
  BY <1>9, <1>10 DEF new

\* Whatever the cap is, the position that was added is there, as the last.
LEMMA NextHistoryLast ==
  ASSUME NEW S, NEW h \in Seq(S), NEW p \in S, NEW cap \in Nat \ {0}
  PROVE  /\ NextHistory(h, p, cap) # << >>
         /\ NextHistory(h, p, cap)[Len(NextHistory(h, p, cap))] = p
<1> DEFINE longer == Append(h, p)
           new == NextHistory(h, p, cap)
<1>1. /\ longer \in Seq(S)
      /\ Len(longer) = Len(h) + 1
      /\ longer[Len(h) + 1] = p
      /\ Len(h) \in Nat
  BY AppendProperties, LenProperties
<1>2. new = Newest(longer, cap)
  BY DEF NextHistory
<1> HIDE DEF longer, new
<1>3. PICK k \in Nat :
        /\ k + Len(new) = Len(longer)
        /\ \A i \in 1 .. Len(new) : new[i] = longer[k + i]
  BY <1>1, <1>2, NewestEntries
<1>4. new \in Seq(S) /\ Len(new) \in Nat
  BY <1>1, <1>2, NewestEntries, LenProperties
<1>5. Len(new) > 0
  <2>1. CASE Len(longer) <= cap
    BY <1>1, <1>2, <2>1 DEF Newest
  <2>2. CASE Len(longer) > cap
    <3> DEFINE first == Len(longer) - cap + 1
    <3>1. first \in Int /\ first <= Len(longer) /\ first \in 1 .. Len(longer) + 1
          /\ Len(longer) \in Nat
      BY <1>1, <2>2
    <3>2. new = SubSeq(longer, first, Len(longer))
      BY <1>2, <2>2 DEF Newest
    <3>3. \A i \in first .. Len(longer) : longer[i] \in S
      BY <1>1, <3>1, ElementOfSeq
    <3> HIDE DEF first
    <3>4. Len(new) = Len(longer) - first + 1
      BY <3>1, <3>2, <3>3, SubSeqProperties
    <3> QED
      BY <3>1, <3>4
  <2> QED
    BY <1>1, <2>1, <2>2
<1>6. new[Len(new)] = p
  BY <1>1, <1>3, <1>4, <1>5
<1>7. new # << >>
  BY <1>4, <1>5, EmptySeq
<1> QED
  BY <1>6, <1>7 DEF new
=============================================================================

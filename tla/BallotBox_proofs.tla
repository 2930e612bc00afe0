-------------------------- MODULE BallotBox_proofs --------------------------
(***************************************************************************)
(* Theorems about the ballot box, for every stock of ballots, any number of *)
(* candidates, any cadences and any resolution of the clock.               *)
(***************************************************************************)
EXTENDS BallotBox, SequenceLemmas, TLAPS

(***************************************************************************)
(* Arithmetic and finite sets.                                             *)
(***************************************************************************)

\* Products of naturals are naturals.
LEMMA ProductNat == \A a, b \in Nat : a * b \in Nat
OBVIOUS

\* The instant of the clock is a natural number of seconds.
LEMMA SecondType ==
    ASSUME clock \in Nat
    PROVE  Second \in Nat
BY BoxConstantsOK DEF Second

\* The indices of a sequence are finitely many, and so are its keys.
LEMMA KeysFinite ==
    ASSUME NEW ledger \in Seq(Ballots)
    PROVE  IsFiniteSet({ledger[i].key : i \in DOMAIN ledger})
<1> DEFINE n == Len(ledger)
           keyOf == [i \in 1..n |-> ledger[i].key]
           keys == {ledger[i].key : i \in 1..n}
<1>1. n \in Nat /\ DOMAIN ledger = 1..n
  OBVIOUS
<1>2. IsFiniteSet(1..n)
  <2>1. 1 \in Int /\ n \in Int
    BY <1>1
  <2> HIDE DEF n
  <2> QED
    BY <2>1, FS_Interval
<1>3. keyOf \in Surjection(1..n, keys)
  BY DEF Surjection
<1>4. IsFiniteSet(keys)
  <2> HIDE DEF n, keyOf, keys
  <2> QED
    BY <1>2, <1>3, FS_Surjection
<1> QED
  BY <1>1, <1>4

\* Figures are natural numbers.
LEMMA CountType ==
    ASSUME NEW ledger \in Seq(Ballots)
    PROVE  Count(ledger) \in Figures
<1> DEFINE effective == EffectiveBallots(ledger)
           cast(s) == {k \in DOMAIN effective : effective[k].selection = s}
           invalid == {k \in DOMAIN effective : effective[k].selection \notin 1..NumChoices}
<1>1. DOMAIN effective = {ledger[i].key : i \in DOMAIN ledger}
  BY DEF EffectiveBallots
<1>2. IsFiniteSet(DOMAIN effective)
  BY <1>1, KeysFinite
<1>3. ASSUME NEW S \in SUBSET DOMAIN effective
      PROVE  Cardinality(S) \in Nat
  <2> HIDE DEF effective
  <2> QED
    BY <1>2, FS_Subset, FS_CardinalityType
<1>4. \A s \in 1..NumChoices : Cardinality(cast(s)) \in Nat
  BY <1>3
<1>5. Cardinality(invalid) \in Nat /\ Cardinality(DOMAIN effective) \in Nat
  BY <1>3
<1>6. Count(ledger) =
        [counts  |-> [s \in 1..NumChoices |-> Cardinality(cast(s))],
         invalid |-> Cardinality(invalid), voters |-> Cardinality(DOMAIN effective)]
  BY DEF Count
<1> HIDE DEF effective, cast, invalid
<1> QED
  BY <1>4, <1>5, <1>6 DEF Figures

(***************************************************************************)
(* Types.                                                                  *)
(***************************************************************************)

\* There are finitely many boundaries to catch up with.
LEMMA DueFinite ==
    ASSUME TypeOK
    PROVE  Cardinality(Due) \in Nat
<1>1. nextBoundary \in Int /\ Second \in Int
  BY SecondType DEF TypeOK
<1>2. IsFiniteSet(nextBoundary..Second)
  BY <1>1, FS_Interval
<1>3. Due \subseteq nextBoundary..Second
  BY DEF Due
<1>4. IsFiniteSet(Due)
  BY <1>2, <1>3, FS_Subset
<1> QED
  BY <1>4, FS_CardinalityType

\* A published figure has its type.
LEMMA SnapshotType ==
    ASSUME TypeOK, NEW at \in Nat
    PROVE  Snapshot(at) \in Snapshots
<1>1. accepted \in Seq(Ballots) /\ rejected \in Seq(Refusals)
  BY DEF TypeOK
<1>2. Len(accepted) \in Nat /\ Len(rejected) \in Nat
  BY <1>1
<1>3. Count(accepted) \in Figures
  BY <1>1, CountType
<1> QED
  BY <1>2, <1>3 DEF Snapshot, Snapshots

\* The figures that have fallen due are figures.
LEMMA DueFiguresType ==
    ASSUME TypeOK
    PROVE  DueFigures \in Seq(Snapshots)
<1> DEFINE n == Cardinality(Due)
<1>1. n \in Nat
  BY DueFinite
<1>2. interval \in Nat /\ nextBoundary \in Nat
  BY BoxConstantsOK DEF TypeOK
<1>3. ASSUME NEW i \in 1..n
      PROVE  Snapshot(nextBoundary + (i - 1) * interval) \in Snapshots
  <2>1. i - 1 \in Nat
    BY <1>1
  <2>2. (i - 1) * interval \in Nat
    BY <1>2, <2>1, ProductNat
  <2>3. nextBoundary + (i - 1) * interval \in Nat
    BY <1>2, <2>2
  <2> QED
    BY <2>3, SnapshotType
<1>4. DueFigures \in [1..n -> Snapshots]
  BY <1>3 DEF DueFigures
<1> QED
  <2> HIDE DEF n
  <2> QED
    BY <1>1, <1>4

\* Catching up adds published figures and moves the boundary on.
LEMMA CaughtUpTypes ==
    ASSUME TypeOK
    PROVE  CaughtUp \in Seq(Snapshots) /\ BoundaryAfterCatchUp \in Nat
<1>1. CaughtUp \in Seq(Snapshots)
  BY DueFiguresType DEF CaughtUp, TypeOK
<1>2. interval \in Nat /\ nextBoundary \in Nat /\ Cardinality(Due) \in Nat
  BY DueFinite, BoxConstantsOK DEF TypeOK
<1>3. Cardinality(Due) * interval \in Nat
  BY <1>2, ProductNat
<1>4. BoundaryAfterCatchUp \in Nat
  BY <1>2, <1>3 DEF BoundaryAfterCatchUp
<1> QED
  BY <1>1, <1>4

\* Acts are typed.
LEMMA ActTypes ==
    ASSUME TypeOK, NEW phase \in {"opened", "closed"}
    PROVE  Append(acts, Act(phase)) \in Seq(Acts)
<1>1. Second \in Nat
  BY SecondType DEF TypeOK
<1>2. Act(phase) \in Acts
  BY <1>1 DEF Act, Acts
<1> QED
  BY <1>2 DEF TypeOK

\* Adding an entry, and its receipt, keeps the types.
LEMMA AcceptTypes ==
    ASSUME TypeOK, NEW b \in Ballots, Accept(b)
    PROVE  /\ accepted' \in Seq(Ballots) /\ rejected' \in Seq(Refusals)
           /\ acceptedRecords' \in SUBSET Ballots
           /\ receipts' \subseteq Receipts
           /\ acceptedAt' \in Seq(Nat) /\ rejectedAt' \in Seq(Nat)
<1>1. accepted' \in Seq(Ballots) /\ accepted' = Append(accepted, b)
  BY DEF Accept, TypeOK
<1>2. Len(accepted') \in Nat
  BY <1>1
<1>3. HeadHash(accepted') = accepted'
  BY <1>1, SubSeqFull DEF HeadHash, EntryHash
<1>4. Receipt("accepted", accepted') \in Receipts
  BY <1>1, <1>2, <1>3 DEF Receipt, Receipts
<1>5. acceptedAt' \in Seq(Nat) /\ rejectedAt' \in Seq(Nat)
  BY DEF Accept, TypeOK
<1> QED
  BY <1>1, <1>4, <1>5 DEF Accept, TypeOK

\* Recording a refusal, and its receipt, keeps the types.
LEMMA RefuseTypes ==
    ASSUME TypeOK, NEW b \in Ballots, NEW reason \in Reasons, Refuse(b, reason)
    PROVE  /\ accepted' \in Seq(Ballots) /\ rejected' \in Seq(Refusals)
           /\ acceptedRecords' \in SUBSET Ballots
           /\ receipts' \subseteq Receipts
           /\ acceptedAt' \in Seq(Nat) /\ rejectedAt' \in Seq(Nat)
<1>1. [ballot |-> b, reason |-> reason] \in Refusals
  BY DEF Refusals
<1>2. rejected' \in Seq(Refusals)
  BY <1>1 DEF Refuse, TypeOK
<1>3. Len(rejected') \in Nat
  BY <1>2
<1>4. HeadHash(rejected') = rejected'
  BY <1>2, SubSeqFull DEF HeadHash, EntryHash
<1>5. Receipt("rejected", rejected') \in Receipts
  BY <1>2, <1>3, <1>4 DEF Receipt, Receipts
<1>6. acceptedAt' \in Seq(Nat) /\ rejectedAt' \in Seq(Nat)
  BY DEF Refuse, TypeOK
<1> QED
  BY <1>2, <1>5, <1>6 DEF Refuse, TypeOK

\* A verdict that is not an acceptance is one of the reasons.
LEMMA VerdictIsReason ==
    ASSUME NEW b \in Ballots, Verdict(b) # "accepted"
    PROVE  Verdict(b) \in Reasons
BY DEF Verdict, Reasons

\* What the close writes to disk has its type.
LEMMA StoredStateType ==
    ASSUME TypeOK, acts' \in Seq(Acts), snapshots' \in Seq(Snapshots)
    PROVE  StoredState \in Records
<1>1. accepted \in Seq(Ballots) /\ rejected \in Seq(Refusals)
  BY DEF TypeOK
<1>2. HeadHash(accepted) = accepted /\ HeadHash(rejected) = rejected
  BY <1>1, SubSeqFull DEF HeadHash, EntryHash
<1> QED
  BY <1>1, <1>2 DEF StoredState, Records

\* The type of a ledger that has lost an entry.
LEMMA AlteredType ==
    ASSUME NEW S, NEW ledger \in Seq(S), NEW kept \in Altered(ledger)
    PROVE  kept \in Seq(S)
<1>1. PICK i \in DOMAIN ledger :
         kept = SubSeq(ledger, 1, i - 1) \o SubSeq(ledger, i + 1, Len(ledger))
  BY DEF Altered
<1>2. i \in 1..Len(ledger) /\ Len(ledger) \in Nat
  OBVIOUS
<1>3. SubSeq(ledger, 1, i - 1) \in Seq(S)
  BY <1>2
<1>4. SubSeq(ledger, i + 1, Len(ledger)) \in Seq(S)
  BY <1>2
<1> QED
  BY <1>1, <1>3, <1>4

\* Every variable of the box keeps its type.
THEOREM BoxTypeCorrect == Spec => []TypeOK
<1>1. Init => TypeOK
  <2> SUFFICES ASSUME Init
               PROVE  TypeOK
    OBVIOUS
  <2>1. interval \in Intervals /\ nextBoundary \in Nat
    BY BoxConstantsOK DEF Init
  <2>2. /\ accepted \in Seq(Ballots) /\ rejected \in Seq(Refusals)
        /\ acts \in Seq(Acts) /\ snapshots \in Seq(Snapshots)
        /\ acceptedAt \in Seq(Nat) /\ rejectedAt \in Seq(Nat)
    BY DEF Init
  <2>3. /\ acceptedRecords \in SUBSET Ballots /\ receipts \subseteq Receipts
        /\ isClosed \in BOOLEAN /\ recordExists \in BOOLEAN /\ reloaded \in BOOLEAN
        /\ clock \in Nat /\ record = NoRecord
    BY DEF Init
  <2> QED
    BY <2>1, <2>2, <2>3 DEF TypeOK
<1>2. TypeOK /\ [Next]_vars => TypeOK'
  <2> SUFFICES ASSUME TypeOK, [Next]_vars
               PROVE  TypeOK'
    OBVIOUS
  <2> USE DEF boxVars, diskVars, historyVars
  <2>0. Second \in Nat
    BY SecondType DEF TypeOK
  <2>1. CASE Open
    <3>1. acts' \in Seq(Acts)
      BY <2>1, ActTypes DEF Open
    <3>2. nextBoundary' \in Nat
      BY <2>0, <2>1, BoxConstantsOK DEF Open, TypeOK
    <3> QED
      BY <2>1, <3>1, <3>2 DEF Open, TypeOK
  <2>2. ASSUME NEW s \in Intervals, SetPublicationInterval(s)
        PROVE  TypeOK'
    <3>1. nextBoundary' \in Nat
      BY <2>0, <2>2, BoxConstantsOK DEF SetPublicationInterval
    <3> QED
      BY <2>2, <3>1 DEF SetPublicationInterval, TypeOK
  <2>3. ASSUME NEW b \in Ballots, Submit(b)
        PROVE  TypeOK'
    <3>1. snapshots' \in Seq(Snapshots) /\ nextBoundary' \in Nat
      BY <2>3, CaughtUpTypes DEF Submit, CatchUp
    <3>2. /\ accepted' \in Seq(Ballots) /\ rejected' \in Seq(Refusals)
          /\ acceptedRecords' \in SUBSET Ballots
          /\ receipts' \subseteq Receipts
          /\ acceptedAt' \in Seq(Nat) /\ rejectedAt' \in Seq(Nat)
      <4>1. CASE ~Opened \/ isClosed
        BY <2>3, <4>1 DEF Submit, Unrecorded, TypeOK
      <4>2. CASE ~(~Opened \/ isClosed) /\ Verdict(b) = "accepted"
        <5>1. Accept(b)
          BY <2>3, <4>2 DEF Submit
        <5> QED
          BY <5>1, AcceptTypes
      <4>3. CASE ~(~Opened \/ isClosed) /\ Verdict(b) # "accepted"
        <5>1. Refuse(b, Verdict(b))
          BY <2>3, <4>3 DEF Submit
        <5> QED
          BY <4>3, <5>1, RefuseTypes, VerdictIsReason
      <4> QED
        BY <4>1, <4>2, <4>3
    <3> QED
      BY <2>3, <3>1, <3>2 DEF Submit, TypeOK
  <2>4. CASE Read
    BY <2>4, CaughtUpTypes DEF Read, CatchUp, TypeOK
  <2>5. CASE Close
    <3>1. acts' \in Seq(Acts)
      BY <2>5, ActTypes DEF Close
    <3>2. snapshots' \in Seq(Snapshots) /\ nextBoundary' \in Nat
      BY <2>0, <2>5, CaughtUpTypes, SnapshotType DEF Close
    <3>3. recordExists' \in BOOLEAN /\ (record' = NoRecord \/ record' \in Records)
      <4>1. StoredState \in Records
        BY <3>1, <3>2, StoredStateType
      <4> QED
        BY <2>5, <4>1 DEF Close, Archive, TypeOK
    <3> QED
      BY <2>5, <3>1, <3>2, <3>3 DEF Close, TypeOK
  <2>6. CASE RecordAltered
    <3>1. record \in Records
      BY <2>6 DEF RecordAltered, TypeOK
    <3>2. record.accepted \in Seq(Ballots) /\ record.rejected \in Seq(Refusals)
      BY <3>1 DEF Records
    <3>3. record' \in Records
      <4>1. ASSUME NEW kept \in Altered(record.accepted),
                   record' = [record EXCEPT !.accepted = kept]
            PROVE  record' \in Records
        <5>1. kept \in Seq(Ballots)
          BY <3>2, AlteredType
        <5> QED
          BY <3>1, <4>1, <5>1 DEF Records
      <4>2. ASSUME NEW kept \in Altered(record.rejected),
                   record' = [record EXCEPT !.rejected = kept]
            PROVE  record' \in Records
        <5>1. kept \in Seq(Refusals)
          BY <3>2, AlteredType
        <5> QED
          BY <3>1, <4>2, <5>1 DEF Records
      <4> QED
        BY <2>6, <4>1, <4>2 DEF RecordAltered
    <3> QED
      BY <2>6, <3>3 DEF RecordAltered, TypeOK
  <2>7. CASE Reload
    <3>1. record \in Records
      BY <2>7 DEF Reload, Reproducible, TypeOK
    <3>2. /\ record.accepted \in Seq(Ballots) /\ record.rejected \in Seq(Refusals)
          /\ record.acts \in Seq(Acts) /\ record.snapshots \in Seq(Snapshots)
      BY <3>1 DEF Records
    <3>3. acceptedRecords' \in SUBSET Ballots
      BY <2>7, <3>2 DEF Reload
    <3>4. nextBoundary' \in Nat
      BY <2>0, <2>7, BoxConstantsOK DEF Reload, TypeOK
    <3> QED
      BY <2>7, <3>2, <3>3, <3>4 DEF Reload, TypeOK
  <2>8. CASE Tick
    BY <2>8 DEF Tick, TypeOK
  <2>9. CASE UNCHANGED vars
    BY <2>9 DEF vars, TypeOK
  <2> QED
    BY <2>1, <2>2, <2>3, <2>4, <2>5, <2>6, <2>7, <2>8, <2>9 DEF Next
<1> QED
  BY <1>1, <1>2, PTL DEF Spec

(***************************************************************************)
(* The inductive invariant.                                                *)
(***************************************************************************)

\* Hashes of earlier entries are not touched by later ones.
LEMMA EarlierHashes ==
    ASSUME NEW S, NEW ledger \in Seq(S), NEW e \in S,
           NEW i \in Nat, i <= Len(ledger)
    PROVE  EntryHash(Append(ledger, e), i) = EntryHash(ledger, i)
BY DEF EntryHash

\* The receipts handed out so far go on holding when an entry is added.
LEMMA ReceiptsAfterAccept ==
    ASSUME TypeOK, ReceiptsReproduced, NEW b \in Ballots, Accept(b)
    PROVE  ReceiptsReproduced'
<1>1. accepted \in Seq(Ballots) /\ accepted' = Append(accepted, b) /\ rejected' = rejected
  BY DEF Accept, TypeOK
<1>2. Len(accepted) \in Nat /\ Len(accepted') = Len(accepted) + 1
  BY <1>1
<1>3. ASSUME NEW r \in receipts, r.ledger = "accepted"
      PROVE  r.index <= Len(accepted') /\ EntryHash(accepted', r.index) = r.hash
  <2>1. r.index \in Nat
    BY DEF TypeOK, Receipts
  <2>2. r.index <= Len(accepted) /\ EntryHash(accepted, r.index) = r.hash
    BY <1>3 DEF ReceiptsReproduced
  <2> QED
    BY <1>1, <1>2, <2>1, <2>2, EarlierHashes
<1>4. ASSUME NEW r \in receipts, r.ledger # "accepted"
      PROVE  r.index <= Len(rejected') /\ EntryHash(rejected', r.index) = r.hash
  BY <1>1, <1>4 DEF ReceiptsReproduced
<1> DEFINE given == Receipt("accepted", accepted')
<1>6. /\ given.ledger = "accepted"
      /\ given.index <= Len(accepted') /\ EntryHash(accepted', given.index) = given.hash
  BY <1>2 DEF Receipt, HeadHash
<1>7. receipts' = receipts \union {given}
  BY DEF Accept
<1> HIDE DEF given
<1> QED
  BY <1>3, <1>4, <1>6, <1>7 DEF ReceiptsReproduced

\* And when a refusal is added.
LEMMA ReceiptsAfterRefuse ==
    ASSUME TypeOK, ReceiptsReproduced, NEW b \in Ballots, NEW reason \in Reasons,
           Refuse(b, reason)
    PROVE  ReceiptsReproduced'
<1>1. [ballot |-> b, reason |-> reason] \in Refusals
  BY DEF Refusals
<1>2. /\ rejected \in Seq(Refusals) /\ accepted' = accepted
      /\ rejected' = Append(rejected, [ballot |-> b, reason |-> reason])
  BY DEF Refuse, TypeOK
<1>3. Len(rejected) \in Nat /\ Len(rejected') = Len(rejected) + 1
  BY <1>1, <1>2
<1>4. ASSUME NEW r \in receipts, r.ledger # "accepted"
      PROVE  r.index <= Len(rejected') /\ EntryHash(rejected', r.index) = r.hash
  <2>1. r.index \in Nat
    BY DEF TypeOK, Receipts
  <2>2. r.index <= Len(rejected) /\ EntryHash(rejected, r.index) = r.hash
    BY <1>4 DEF ReceiptsReproduced
  <2> QED
    BY <1>1, <1>2, <1>3, <2>1, <2>2, EarlierHashes
<1>5. ASSUME NEW r \in receipts, r.ledger = "accepted"
      PROVE  r.index <= Len(accepted') /\ EntryHash(accepted', r.index) = r.hash
  BY <1>2, <1>5 DEF ReceiptsReproduced
<1> DEFINE given == Receipt("rejected", rejected')
<1>6. /\ given.ledger = "rejected"
      /\ given.index <= Len(rejected') /\ EntryHash(rejected', given.index) = given.hash
  BY <1>3 DEF Receipt, HeadHash
<1>7. receipts' = receipts \union {given}
  BY DEF Refuse
<1> HIDE DEF given
<1> QED
  BY <1>4, <1>5, <1>6, <1>7 DEF ReceiptsReproduced

\* What is recorded after an acceptance.
LEMMA RecordedAfterAppend ==
    ASSUME NEW ledger \in Seq(Ballots), NEW b \in Ballots
    PROVE  {Append(ledger, b)[i] : i \in DOMAIN Append(ledger, b)}
             = {ledger[i] : i \in DOMAIN ledger} \union {b}
<1> DEFINE longer == Append(ledger, b)
           n == Len(ledger)
<1>1. n \in Nat /\ DOMAIN ledger = 1..n /\ DOMAIN longer = 1..(n + 1)
  OBVIOUS
<1>2. (\A i \in 1..n : longer[i] = ledger[i]) /\ longer[n + 1] = b
  OBVIOUS
<1>3. ASSUME NEW i \in 1..(n + 1)
      PROVE  longer[i] \in {ledger[j] : j \in DOMAIN ledger} \union {b}
  <2>1. CASE i \in 1..n
    BY <1>1, <1>2, <2>1
  <2>2. CASE i = n + 1
    BY <1>2, <2>2
  <2> QED
    BY <1>1, <2>1, <2>2
<1>4. ASSUME NEW i \in 1..n
      PROVE  ledger[i] \in {longer[j] : j \in DOMAIN longer}
  <2>1. i \in 1..(n + 1)
    BY <1>1
  <2> QED
    BY <1>1, <1>2, <2>1
<1>5. b \in {longer[j] : j \in DOMAIN longer}
  <2>1. n + 1 \in 1..(n + 1)
    BY <1>1
  <2> QED
    BY <1>1, <1>2, <2>1
<1> HIDE DEF longer, n
<1> QED
  BY <1>1, <1>3, <1>4, <1>5 DEF longer

\* A ledger that has the head another had is that ledger.
LEMMA HeadDetermines ==
    ASSUME NEW S, NEW one \in Seq(S), NEW other \in Seq(S), HeadHash(one) = HeadHash(other)
    PROVE  one = other
BY SubSeqFull DEF HeadHash, EntryHash

\* A box that reloads finds the registry it had.
LEMMA ReloadFindsTheRegistry ==
    ASSUME TypeOK, BoxInv, Reload
    PROVE  accepted' = accepted /\ rejected' = rejected
<1>1. record # NoRecord /\ record \in Records
  BY DEF Reload, Reproducible, TypeOK
<1>2. /\ record.accepted \in Seq(Ballots) /\ record.rejected \in Seq(Refusals)
      /\ accepted \in Seq(Ballots) /\ rejected \in Seq(Refusals)
  BY <1>1 DEF Records, TypeOK
<1>3. record.heads = [accepted |-> HeadHash(record.accepted),
                      rejected |-> HeadHash(record.rejected)]
  BY DEF Reload, Reproducible
<1>4. record.heads = [accepted |-> HeadHash(accepted), rejected |-> HeadHash(rejected)]
  BY <1>1 DEF BoxInv
<1>5. /\ HeadHash(record.accepted) = HeadHash(accepted)
      /\ HeadHash(record.rejected) = HeadHash(rejected)
  BY <1>3, <1>4
<1>6. record.accepted = accepted /\ record.rejected = rejected
  BY <1>2, <1>5, HeadDetermines
<1> QED
  BY <1>6 DEF Reload

\* A step that touches neither registry, nor digests, nor receipts, nor the
\* record and the closed flag, keeps the invariant.
LEMMA UntouchedKeeps ==
    ASSUME BoxInv, UNCHANGED <<accepted, rejected, acceptedRecords, receipts, record>>,
           isClosed => isClosed'
    PROVE  BoxInv'
BY DEF BoxInv, Recorded, ReceiptsReproduced, EntryHash, HeadHash

\* The inductive invariant of the box holds in every reachable state: the
\* digests are those of the registry, the registry holds genuine ballots only,
\* and the record's heads are the registry's.
THEOREM BoxInvariant == Spec => []BoxInv
<1>1. Init => BoxInv
  BY DEF Init, BoxInv, Recorded, ReceiptsReproduced
<1>2. TypeOK /\ BoxInv /\ [Next]_vars => BoxInv'
  <2> SUFFICES ASSUME TypeOK, BoxInv, [Next]_vars
               PROVE  BoxInv'
    OBVIOUS
  <2> USE DEF boxVars, diskVars, historyVars
  <2>1. CASE Open
    BY <2>1, UntouchedKeeps DEF Open
  <2>2. ASSUME NEW s \in Intervals, SetPublicationInterval(s)
        PROVE  BoxInv'
    BY <2>2, UntouchedKeeps DEF SetPublicationInterval
  <2>3. ASSUME NEW b \in Ballots, Submit(b)
        PROVE  BoxInv'
    <3>1. CASE ~Opened \/ isClosed
      BY <2>3, <3>1, UntouchedKeeps DEF Submit, Unrecorded
    <3>2. CASE ~(~Opened \/ isClosed)
      <4>1. ~isClosed /\ record = NoRecord /\ record' = NoRecord
        BY <2>3, <3>2 DEF Submit, BoxInv
      <4>2. CASE Verdict(b) = "accepted"
        <5>1. Accept(b)
          BY <2>3, <3>2, <4>2 DEF Submit
        <5>2. b \in Certified \intersect Authentic
          BY <4>2 DEF Verdict
        <5>3. Recorded' = Recorded \union {b}
          <6>1. accepted \in Seq(Ballots) /\ accepted' = Append(accepted, b)
            BY <5>1 DEF Accept, TypeOK
          <6>2. Recorded' = {Append(accepted, b)[i] : i \in DOMAIN Append(accepted, b)}
            BY <6>1 DEF Recorded
          <6>3. {Append(accepted, b)[i] : i \in DOMAIN Append(accepted, b)} = Recorded \union {b}
            BY <6>1, RecordedAfterAppend DEF Recorded
          <6> QED
            BY <6>2, <6>3
        <5>4. ReceiptsReproduced'
          BY <5>1, ReceiptsAfterAccept DEF BoxInv
        <5>5. acceptedRecords' = acceptedRecords \union {b}
          BY <5>1 DEF Accept
        <5> QED
          BY <4>1, <5>2, <5>3, <5>4, <5>5 DEF BoxInv
      <4>3. CASE Verdict(b) # "accepted"
        <5>1. Refuse(b, Verdict(b))
          BY <2>3, <3>2, <4>3 DEF Submit
        <5>2. ReceiptsReproduced'
          BY <4>3, <5>1, ReceiptsAfterRefuse, VerdictIsReason DEF BoxInv
        <5>3. Recorded' = Recorded /\ acceptedRecords' = acceptedRecords
          BY <5>1 DEF Refuse, Recorded
        <5> QED
          BY <4>1, <5>2, <5>3 DEF BoxInv
      <4> QED
        BY <4>2, <4>3
    <3> QED
      BY <3>1, <3>2
  <2>4. CASE Read
    BY <2>4, UntouchedKeeps DEF Read
  <2>5. CASE Close
    <3>1. /\ accepted' = accepted /\ rejected' = rejected
          /\ acceptedRecords' = acceptedRecords /\ receipts' = receipts /\ isClosed'
      BY <2>5 DEF Close
    <3>2. ReceiptsReproduced' /\ Recorded' = Recorded
      BY <3>1 DEF BoxInv, ReceiptsReproduced, EntryHash, Recorded
    <3>3. record' = record \/ record' = StoredState
      BY <2>5 DEF Close, Archive
    <3>4. StoredState.heads = [accepted |-> HeadHash(accepted), rejected |-> HeadHash(rejected)]
      BY DEF StoredState
    <3>5. record' # NoRecord =>
            record'.heads = [accepted |-> HeadHash(accepted), rejected |-> HeadHash(rejected)]
      BY <3>3, <3>4 DEF BoxInv
    <3> QED
      BY <3>1, <3>2, <3>5 DEF BoxInv
  <2>6. CASE RecordAltered
    <3>1. record # NoRecord /\ record \in Records
      BY <2>6 DEF RecordAltered, TypeOK
    <3>2. record'.heads = record.heads
      BY <2>6, <3>1 DEF RecordAltered, Records
    <3>3. UNCHANGED <<accepted, rejected, acceptedRecords, receipts, isClosed>>
      BY <2>6 DEF RecordAltered
    <3> QED
      BY <3>1, <3>2, <3>3 DEF BoxInv, Recorded, ReceiptsReproduced, EntryHash, HeadHash
  <2>7. CASE Reload
    <3>1. /\ accepted' = accepted /\ rejected' = rejected
          /\ record' = record /\ receipts' = receipts /\ isClosed'
      BY <2>7, ReloadFindsTheRegistry DEF Reload
    <3>2. acceptedRecords' = Recorded'
      BY <2>7 DEF Reload, Recorded
    <3> QED
      BY <3>1, <3>2 DEF BoxInv, Recorded, ReceiptsReproduced, EntryHash, HeadHash
  <2>8. CASE Tick
    BY <2>8, UntouchedKeeps DEF Tick
  <2>9. CASE UNCHANGED vars
    BY <2>9, UntouchedKeeps DEF vars
  <2> QED
    BY <2>1, <2>2, <2>3, <2>4, <2>5, <2>6, <2>7, <2>8, <2>9 DEF Next
<1> QED
  BY <1>1, <1>2, BoxTypeCorrect, PTL DEF Spec

\* Every signed receipt is reproduced by the registry for good, also by a box
\* rebuilt from a record that somebody may have altered on disk.
THEOREM ReceiptsHold == Spec => []ReceiptsReproduced
<1>1. BoxInv => ReceiptsReproduced
  BY DEF BoxInv
<1> QED
  BY <1>1, BoxInvariant, PTL

(***************************************************************************)
(* Supersession.                                                           *)
(***************************************************************************)

\* The effective ballot of a key is the last one filed under it.
LEMMA EffectiveIsLast ==
    ASSUME NEW ledger \in Seq(Ballots), NEW k \in DOMAIN EffectiveBallots(ledger)
    PROVE  \E i \in DOMAIN ledger :
              /\ ledger[i].key = k
              /\ \A j \in DOMAIN ledger : ledger[j].key = k => j <= i
              /\ EffectiveBallots(ledger)[k] = ledger[i]
<1> DEFINE n == Len(ledger)
           filed == {i \in 1..n : ledger[i].key = k}
<1>1. n \in Nat /\ DOMAIN ledger = 1..n
  OBVIOUS
<1>2. k \in {ledger[i].key : i \in DOMAIN ledger}
  BY DEF EffectiveBallots
<1>3. filed # {} /\ filed \in SUBSET (1..n)
  BY <1>1, <1>2
<1>4. \E i \in filed : \A j \in filed : j <= i
  <2> HIDE DEF filed, n
  <2> QED
    BY <1>1, <1>3, LastIndex
<1> DEFINE last == CHOOSE i \in filed : \A j \in filed : j <= i
<1>5. last \in filed /\ \A j \in filed : j <= last
  <2> HIDE DEF filed
  <2> QED
    BY <1>4
<1>6. EffectiveBallots(ledger)[k] = ledger[last]
  BY <1>1, <1>2 DEF EffectiveBallots
<1> HIDE DEF last
<1> QED
  BY <1>1, <1>5, <1>6

\* Adding a ballot makes it the effective one of its key, and changes no other.
LEMMA EffectiveAfterAppend ==
    ASSUME NEW ledger \in Seq(Ballots), NEW b \in Ballots
    PROVE  LET before == EffectiveBallots(ledger)
               after  == EffectiveBallots(Append(ledger, b))
           IN  /\ DOMAIN before \subseteq DOMAIN after
               /\ \A k \in DOMAIN after :
                     IF k = b.key THEN after[k] = b
                     ELSE k \in DOMAIN before /\ after[k] = before[k]
<1> DEFINE longer == Append(ledger, b)
           n == Len(ledger)
           before == EffectiveBallots(ledger)
           after == EffectiveBallots(longer)
<1>1. n \in Nat /\ DOMAIN ledger = 1..n /\ DOMAIN longer = 1..(n + 1)
  OBVIOUS
<1>2. (\A i \in 1..n : longer[i] = ledger[i]) /\ longer[n + 1] = b
  OBVIOUS
<1>3. longer \in Seq(Ballots)
  OBVIOUS
<1>4. /\ DOMAIN before = {ledger[i].key : i \in DOMAIN ledger}
      /\ DOMAIN after = {longer[i].key : i \in DOMAIN longer}
  BY DEF EffectiveBallots
<1>5. DOMAIN before \subseteq DOMAIN after
  <2> SUFFICES ASSUME NEW i \in DOMAIN ledger
               PROVE  ledger[i].key \in DOMAIN after
    BY <1>4
  <2>1. i \in DOMAIN longer /\ longer[i] = ledger[i]
    BY <1>1, <1>2
  <2> QED
    BY <1>4, <2>1
<1>6. ASSUME NEW k \in DOMAIN after
      PROVE  IF k = b.key THEN after[k] = b
             ELSE k \in DOMAIN before /\ after[k] = before[k]
  <2>1. PICK i \in DOMAIN longer :
           /\ longer[i].key = k
           /\ \A j \in DOMAIN longer : longer[j].key = k => j <= i
           /\ after[k] = longer[i]
    <3> HIDE DEF longer
    <3> QED
      BY <1>3, EffectiveIsLast
  <2> HIDE DEF longer, n, before, after
  <2>2. CASE k = b.key
    <3>1. n + 1 \in DOMAIN longer /\ longer[n + 1].key = k
      BY <1>1, <1>2, <2>2
    <3>2. i = n + 1
      BY <1>1, <2>1, <3>1
    <3> QED
      BY <1>2, <2>1, <2>2, <3>2
  <2>3. CASE k # b.key
    <3>1. i \in 1..n
      BY <1>1, <1>2, <2>1, <2>3
    <3>2. ledger[i].key = k
      BY <1>2, <2>1, <3>1
    <3>3. k \in DOMAIN before
      BY <1>1, <1>4, <3>1, <3>2
    <3>4. PICK m \in DOMAIN ledger :
             /\ ledger[m].key = k
             /\ \A j \in DOMAIN ledger : ledger[j].key = k => j <= m
             /\ before[k] = ledger[m]
      BY <3>3, EffectiveIsLast DEF before
    <3>5. i <= m
      BY <1>1, <3>1, <3>2, <3>4
    <3>6. m <= i
      BY <1>1, <1>2, <2>1, <3>4
    <3>7. i = m
      BY <1>1, <3>1, <3>4, <3>5, <3>6
    <3> QED
      BY <1>2, <2>1, <2>3, <3>1, <3>3, <3>4, <3>7
  <2> QED
    BY <2>2, <2>3
<1> QED
  BY <1>5, <1>6

\* What counts for a key changes only when a ballot that verifies under it is
\* accepted for the first time: by a vote or a re-vote of its holder, never by
\* a forgery, a refusal, a replay, the close or a reload.
THEOREM OnlyReVotesSupersede == Spec => SupersededOnlyByReVote
<1> DEFINE before == EffectiveBallots(accepted)
           after == EffectiveBallots(accepted')
           Kept == /\ DOMAIN before \subseteq DOMAIN after
                   /\ \A k \in DOMAIN after :
                         \/ k \in DOMAIN before /\ after[k] = before[k]
                         \/ after[k] \in (Certified \intersect Authentic) \ Recorded
<1>1. TypeOK /\ BoxInv /\ [Next]_vars => [Kept]_vars
  <2> SUFFICES ASSUME TypeOK, BoxInv, Next
               PROVE  Kept
    BY DEF vars
  <2>1. ASSUME accepted' = accepted
        PROVE  Kept
    BY <2>1
  <2>2. ASSUME NEW b \in Ballots, Submit(b), accepted' # accepted
        PROVE  Kept
    <3>1. Opened /\ ~isClosed /\ Verdict(b) = "accepted" /\ Accept(b)
      BY <2>2 DEF Submit, Unrecorded, Refuse
    <3>2. accepted \in Seq(Ballots) /\ accepted' = Append(accepted, b)
      BY <3>1 DEF Accept, TypeOK
    <3>3. b \in (Certified \intersect Authentic) \ Recorded
      BY <3>1 DEF Verdict, BoxInv
    <3>4. /\ DOMAIN before \subseteq DOMAIN after
          /\ \A k \in DOMAIN after :
                IF k = b.key THEN after[k] = b
                ELSE k \in DOMAIN before /\ after[k] = before[k]
      BY <3>2, EffectiveAfterAppend
    <3> HIDE DEF before, after
    <3> QED
      BY <3>3, <3>4
  <2>3. ASSUME Reload
        PROVE  accepted' = accepted
    BY <2>3, ReloadFindsTheRegistry
  <2>4. \/ accepted' = accepted
        \/ Reload
        \/ \E b \in Ballots : Submit(b) /\ accepted' # accepted
    BY DEF Next, Open, SetPublicationInterval, Read, Close, RecordAltered, Tick, boxVars
  <2> HIDE DEF Kept
  <2> QED
    BY <2>1, <2>2, <2>3, <2>4
<1>2. SupersededOnlyByReVote <=> [][Kept]_vars
  BY DEF SupersededOnlyByReVote
<1> HIDE DEF Kept
<1> QED
  BY <1>1, <1>2, BoxTypeCorrect, BoxInvariant, PTL DEF Spec

(***************************************************************************)
(* Refinement: every step of the box is a step of BulletinBoard, or        *)
(* changes nothing the public sees.                                        *)
(***************************************************************************)

\* The lengths a series of figures was published about.
Lengths(figures) == {figures[i].after : i \in DOMAIN figures}

\* The lengths in a series that has been added to.
LEMMA LengthsOfBoth ==
    ASSUME NEW one \in Seq(Snapshots), NEW other \in Seq(Snapshots)
    PROVE  Lengths(one \o other) = Lengths(one) \union Lengths(other)
<1> DEFINE both == one \o other
<1>1. /\ DOMAIN both = 1..(Len(one) + Len(other))
      /\ DOMAIN one = 1..Len(one) /\ DOMAIN other = 1..Len(other)
      /\ Len(one) \in Nat /\ Len(other) \in Nat
  OBVIOUS
<1>2. \A i \in DOMAIN one : i \in DOMAIN both /\ both[i] = one[i]
  BY <1>1
<1>3. \A i \in DOMAIN other : Len(one) + i \in DOMAIN both /\ both[Len(one) + i] = other[i]
  BY <1>1
<1>4. \A i \in DOMAIN both : i \in DOMAIN one \/ \E j \in DOMAIN other : i = Len(one) + j
  <2> SUFFICES ASSUME NEW i \in DOMAIN both, i \notin DOMAIN one
               PROVE  \E j \in DOMAIN other : i = Len(one) + j
    OBVIOUS
  <2>1. i - Len(one) \in DOMAIN other /\ i = Len(one) + (i - Len(one))
    BY <1>1
  <2> QED
    BY <2>1
<1> HIDE DEF both
<1>5. Lengths(both) \subseteq Lengths(one) \union Lengths(other)
  BY <1>2, <1>3, <1>4 DEF Lengths
<1>6. Lengths(one) \subseteq Lengths(both) /\ Lengths(other) \subseteq Lengths(both)
  BY <1>2, <1>3 DEF Lengths
<1> QED
  BY <1>5, <1>6 DEF both

\* Catching up reports on the registry as it stands, and never after the close.
LEMMA CaughtUpReports ==
    ASSUME TypeOK
    PROVE  /\ Lengths(CaughtUp) \in {Published, Published \union {Len(accepted)}}
           /\ isClosed => Lengths(CaughtUp) = Published
<1>1. Lengths(CaughtUp) = Published \union Lengths(DueFigures)
  BY DueFiguresType, LengthsOfBoth DEF CaughtUp, Published, Lengths, TypeOK
<1>2. Lengths(DueFigures) \subseteq {Len(accepted)}
  BY DEF Lengths, DueFigures, Snapshot
<1>3. isClosed => Lengths(DueFigures) = {}
  <2> SUFFICES ASSUME isClosed
               PROVE  Lengths(DueFigures) = {}
    OBVIOUS
  <2>1. Due = {}
    BY DEF Due
  <2>2. Cardinality(Due) = 0
    BY <2>1, FS_EmptySet
  <2>3. DOMAIN DueFigures = {}
    BY <2>2 DEF DueFigures
  <2> QED
    BY <2>3 DEF Lengths
<1> QED
  BY <1>1, <1>2, <1>3

\* A performance of the close reports on the whole registry.
LEMMA CloseReports ==
    ASSUME TypeOK, Close
    PROVE  Published' = Published \union {Len(accepted)}
<1>0. Second \in Nat
  BY SecondType DEF TypeOK
<1>1. /\ Snapshot(Second) \in Snapshots
      /\ CaughtUp \in Seq(Snapshots)
      /\ <<Snapshot(Second)>> \in Seq(Snapshots)
  <2>1. Snapshot(Second) \in Snapshots
    BY <1>0, SnapshotType
  <2>2. CaughtUp \in Seq(Snapshots)
    BY CaughtUpTypes
  <2> QED
    BY <2>1, <2>2
<1>2. snapshots' = CaughtUp \o <<Snapshot(Second)>>
  BY <1>1 DEF Close
<1>3. Lengths(<<Snapshot(Second)>>) = {Len(accepted)}
  BY DEF Lengths, Snapshot
<1>4. Lengths(snapshots') = Lengths(CaughtUp) \union {Len(accepted)}
  BY <1>1, <1>2, <1>3, LengthsOfBoth
<1> QED
  BY <1>4, CaughtUpReports DEF Published, Lengths

\* What the reload publishes is what had been published.
LEMMA ReloadReports ==
    ASSUME BoardInv, Reload
    PROVE  Published' = Published
BY DEF BoardInv, Reload, Reproducible, Published

\* The extra conjuncts the refinement needs hold in every reachable state.
LEMMA BoardInvInductive ==
    ASSUME TypeOK, BoxInv, BoardInv, [Next]_vars
    PROVE  BoardInv'
<1> USE DEF boxVars, diskVars, historyVars
<1>1. ASSUME UNCHANGED <<accepted, isClosed, record>>,
             Published' \in {Published, Published \union {Len(accepted)}},
             isClosed => Published' = Published
      PROVE  BoardInv'
  <2>1. record # NoRecord => isClosed
    BY DEF BoxInv
  <2> QED
    BY <1>1, <2>1 DEF BoardInv
<1>2. ASSUME UNCHANGED <<accepted, isClosed, record, snapshots>>
      PROVE  BoardInv'
  BY <1>1, <1>2 DEF Published
<1>3. CASE Open
  BY <1>2, <1>3 DEF Open
<1>4. ASSUME NEW s \in Intervals, SetPublicationInterval(s)
      PROVE  BoardInv'
  BY <1>2, <1>4 DEF SetPublicationInterval
<1>5. ASSUME NEW b \in Ballots, Submit(b)
      PROVE  BoardInv'
  <2>1. Published' = Lengths(CaughtUp) /\ UNCHANGED <<isClosed, record>>
    BY <1>5 DEF Submit, CatchUp, Published, Lengths
  <2>2. CASE isClosed
    BY <1>1, <1>5, <2>1, <2>2, CaughtUpReports DEF Submit, Unrecorded
  <2>3. CASE ~isClosed
    BY <2>1, <2>3 DEF BoardInv, BoxInv
  <2> QED
    BY <2>2, <2>3
<1>6. CASE Read
  <2>1. Published' = Lengths(CaughtUp) /\ UNCHANGED <<accepted, isClosed, record>>
    BY <1>6 DEF Read, CatchUp, Published, Lengths
  <2> QED
    BY <1>1, <2>1, CaughtUpReports
<1>7. CASE Close
  <2>1. Published' = Published \union {Len(accepted)} /\ accepted' = accepted
    BY <1>7, CloseReports DEF Close
  <2>2. record' = record \/ record' = StoredState
    BY <1>7 DEF Close, Archive
  <2>3. CASE record' = StoredState
    <3>1. record'.snapshots = snapshots'
      BY <2>3 DEF StoredState
    <3> QED
      BY <2>1, <3>1 DEF BoardInv, Published
  <2>4. CASE record' = record
    <3>1. record # NoRecord => Published' = Published
      BY <2>1 DEF BoxInv, BoardInv
    <3> QED
      BY <2>1, <2>4, <3>1 DEF BoardInv
  <2> QED
    BY <2>2, <2>3, <2>4
<1>8. CASE RecordAltered
  <2>1. record # NoRecord /\ record \in Records
    BY <1>8 DEF RecordAltered, TypeOK
  <2>2. record'.snapshots = record.snapshots
    BY <1>8, <2>1 DEF RecordAltered, Records
  <2>3. UNCHANGED <<accepted, isClosed, snapshots>>
    BY <1>8 DEF RecordAltered
  <2>4. Published' = Published
    BY <2>3 DEF Published
  <2>5. {record.snapshots[i].after : i \in DOMAIN record.snapshots} = Published
    BY <2>1 DEF BoardInv
  <2>6. {record'.snapshots[i].after : i \in DOMAIN record'.snapshots} = Published
    BY <2>2, <2>5
  <2> QED
    BY <2>3, <2>4, <2>6 DEF BoardInv
<1>9. CASE Reload
  <2>1. accepted' = accepted /\ record' = record /\ record # NoRecord /\ Published' = Published
    BY <1>9, ReloadFindsTheRegistry, ReloadReports DEF Reload, Reproducible
  <2>2. isClosed
    BY <2>1 DEF BoxInv
  <2> QED
    BY <2>1, <2>2 DEF BoardInv
<1>10. CASE Tick
  BY <1>2, <1>10 DEF Tick
<1>11. CASE UNCHANGED vars
  BY <1>2, <1>11 DEF vars
<1> QED
  BY <1>3, <1>4, <1>5, <1>6, <1>7, <1>8, <1>9, <1>10, <1>11 DEF Next

\* A reading, or a submission that adds nothing to the registry, reports or
\* changes nothing; after the close it cannot even report.
LEMMA ReportRefines ==
    ASSUME TypeOK, CatchUp, UNCHANGED <<accepted, acts, isClosed>>
    PROVE  Board!Publish \/ UNCHANGED Board!boardVars
<1>1. Published' = Lengths(CaughtUp)
  BY DEF CatchUp, Published, Lengths
<1>2. Phase' = Phase
  BY DEF Phase, Opened
<1>3. CASE isClosed
  BY <1>1, <1>2, <1>3, CaughtUpReports DEF Board!boardVars
<1>4. CASE ~isClosed
  <2>1. Phase # "closed"
    BY <1>4 DEF Phase
  <2> QED
    BY <1>1, <1>2, <2>1, CaughtUpReports DEF Board!Publish, Board!Report
<1> QED
  BY <1>3, <1>4

\* A submission posts an entry, or is a reading.
LEMMA SubmitRefines ==
    ASSUME TypeOK, NEW b \in Ballots, Submit(b)
    PROVE  Board!Post \/ Board!Publish \/ UNCHANGED Board!boardVars
<1>1. CatchUp /\ UNCHANGED <<acts, isClosed>>
  BY DEF Submit
<1>2. CASE accepted' = accepted
  BY <1>1, <1>2, ReportRefines
<1>3. CASE accepted' # accepted
  <2>1. Opened /\ ~isClosed /\ Accept(b)
    BY <1>3 DEF Submit, Unrecorded, Refuse
  <2>2. accepted' = Append(accepted, b)
    BY <2>1 DEF Accept
  <2>3. Phase = "open" /\ Phase' = Phase
    BY <1>1, <2>1 DEF Phase, Opened
  <2>4. Published' \in {Published, Published \union {Len(accepted)}}
    BY <1>1, CaughtUpReports DEF CatchUp, Published, Lengths
  <2> QED
    BY <2>2, <2>3, <2>4 DEF Board!Post, Board!Report
<1> QED
  BY <1>2, <1>3

\* The close closes the board; performed again, it changes nothing there.
LEMMA CloseRefines ==
    ASSUME TypeOK, BoardInv, Close
    PROVE  Board!Close \/ UNCHANGED Board!boardVars
<1>1. /\ Published' = Published \union {Len(accepted)}
      /\ accepted' = accepted /\ isClosed' = TRUE
  BY CloseReports DEF Close
<1>2. Phase' = "closed"
  BY <1>1 DEF Phase
<1>3. CASE isClosed
  BY <1>1, <1>2, <1>3 DEF BoardInv, Board!boardVars, Phase
<1>4. CASE ~isClosed
  BY <1>1, <1>2, <1>4 DEF Board!Close, Phase
<1> QED
  BY <1>3, <1>4

\* Opening the poll opens the board, unless it was closed without being opened.
LEMMA OpenRefines ==
    ASSUME TypeOK, Open
    PROVE  Board!Open \/ UNCHANGED Board!boardVars
<1>1. /\ ~Opened /\ acts' = Append(acts, Act("opened"))
      /\ UNCHANGED <<accepted, isClosed, snapshots>>
  BY DEF Open
<1>2. Opened'
  <2>1. acts \in Seq(Acts) /\ Act("opened").phase = "opened"
    BY DEF TypeOK, Act
  <2>2. /\ Len(acts) + 1 \in DOMAIN Append(acts, Act("opened"))
        /\ Append(acts, Act("opened"))[Len(acts) + 1] = Act("opened")
    BY <2>1
  <2>3. \E i \in DOMAIN acts' : acts'[i].phase = "opened"
    BY <1>1, <2>1, <2>2
  <2> QED
    BY <2>3 DEF Opened
<1>3. Published' = Published
  BY <1>1 DEF Published
<1> QED
  BY <1>1, <1>2, <1>3 DEF Phase, Board!Open, Board!boardVars

\* Each action of the box, as a step of the board.
LEMMA BoxStepRefines ==
    ASSUME TypeOK, BoxInv, BoardInv, [Next]_vars
    PROVE  [Board!Next]_(Board!boardVars)
<1> USE DEF boxVars, diskVars, historyVars, Board!Next
<1>1. CASE Open
  BY <1>1, OpenRefines
<1>2. ASSUME UNCHANGED <<accepted, acts, isClosed, snapshots>>
      PROVE  UNCHANGED Board!boardVars
  BY <1>2 DEF Board!boardVars, Phase, Opened, Published
<1>3. ASSUME NEW s \in Intervals, SetPublicationInterval(s)
      PROVE  [Board!Next]_(Board!boardVars)
  BY <1>2, <1>3 DEF SetPublicationInterval
<1>4. ASSUME NEW b \in Ballots, Submit(b)
      PROVE  [Board!Next]_(Board!boardVars)
  BY <1>4, SubmitRefines
<1>5. CASE Read
  BY <1>5, ReportRefines DEF Read
<1>6. CASE Close
  BY <1>6, CloseRefines
<1>7. CASE RecordAltered
  BY <1>2, <1>7 DEF RecordAltered
<1>8. CASE Reload
  <2>1. accepted' = accepted /\ Published' = Published /\ isClosed'
    BY <1>8, ReloadFindsTheRegistry, ReloadReports DEF Reload
  <2>2. isClosed
    BY <1>8 DEF BoxInv, Reload, Reproducible
  <2>3. Phase' = Phase
    BY <2>1, <2>2 DEF Phase
  <2> QED
    BY <2>1, <2>3 DEF Board!boardVars
<1>9. CASE Tick
  BY <1>2, <1>9 DEF Tick
<1>10. CASE UNCHANGED vars
  BY <1>2, <1>10 DEF vars
<1> QED
  BY <1>1, <1>3, <1>4, <1>5, <1>6, <1>7, <1>8, <1>9, <1>10 DEF Next

\* The box keeps the public's bulletin board: entries are only added while the
\* poll is open, figures are of the whole registry, and the close, whatever is
\* done or reloaded after it, is the end.
THEOREM ImplementsBoard == Spec => KeepsBoard
<1>1. Init => Board!Init
  BY DEF Init, Board!Init, Phase, Opened, Published
<1>2. Init => BoardInv
  BY DEF Init, BoardInv
<1>3. TypeOK /\ BoxInv /\ BoardInv /\ [Next]_vars => BoardInv'
  BY BoardInvInductive
<1>4. TypeOK /\ BoxInv /\ BoardInv /\ [Next]_vars => [Board!Next]_(Board!boardVars)
  BY BoxStepRefines
<1> QED
  BY <1>1, <1>2, <1>3, <1>4, BoxTypeCorrect, BoxInvariant, PTL
     DEF Spec, KeepsBoard, Board!Spec

(***************************************************************************)
(* The poll's window.  Stated of a log of acts and not of the box's own, so *)
(* that it can be said of the log in the record, which a reload brings back. *)
(***************************************************************************)

ActsIn(log, phase) == {i \in DOMAIN log : log[i].phase = phase}
FirstIn(log, phase) == First(ActsIn(log, phase))
Instant(log, phase) == log[FirstIn(log, phase)].at

Arrivals == ToSet(acceptedAt) \union ToSet(rejectedAt)

\* The log opens the poll before the arrivals and closes it after them, if it does.
Within(arrivals, log) ==
    \A at \in arrivals :
        /\ ActsIn(log, "opened") # {}
        /\ Instant(log, "opened") * TicksPerSecond <= at
        /\ ActsIn(log, "closed") # {} =>
              /\ at < (Instant(log, "closed") + 1) * TicksPerSecond
              /\ FirstIn(log, "opened") < FirstIn(log, "closed")

\* Nothing in a log is ahead of the clock.
Past(log, now) == \A i \in DOMAIN log : log[i].at * TicksPerSecond <= now

\* The flag says what the log says; nothing is ahead of the clock.
WindowInv ==
    /\ isClosed <=> ActsIn(acts, "closed") # {}
    /\ Past(acts, clock)
    /\ \A at \in Arrivals : at <= clock
    /\ Within(Arrivals, acts)
    /\ record # NoRecord =>
          /\ ActsIn(record.acts, "closed") # {}
          /\ Past(record.acts, clock)
          /\ Within(Arrivals, record.acts)

\* The figures of a log that are not those of a close, and what had arrived.
BoundaryCount(figures, log) == Len(figures) - Cardinality(ActsIn(log, "closed"))
ArrivedBefore(arrivals, at) ==
    Cardinality({j \in DOMAIN arrivals : arrivals[j] < at * TicksPerSecond})

\* The figures are those of the registry when they fell due.
Stood(figures, log, taken, takenAt, refused, refusedAt) ==
    /\ Cardinality(ActsIn(log, "closed")) <= Len(figures)
    /\ \A i \in DOMAIN figures :
          /\ figures[i].after <= Len(taken)
          /\ figures[i].figures = Count(SubSeq(taken, 1, figures[i].after))
    /\ \A i \in 1..BoundaryCount(figures, log) :
          /\ figures[i].after = ArrivedBefore(takenAt, figures[i].at)
          /\ figures[i].rejected = ArrivedBefore(refusedAt, figures[i].at)
    /\ \A i \in DOMAIN figures \ (1..BoundaryCount(figures, log)) :
          figures[i].after = Len(taken) /\ figures[i].rejected = Len(refused)

\* Whatever has arrived came before the next boundary: it was caught up with first.
FiguresInv ==
    /\ Len(acceptedAt) = Len(accepted) /\ Len(rejectedAt) = Len(rejected)
    /\ Stood(snapshots, acts, accepted, acceptedAt, rejected, rejectedAt)
    /\ Past(snapshots, clock)
    /\ ~isClosed /\ interval # 0 => \A at \in Arrivals : at < nextBoundary * TicksPerSecond
    /\ record # NoRecord =>
          /\ Stood(record.snapshots, record.acts, accepted, acceptedAt, rejected, rejectedAt)
          /\ Past(record.snapshots, clock)

\* The figures after the first `before` keep step with the opening act, and
\* the act that closed the poll found none missing.
InStep(figures, log, step, before) ==
    /\ before \in 0..BoundaryCount(figures, log)
    /\ \A i \in 1..before : figures[i].at <= Instant(log, "opened")
    /\ \A i \in (before + 1)..BoundaryCount(figures, log) :
          figures[i].at = Instant(log, "opened") + step * (i - before)
    /\ before < BoundaryCount(figures, log) => step # 0
    /\ ActsIn(log, "closed") # {} /\ step # 0
          /\ FirstIn(log, "opened") < FirstIn(log, "closed")
          => BoundaryCount(figures, log) - before
                = (Instant(log, "closed") - Instant(log, "opened")) \div step

\* While the poll is open, the boundary that comes next continues the series.
Continues(figures, log, step, before, next, now) ==
    LET n == BoundaryCount(figures, log) - before
    IN  /\ next = Instant(log, "opened") + step * (n + 1)
        /\ Instant(log, "opened") + step * n <= now

CadenceInv ==
    /\ Opened => \E before \in 0..Len(snapshots) :
          /\ InStep(snapshots, acts, interval, before)
          /\ ~isClosed => Continues(snapshots, acts, interval, before, nextBoundary, Second)
    /\ record # NoRecord /\ ActsIn(record.acts, "opened") # {} =>
          /\ Opened
          /\ \E before \in 0..Len(record.snapshots) :
                InStep(record.snapshots, record.acts, interval, before)

\* The instant of the clock is the whole second it is in.
LEMMA SecondBounds ==
    ASSUME clock \in Nat
    PROVE  /\ Second \in Nat
           /\ Second * TicksPerSecond <= clock
           /\ clock < (Second + 1) * TicksPerSecond
<1>1. TicksPerSecond \in Nat /\ TicksPerSecond > 0
  BY BoxConstantsOK
<1>2. Second = clock \div TicksPerSecond
  BY DEF Second
<1>3. \A c, d \in Nat : d > 0 => /\ c \div d \in Nat
                                 /\ (c \div d) * d <= c
                                 /\ c < (c \div d + 1) * d
  OBVIOUS
<1> QED
  BY <1>1, <1>2, <1>3

\* `First` of a set of indices is the least of them.
LEMMA FirstIsLeast ==
    ASSUME NEW S \in SUBSET Nat, S # {}
    PROVE  First(S) \in S /\ \A j \in S : First(S) <= j
BY LeastNatural DEF First

\* The places of the acts of one phase.
LEMMA ActsInType ==
    ASSUME NEW log \in Seq(Acts), NEW phase
    PROVE  /\ ActsIn(log, phase) \in SUBSET (1..Len(log))
           /\ IsFiniteSet(ActsIn(log, phase))
           /\ ActsIn(log, phase) # {} =>
                 /\ FirstIn(log, phase) \in 1..Len(log)
                 /\ Instant(log, phase) \in Nat
<1>1. Len(log) \in Nat /\ DOMAIN log = 1..Len(log) /\ \A i \in 1..Len(log) : log[i].at \in Nat
  <2>1. Len(log) \in Nat /\ DOMAIN log = 1..Len(log) /\ \A i \in 1..Len(log) : log[i] \in Acts
    OBVIOUS
  <2> QED
    BY <2>1 DEF Acts
<1>2. ActsIn(log, phase) \in SUBSET (1..Len(log))
  BY <1>1 DEF ActsIn
<1>3. IsFiniteSet(ActsIn(log, phase))
  <2>1. 1 \in Int /\ Len(log) \in Int
    BY <1>1
  <2> QED
    BY <1>2, <2>1, FS_Interval, FS_Subset
<1>4. ASSUME ActsIn(log, phase) # {}
      PROVE  FirstIn(log, phase) \in 1..Len(log)
  <2>1. ActsIn(log, phase) \in SUBSET Nat
    BY <1>1, <1>2
  <2> QED
    BY <1>2, <1>4, <2>1, FirstIsLeast DEF FirstIn
<1> QED
  BY <1>1, <1>2, <1>3, <1>4 DEF Instant

\* An act more.
LEMMA ActsInAppend ==
    ASSUME NEW log \in Seq(Acts), NEW e \in Acts, NEW phase
    PROVE  ActsIn(Append(log, e), phase)
             = IF e.phase = phase THEN ActsIn(log, phase) \union {Len(log) + 1}
               ELSE ActsIn(log, phase)
<1> DEFINE longer == Append(log, e)
           n == Len(log) + 1
<1>1. /\ Len(log) \in Nat
      /\ DOMAIN log = 1..Len(log)
      /\ DOMAIN longer = 1..n
      /\ \A i \in 1..Len(log) : longer[i] = log[i]
      /\ longer[n] = e
  OBVIOUS
<1>2. (\A i \in 1..n : i \in 1..Len(log) \/ i = n) /\ (\A i \in 1..Len(log) : i \in 1..n)
      /\ n \in 1..n
  BY <1>1
<1> HIDE DEF longer, n
<1>3. ActsIn(longer, phase) = IF e.phase = phase THEN ActsIn(log, phase) \union {n}
                              ELSE ActsIn(log, phase)
  BY <1>1, <1>2 DEF ActsIn
<1> QED
  BY <1>3 DEF longer, n

\* The first act of a phase stays the first.
LEMMA FirstInAppend ==
    ASSUME NEW log \in Seq(Acts), NEW e \in Acts, NEW phase
    PROVE  /\ ActsIn(log, phase) # {} =>
                 /\ ActsIn(Append(log, e), phase) # {}
                 /\ FirstIn(Append(log, e), phase) = FirstIn(log, phase)
                 /\ Instant(Append(log, e), phase) = Instant(log, phase)
           /\ ActsIn(log, phase) = {} /\ e.phase = phase =>
                 /\ ActsIn(Append(log, e), phase) # {}
                 /\ FirstIn(Append(log, e), phase) = Len(log) + 1
                 /\ Instant(Append(log, e), phase) = e.at
<1> DEFINE longer == Append(log, e)
           n == Len(log) + 1
<1>1. /\ Len(log) \in Nat
      /\ \A i \in 1..Len(log) : longer[i] = log[i]
      /\ longer[n] = e
  OBVIOUS
<1>2. ActsIn(longer, phase) = IF e.phase = phase THEN ActsIn(log, phase) \union {n}
                              ELSE ActsIn(log, phase)
  BY ActsInAppend
<1>3. ActsIn(log, phase) \in SUBSET (1..Len(log))
  BY ActsInType
<1> HIDE DEF longer
<1>4. ActsIn(longer, phase) \in SUBSET Nat
  BY <1>1, <1>2, <1>3
<1>5. ASSUME ActsIn(log, phase) # {}
      PROVE  /\ ActsIn(longer, phase) # {}
             /\ FirstIn(longer, phase) = FirstIn(log, phase)
             /\ FirstIn(log, phase) \in 1..Len(log)
  <2>1. /\ FirstIn(log, phase) \in ActsIn(log, phase)
        /\ \A j \in ActsIn(log, phase) : FirstIn(log, phase) <= j
    <3>1. ActsIn(log, phase) \in SUBSET Nat
      BY <1>1, <1>3
    <3> QED
      BY <1>5, <3>1, FirstIsLeast DEF FirstIn
  <2>2. FirstIn(log, phase) \in 1..Len(log)
    BY <1>3, <2>1
  <2>3. /\ FirstIn(log, phase) \in ActsIn(longer, phase)
        /\ \A j \in ActsIn(longer, phase) : FirstIn(log, phase) <= j
    BY <1>1, <1>2, <2>1, <2>2
  <2>4. /\ FirstIn(longer, phase) \in ActsIn(longer, phase)
        /\ \A j \in ActsIn(longer, phase) : FirstIn(longer, phase) <= j
    BY <1>4, <2>3, FirstIsLeast DEF FirstIn
  <2>5. FirstIn(longer, phase) \in Nat /\ FirstIn(log, phase) \in Nat
    BY <1>1, <1>4, <2>2, <2>4
  <2>6. FirstIn(longer, phase) <= FirstIn(log, phase) /\ FirstIn(log, phase) <= FirstIn(longer, phase)
    BY <2>3, <2>4
  <2> QED
    BY <2>2, <2>3, <2>5, <2>6
<1>6. ASSUME ActsIn(log, phase) = {}, e.phase = phase
      PROVE  ActsIn(longer, phase) # {} /\ FirstIn(longer, phase) = n
  <2>1. ActsIn(longer, phase) = {n}
    BY <1>2, <1>6
  <2> QED
    BY <1>4, <2>1, FirstIsLeast DEF FirstIn
<1> QED
  BY <1>1, <1>5, <1>6 DEF Instant, longer, n

\* Time only makes more of it past.
LEMMA StaysPast ==
    ASSUME NEW log, NEW now \in Nat, NEW later \in Nat, now <= later,
           \A i \in DOMAIN log : log[i].at \in Nat, Past(log, now)
    PROVE  Past(log, later)
<1>1. \A i \in DOMAIN log : log[i].at * TicksPerSecond \in Nat
  BY ProductNat, BoxConstantsOK
<1> QED
  BY <1>1 DEF Past

\* Declaring an act now.
LEMMA PastAppend ==
    ASSUME NEW log \in Seq(Acts), NEW e \in Acts, NEW now \in Nat,
           Past(log, now), e.at * TicksPerSecond <= now
    PROVE  Past(Append(log, e), now)
<1>1. /\ Len(log) \in Nat
      /\ DOMAIN log = 1..Len(log)
      /\ DOMAIN Append(log, e) = 1..(Len(log) + 1)
      /\ \A i \in 1..Len(log) : Append(log, e)[i] = log[i]
      /\ Append(log, e)[Len(log) + 1] = e
  OBVIOUS
<1>2. \A i \in 1..(Len(log) + 1) : i \in 1..Len(log) \/ i = Len(log) + 1
  BY <1>1
<1> QED
  BY <1>1, <1>2 DEF Past

\* Closing a poll that has these arrivals behind it.
LEMMA WithinAfterClose ==
    ASSUME NEW arrivals \in SUBSET Nat, NEW log \in Seq(Acts), NEW e \in Acts,
           e.phase = "closed", Within(arrivals, log),
           \A at \in arrivals : at < (e.at + 1) * TicksPerSecond
    PROVE  Within(arrivals, Append(log, e))
<1> SUFFICES ASSUME NEW at \in arrivals
             PROVE  /\ ActsIn(Append(log, e), "opened") # {}
                    /\ Instant(Append(log, e), "opened") * TicksPerSecond <= at
                    /\ at < (Instant(Append(log, e), "closed") + 1) * TicksPerSecond
                    /\ FirstIn(Append(log, e), "opened") < FirstIn(Append(log, e), "closed")
  BY DEF Within
<1>1. /\ ActsIn(log, "opened") # {}
      /\ Instant(log, "opened") * TicksPerSecond <= at
      /\ ActsIn(log, "closed") # {} =>
            /\ at < (Instant(log, "closed") + 1) * TicksPerSecond
            /\ FirstIn(log, "opened") < FirstIn(log, "closed")
  BY DEF Within
<1>2. /\ ActsIn(Append(log, e), "opened") # {}
      /\ FirstIn(Append(log, e), "opened") = FirstIn(log, "opened")
      /\ Instant(Append(log, e), "opened") = Instant(log, "opened")
  BY <1>1, FirstInAppend
<1>3. FirstIn(log, "opened") \in 1..Len(log) /\ Len(log) \in Nat
  BY <1>1, ActsInType
<1>4. CASE ActsIn(log, "closed") # {}
  <2>1. /\ FirstIn(Append(log, e), "closed") = FirstIn(log, "closed")
        /\ Instant(Append(log, e), "closed") = Instant(log, "closed")
    BY <1>4, FirstInAppend
  <2> QED
    BY <1>1, <1>2, <1>4, <2>1
<1>5. CASE ActsIn(log, "closed") = {}
  <2>1. /\ FirstIn(Append(log, e), "closed") = Len(log) + 1
        /\ Instant(Append(log, e), "closed") = e.at
    BY <1>5, FirstInAppend
  <2> QED
    BY <1>1, <1>2, <1>3, <2>1
<1> QED
  BY <1>4, <1>5

\* What the acts are.
LEMMA ActIs ==
    ASSUME TypeOK, NEW phase \in {"opened", "closed"}
    PROVE  /\ Act(phase) \in Acts /\ Act(phase).phase = phase /\ Act(phase).at = Second
           /\ Append(acts, Act(phase)) \in Seq(Acts)
<1>1. Second \in Nat
  BY SecondType DEF TypeOK
<1>2. Act(phase) \in Acts /\ Act(phase).phase = phase /\ Act(phase).at = Second
  BY <1>1 DEF Act, Acts
<1> QED
  BY <1>2, ActTypes

\* Arrivals are instants, and a recorded submission arrives now.
LEMMA ArrivalsType ==
    ASSUME TypeOK
    PROVE  Arrivals \in SUBSET Nat
<1>1. acceptedAt \in Seq(Nat) /\ rejectedAt \in Seq(Nat)
  BY DEF TypeOK
<1> QED
  BY <1>1 DEF Arrivals, ToSet

LEMMA ArrivalsAfterSubmit ==
    ASSUME TypeOK, NEW b \in Ballots, Submit(b)
    PROVE  \/ Arrivals' = Arrivals /\ UNCHANGED <<accepted, rejected, acceptedAt, rejectedAt>>
           \/ Opened /\ ~isClosed /\ Arrivals' = Arrivals \union {clock}
<1>0. acceptedAt \in Seq(Nat) /\ rejectedAt \in Seq(Nat) /\ clock \in Nat
  BY DEF TypeOK
<1>1. CASE ~Opened \/ isClosed
  <2>1. UNCHANGED <<accepted, rejected, acceptedAt, rejectedAt>>
    BY <1>1 DEF Submit, Unrecorded, historyVars
  <2> QED
    BY <2>1 DEF Arrivals
<1>2. CASE ~(~Opened \/ isClosed) /\ Verdict(b) = "accepted"
  <2>1. acceptedAt' = Append(acceptedAt, clock) /\ rejectedAt' = rejectedAt
    BY <1>2 DEF Submit, Accept
  <2>2. ToSet(acceptedAt') = ToSet(acceptedAt) \union {clock}
    BY <1>0, <2>1, EntriesOfAppend
  <2> QED
    BY <1>2, <2>1, <2>2 DEF Arrivals
<1>3. CASE ~(~Opened \/ isClosed) /\ Verdict(b) # "accepted"
  <2>1. rejectedAt' = Append(rejectedAt, clock) /\ acceptedAt' = acceptedAt
    BY <1>3 DEF Submit, Refuse
  <2>2. ToSet(rejectedAt') = ToSet(rejectedAt) \union {clock}
    BY <1>0, <2>1, EntriesOfAppend
  <2> QED
    BY <1>3, <2>1, <2>2 DEF Arrivals
<1> QED
  BY <1>1, <1>2, <1>3

\* A step that declares nothing and records nothing.
LEMMA WindowUntouched ==
    ASSUME TypeOK, WindowInv, UNCHANGED <<acts, isClosed, acceptedAt, rejectedAt>>,
           clock' \in Nat, clock <= clock',
           record' # NoRecord => record # NoRecord /\ record'.acts = record.acts
    PROVE  WindowInv'
<1>1. Arrivals' = Arrivals /\ acts' = acts /\ isClosed' = isClosed
  BY DEF Arrivals
<1>2. clock \in Nat /\ acts \in Seq(Acts) /\ (record # NoRecord => record.acts \in Seq(Acts))
  BY DEF TypeOK, Records
<1>3. \A log \in Seq(Acts) : Past(log, clock) => Past(log, clock')
  <2>1. ASSUME NEW log \in Seq(Acts), NEW i \in DOMAIN log
        PROVE  log[i].at \in Nat
    <3>1. log[i] \in Acts
      OBVIOUS
    <3> QED
      BY <3>1 DEF Acts
  <2> QED
    BY <1>2, <2>1, StaysPast
<1>4. Past(acts', clock') /\ (record' # NoRecord => Past(record'.acts, clock'))
  BY <1>1, <1>2, <1>3 DEF WindowInv
<1>5. \A at \in Arrivals' : at <= clock'
  <2>1. Arrivals \in SUBSET Nat
    BY ArrivalsType
  <2> QED
    BY <1>1, <1>2, <2>1 DEF WindowInv
<1>6. /\ isClosed' <=> ActsIn(acts', "closed") # {}
      /\ Within(Arrivals', acts')
      /\ record' # NoRecord =>
            ActsIn(record'.acts, "closed") # {} /\ Within(Arrivals', record'.acts)
  BY <1>1 DEF WindowInv
<1> QED
  BY <1>4, <1>5, <1>6 DEF WindowInv

\* Every step keeps the window.
LEMMA WindowInductive ==
    ASSUME TypeOK, TypeOK', BoxInv, WindowInv, [Next]_vars
    PROVE  WindowInv'
<1> USE DEF boxVars, diskVars, historyVars
<1>0. /\ clock \in Nat /\ clock' \in Nat /\ acts \in Seq(Acts)
      /\ Arrivals \in SUBSET Nat
  BY ArrivalsType DEF TypeOK
<1>s. /\ Second \in Nat /\ Second * TicksPerSecond <= clock
      /\ clock < (Second + 1) * TicksPerSecond
  BY <1>0, SecondBounds
<1>1. CASE Open
  <2>1. /\ acts' = Append(acts, Act("opened")) /\ isClosed' = isClosed
        /\ record' = record /\ clock' = clock
        /\ Arrivals' = Arrivals
    BY <1>1 DEF Open, Arrivals
  <2>2. ActsIn(acts, "opened") = {}
    BY <1>1 DEF Open, Opened, ActsIn
  <2>3. Arrivals = {}
    BY <2>2 DEF WindowInv, Within
  <2>4. /\ Act("opened") \in Acts /\ Act("opened").phase = "opened" /\ Act("opened").at = Second
    BY ActIs
  <2>5. ActsIn(acts', "closed") = ActsIn(acts, "closed")
    BY <1>0, <2>1, <2>4, ActsInAppend
  <2>6. Past(acts', clock)
    BY <1>0, <1>s, <2>1, <2>4, PastAppend DEF WindowInv
  <2>7. \A log : Within(Arrivals', log)
    BY <2>1, <2>3 DEF Within
  <2> QED
    BY <2>1, <2>3, <2>5, <2>6, <2>7 DEF WindowInv
<1>2. ASSUME NEW s \in Intervals, SetPublicationInterval(s)
      PROVE  WindowInv'
  BY <1>0, <1>2, WindowUntouched DEF SetPublicationInterval
<1>3. ASSUME NEW b \in Ballots, Submit(b)
      PROVE  WindowInv'
  <2>1. UNCHANGED <<acts, isClosed, record, clock>>
    BY <1>3 DEF Submit
  <2>2. CASE UNCHANGED <<acceptedAt, rejectedAt>>
    BY <1>0, <2>1, <2>2, WindowUntouched
  <2>3. CASE Opened /\ ~isClosed /\ Arrivals' = Arrivals \union {clock}
    <3>1. record = NoRecord
      BY <2>3 DEF BoxInv
    <3>2. ActsIn(acts, "opened") # {} /\ ActsIn(acts, "closed") = {}
      BY <2>3 DEF WindowInv, Opened, ActsIn
    <3>3. Instant(acts, "opened") * TicksPerSecond <= clock
      <4>1. FirstIn(acts, "opened") \in 1..Len(acts)
        BY <1>0, <3>2, ActsInType
      <4> QED
        BY <1>0, <4>1 DEF WindowInv, Past, Instant
    <3>4. Within(Arrivals', acts)
      BY <2>3, <3>2, <3>3 DEF WindowInv, Within
    <3>5. \A at \in Arrivals' : at <= clock
      BY <1>0, <2>3 DEF WindowInv
    <3> QED
      BY <2>1, <3>1, <3>4, <3>5 DEF WindowInv
  <2> QED
    BY <1>3, <2>2, <2>3, ArrivalsAfterSubmit
<1>4. CASE Read
  BY <1>0, <1>4, WindowUntouched DEF Read
<1>5. CASE Close
  <2>1. /\ acts' = Append(acts, Act("closed")) /\ isClosed' = TRUE /\ clock' = clock
        /\ Arrivals' = Arrivals
        /\ record' = record \/ record' = StoredState
    BY <1>5 DEF Close, Arrivals, Archive
  <2>2. Act("closed") \in Acts /\ Act("closed").phase = "closed" /\ Act("closed").at = Second
    BY ActIs
  <2>3. ActsIn(acts', "closed") # {}
    BY <1>0, <2>1, <2>2, ActsInAppend
  <2>4. Past(acts', clock)
    BY <1>0, <1>s, <2>1, <2>2, PastAppend DEF WindowInv
  <2>5. \A at \in Arrivals : at < (Act("closed").at + 1) * TicksPerSecond
    <3>1. (Second + 1) * TicksPerSecond \in Nat
      BY <1>s, ProductNat, BoxConstantsOK
    <3> QED
      BY <1>0, <1>s, <2>2, <3>1 DEF WindowInv
  <2>6. Within(Arrivals, acts')
    BY <1>0, <2>1, <2>2, <2>5, WithinAfterClose DEF WindowInv
  <2>7. record' = StoredState => record'.acts = acts'
    BY DEF StoredState
  <2> QED
    BY <2>1, <2>3, <2>4, <2>6, <2>7 DEF WindowInv
<1>6. CASE RecordAltered
  <2>1. record # NoRecord /\ record \in Records
    BY <1>6 DEF RecordAltered, TypeOK
  <2>2. record'.acts = record.acts
    BY <1>6, <2>1 DEF RecordAltered, Records
  <2>3. UNCHANGED <<acts, isClosed, acceptedAt, rejectedAt, clock>>
    BY <1>6 DEF RecordAltered
  <2> QED
    BY <1>0, <2>1, <2>2, <2>3, WindowUntouched
<1>7. CASE Reload
  <2>1. /\ record # NoRecord /\ acts' = record.acts /\ isClosed' = TRUE
        /\ record' = record /\ clock' = clock /\ Arrivals' = Arrivals
    BY <1>7 DEF Reload, Reproducible, Arrivals
  <2> QED
    BY <2>1 DEF WindowInv
<1>8. CASE Tick
  <2>1. clock' = clock + 1 /\ UNCHANGED <<acts, isClosed, record, acceptedAt, rejectedAt>>
    BY <1>8 DEF Tick
  <2> QED
    BY <1>0, <2>1, WindowUntouched
<1>9. CASE UNCHANGED vars
  BY <1>0, <1>9, WindowUntouched DEF vars
<1> QED
  BY <1>1, <1>2, <1>3, <1>4, <1>5, <1>6, <1>7, <1>8, <1>9 DEF Next

\* The invariant of the window holds in every reachable state.
THEOREM WindowInvariant == Spec => []WindowInv
<1>1. Init => WindowInv
  <2> SUFFICES ASSUME Init
               PROVE  WindowInv
    OBVIOUS
  <2>1. /\ acts = <<>> /\ isClosed = FALSE /\ record = NoRecord
        /\ acceptedAt = <<>> /\ rejectedAt = <<>>
    BY DEF Init
  <2>2. ActsIn(acts, "closed") = {} /\ Past(acts, clock) /\ Arrivals = {}
    BY <2>1 DEF ActsIn, Past, Arrivals, ToSet
  <2> QED
    BY <2>1, <2>2 DEF WindowInv, Within
<1>2. TypeOK /\ TypeOK' /\ BoxInv /\ WindowInv /\ [Next]_vars => WindowInv'
  BY WindowInductive
<1> QED
  BY <1>1, <1>2, BoxTypeCorrect, BoxInvariant, PTL DEF Spec

\* Nothing is recorded before the act that opens the poll nor after the first
\* that closes it, in whatever order acts are declared, repeated and reloaded
\* (`submit` tests a flag, which `restore` sets from a file).
THEOREM OnlyInTheWindow == Spec => []PollWindow
<1>1. TypeOK /\ WindowInv => PollWindow
  <2> SUFFICES ASSUME TypeOK, WindowInv
               PROVE  PollWindow
    OBVIOUS
  <2>1. ActsOf("opened") = ActsIn(acts, "opened") /\ ActsOf("closed") = ActsIn(acts, "closed")
    BY DEF ActsOf, ActsIn
  <2>2. OpenedAt = Instant(acts, "opened") /\ ClosedAt = Instant(acts, "closed")
    BY <2>1 DEF OpenedAt, ClosedAt, Instant, FirstIn
  <2>3. Opened <=> ActsIn(acts, "opened") # {}
    BY DEF Opened, ActsIn
  <2>4. \A at \in Arrivals :
           /\ Opened /\ OpenedAt * TicksPerSecond <= at
           /\ isClosed => /\ at < (ClosedAt + 1) * TicksPerSecond
                          /\ First(ActsOf("opened")) < First(ActsOf("closed"))
    BY <2>1, <2>2, <2>3 DEF WindowInv, Within, FirstIn
  <2> QED
    BY <2>4 DEF PollWindow, Arrivals, ToSet
<1> QED
  BY <1>1, BoxTypeCorrect, WindowInvariant, PTL

(***************************************************************************)
(* Arithmetic of the cadence.                                              *)
(***************************************************************************)

\* Whole multiples.
LEMMA Multiples ==
    ASSUME NEW d \in Nat, d > 0
    PROVE  /\ \A a \in Nat : (a * d) % d = 0 /\ (a * d) \div d = a
           /\ \A a \in Nat : a % d = 0 => a = (a \div d) * d
           /\ \A a \in Nat : a \div d \in Nat /\ (a \div d) * d <= a /\ a < (a \div d + 1) * d
           /\ \A a, b \in Nat : a <= b => a * d <= b * d
           /\ \A a, b \in Nat : a * d = b * d => a = b
           /\ \A a, b \in Nat : b * d <= a /\ a < (b + 1) * d => a \div d = b
<1>1. \A a \in Nat : a \div d \in Nat /\ (a \div d) * d <= a /\ a < (a \div d + 1) * d
  OBVIOUS
<1>2. \A a, b \in Nat : a <= b => a * d <= b * d
  OBVIOUS
<1>3. \A a, b \in Nat : a < b => a * d < b * d
  OBVIOUS
<1>4. \A a, b \in Nat : a * d = b * d => a = b
  BY <1>3
<1>5. \A a, b \in Nat : b * d <= a /\ a < (b + 1) * d => a \div d = b
  <2> SUFFICES ASSUME NEW a \in Nat, NEW b \in Nat, b * d <= a, a < (b + 1) * d
               PROVE  a \div d = b
    OBVIOUS
  <2> DEFINE q == a \div d
  <2>1. q \in Nat /\ q * d <= a /\ a < (q + 1) * d
    BY <1>1
  <2> HIDE DEF q
  <2>2. q * d \in Nat /\ b * d \in Nat /\ (q + 1) * d \in Nat /\ (b + 1) * d \in Nat
    BY <2>1, ProductNat
  <2>3. ~(q + 1 <= b)
    <3>1. q + 1 <= b => (q + 1) * d <= b * d
      BY <1>2, <2>1
    <3> QED
      BY <2>1, <2>2, <3>1
  <2>4. ~(b + 1 <= q)
    <3>1. b + 1 <= q => (b + 1) * d <= q * d
      BY <1>2, <2>1
    <3> QED
      BY <2>1, <2>2, <3>1
  <2>5. q = b
    BY <2>1, <2>3, <2>4
  <2> QED
    BY <2>5 DEF q
<1>6. \A a \in Nat : (a * d) \div d = a
  <2> TAKE a \in Nat
  <2>1. a * d \in Nat /\ a * d <= a * d /\ a * d < (a + 1) * d
    BY ProductNat, <1>3
  <2> QED
    BY <1>5, <2>1
<1>7. \A a \in Nat : a % d = a - (a \div d) * d
  OBVIOUS
<1>8. \A a \in Nat : (a * d) % d = 0
  <2> TAKE a \in Nat
  <2>1. a * d \in Nat
    BY ProductNat
  <2>2. (a * d) % d = (a * d) - ((a * d) \div d) * d
    BY <1>7, <2>1
  <2> QED
    BY <1>6, <2>1, <2>2
<1>9. \A a \in Nat : a % d = 0 => a = (a \div d) * d
  <2> TAKE a \in Nat
  <2>1. (a \div d) * d \in Nat
    BY <1>1, ProductNat
  <2> QED
    BY <1>7, <2>1
<1> QED
  BY <1>1, <1>2, <1>4, <1>5, <1>6, <1>8, <1>9

\* The boundaries that are due are the next one and those at whole intervals
\* after it; the one after the last of them is still to come.
LEMMA DueCounted ==
    ASSUME TypeOK, ~isClosed, interval # 0
    PROVE  /\ \A i \in 1..Cardinality(Due) : nextBoundary + (i - 1) * interval <= Second
           /\ Second < nextBoundary + Cardinality(Due) * interval
<1>1. /\ interval \in Nat /\ interval > 0 /\ nextBoundary \in Nat /\ Second \in Nat
  BY SecondType, BoxConstantsOK DEF TypeOK
<1>2. Due = {b \in nextBoundary..Second : (b - nextBoundary) % interval = 0}
  BY DEF Due
<1>3. CASE Second < nextBoundary
  <2>1. Due = {}
    BY <1>1, <1>2, <1>3
  <2>2. Cardinality(Due) = 0
    BY <2>1, FS_EmptySet
  <2> QED
    BY <1>1, <1>3, <2>2
<1>4. CASE nextBoundary <= Second
  <2> DEFINE a == Second - nextBoundary
             q == a \div interval
             f == [i \in 1..(q + 1) |-> nextBoundary + (i - 1) * interval]
  <2>1. a \in Nat /\ Second = nextBoundary + a
    BY <1>1, <1>4
  <2> HIDE DEF a
  <2>2. q \in Nat /\ q * interval <= a /\ a < (q + 1) * interval
    BY <1>1, <2>1, Multiples
  <2> HIDE DEF q
  <2>3. \A i \in 1..(q + 1) :
           /\ i - 1 \in Nat
           /\ (i - 1) * interval \in Nat
           /\ (i - 1) * interval <= a
           /\ ((i - 1) * interval) % interval = 0
    <3> TAKE i \in 1..(q + 1)
    <3>1. i - 1 \in Nat /\ i - 1 <= q
      BY <2>2
    <3>2. (i - 1) * interval \in Nat /\ q * interval \in Nat
      BY <1>1, <2>2, <3>1, ProductNat
    <3>3. (i - 1) * interval <= q * interval /\ ((i - 1) * interval) % interval = 0
      BY <1>1, <2>2, <3>1, Multiples
    <3> QED
      BY <2>1, <2>2, <3>1, <3>2, <3>3
  <2>4. \A i \in 1..(q + 1) : nextBoundary + (i - 1) * interval \in Due
    <3> TAKE i \in 1..(q + 1)
    <3> DEFINE m == (i - 1) * interval
    <3>1. m \in Nat /\ m <= a /\ m % interval = 0
      BY <2>3
    <3> HIDE DEF m
    <3>2. nextBoundary + m \in nextBoundary..Second /\ (nextBoundary + m) - nextBoundary = m
      BY <1>1, <2>1, <3>1
    <3>3. nextBoundary + m \in Due
      BY <1>2, <3>1, <3>2
    <3> QED
      BY <3>3 DEF m
  <2>5. \A b \in Due : \E i \in 1..(q + 1) : b = nextBoundary + (i - 1) * interval
    <3> TAKE b \in Due
    <3> DEFINE m == b - nextBoundary
               k == m \div interval
    <3>1. b \in nextBoundary..Second /\ m % interval = 0
      BY <1>2
    <3>2. m \in Nat /\ m <= a /\ b = nextBoundary + m
      BY <1>1, <2>1, <3>1
    <3> HIDE DEF m
    <3>3. k \in Nat /\ m = k * interval
      BY <1>1, <3>1, <3>2, Multiples
    <3> HIDE DEF k
    <3>4. k <= q
      <4>1. ~(q + 1 <= k)
        <5>1. q + 1 <= k => (q + 1) * interval <= k * interval
          BY <1>1, <2>2, <3>3, Multiples
        <5>2. (q + 1) * interval \in Nat /\ k * interval \in Nat
          BY <1>1, <2>2, <3>3, ProductNat
        <5> QED
          BY <2>1, <2>2, <3>2, <3>3, <5>1, <5>2
      <4> QED
        BY <2>2, <3>3, <4>1
    <3>5. k + 1 \in 1..(q + 1) /\ (k + 1) - 1 = k
      BY <2>2, <3>3, <3>4
    <3>6. b = nextBoundary + ((k + 1) - 1) * interval
      BY <3>2, <3>3, <3>5
    <3> QED
      BY <3>5, <3>6
  <2>6. f \in Surjection(1..(q + 1), Due)
    <3>1. f \in [1..(q + 1) -> Due]
      BY <2>4
    <3>2. \A b \in Due : \E i \in 1..(q + 1) : f[i] = b
      BY <2>5
    <3> QED
      BY <3>1, <3>2 DEF Surjection
  <2>7. f \in Injection(1..(q + 1), Due)
    <3>1. f \in [1..(q + 1) -> Due]
      BY <2>4
    <3>2. ASSUME NEW i \in 1..(q + 1), NEW j \in 1..(q + 1), f[i] = f[j]
          PROVE  i = j
      <4>1. nextBoundary + (i - 1) * interval = nextBoundary + (j - 1) * interval
        BY <3>2
      <4>2. (i - 1) * interval = (j - 1) * interval
        BY <1>1, <2>3, <4>1
      <4>3. i - 1 = j - 1
        BY <1>1, <2>3, <4>2, Multiples
      <4> QED
        BY <2>2, <4>3
    <3> QED
      BY <3>1, <3>2 DEF Injection, IsInjective
  <2>8. Cardinality(Due) = q + 1
    <3>1. 1 \in Int /\ q + 1 \in Int /\ q + 1 >= 1
      BY <2>2
    <3>2. IsFiniteSet(1..(q + 1)) /\ Cardinality(1..(q + 1)) = q + 1
      <4>1. Cardinality(1..(q + 1)) = IF 1 > q + 1 THEN 0 ELSE (q + 1) - 1 + 1
        BY <3>1, FS_Interval
      <4> QED
        BY <2>2, <3>1, <4>1, FS_Interval
    <3> HIDE DEF f
    <3> QED
      BY <2>6, <2>7, <3>2, FS_Surjection
  <2>9. (q + 1) * interval \in Nat
    BY <1>1, <2>2, ProductNat
  <2> QED
    BY <1>1, <2>1, <2>2, <2>3, <2>8, <2>9
<1> QED
  BY <1>1, <1>3, <1>4

(***************************************************************************)
(* Figures as they stood.                                                  *)
(***************************************************************************)

\* Where everything came before an instant, everything counts.
LEMMA AllArrived ==
    ASSUME NEW arrivals \in Seq(Nat), NEW at \in Nat,
           \A e \in ToSet(arrivals) : e < at * TicksPerSecond
    PROVE  ArrivedBefore(arrivals, at) = Len(arrivals)
<1>1. Len(arrivals) \in Nat /\ DOMAIN arrivals = 1..Len(arrivals)
  OBVIOUS
<1>2. {j \in DOMAIN arrivals : arrivals[j] < at * TicksPerSecond} = 1..Len(arrivals)
  BY <1>1 DEF ToSet
<1>3. Cardinality(1..Len(arrivals)) = Len(arrivals)
  <2>1. Cardinality(1..Len(arrivals))
          = IF 1 > Len(arrivals) THEN 0 ELSE Len(arrivals) - 1 + 1
    BY <1>1, FS_Interval
  <2> QED
    BY <1>1, <2>1
<1> QED
  BY <1>2, <1>3 DEF ArrivedBefore

\* What arrives now did not arrive before an instant that is past.
LEMMA ArrivesLater ==
    ASSUME NEW arrivals \in Seq(Nat), NEW now \in Nat, NEW at \in Nat,
           at * TicksPerSecond <= now
    PROVE  ArrivedBefore(Append(arrivals, now), at) = ArrivedBefore(arrivals, at)
<1> DEFINE longer == Append(arrivals, now)
           n == Len(arrivals) + 1
<1>0. at * TicksPerSecond \in Nat
  BY ProductNat, BoxConstantsOK
<1>1. /\ Len(arrivals) \in Nat
      /\ DOMAIN arrivals = 1..Len(arrivals)
      /\ DOMAIN longer = 1..n
      /\ \A i \in 1..Len(arrivals) : longer[i] = arrivals[i]
      /\ longer[n] = now
  OBVIOUS
<1>2. (\A i \in 1..n : i \in 1..Len(arrivals) \/ i = n)
      /\ (\A i \in 1..Len(arrivals) : i \in 1..n)
  BY <1>1
<1>3. ~(now < at * TicksPerSecond)
  BY <1>0
<1> HIDE DEF longer, n
<1>4. {j \in DOMAIN longer : longer[j] < at * TicksPerSecond}
        = {j \in DOMAIN arrivals : arrivals[j] < at * TicksPerSecond}
  BY <1>1, <1>2, <1>3
<1> QED
  BY <1>4 DEF ArrivedBefore, longer

\* Figures in a series are figures.
LEMMA FigureTypes ==
    ASSUME NEW figures \in Seq(Snapshots), NEW i \in DOMAIN figures
    PROVE  /\ figures[i].at \in Nat /\ figures[i].after \in Nat /\ figures[i].rejected \in Nat
           /\ i \in 1..Len(figures) /\ Len(figures) \in Nat
<1>1. figures[i] \in Snapshots
  OBVIOUS
<1> QED
  BY <1>1 DEF Snapshots

\* While no close is declared every figure is a boundary's.
LEMMA AllBoundaries ==
    ASSUME NEW figures \in Seq(Snapshots), NEW log, ActsIn(log, "closed") = {}
    PROVE  BoundaryCount(figures, log) = Len(figures) /\ Cardinality(ActsIn(log, "closed")) = 0
<1>1. Cardinality(ActsIn(log, "closed")) = 0
  BY FS_EmptySet
<1>2. Len(figures) \in Nat
  OBVIOUS
<1> QED
  BY <1>1, <1>2 DEF BoundaryCount

\* Figures of the registry as it stands, at instants that everything in it came before.
LEMMA StoodAfterBoundaries ==
    ASSUME NEW figures \in Seq(Snapshots), NEW due \in Seq(Snapshots), NEW log,
           NEW taken \in Seq(Ballots), NEW takenAt, NEW refused, NEW refusedAt,
           ActsIn(log, "closed") = {},
           Stood(figures, log, taken, takenAt, refused, refusedAt),
           \A i \in DOMAIN due :
              /\ due[i].after = Len(taken) /\ due[i].figures = Count(taken)
              /\ due[i].after = ArrivedBefore(takenAt, due[i].at)
              /\ due[i].rejected = ArrivedBefore(refusedAt, due[i].at)
    PROVE  Stood(figures \o due, log, taken, takenAt, refused, refusedAt)
<1> DEFINE both == figures \o due
<1>1. /\ both \in Seq(Snapshots)
      /\ DOMAIN both = 1..(Len(figures) + Len(due))
      /\ Len(both) = Len(figures) + Len(due)
      /\ DOMAIN figures = 1..Len(figures) /\ DOMAIN due = 1..Len(due)
      /\ Len(figures) \in Nat /\ Len(due) \in Nat
  OBVIOUS
<1>2. \A i \in DOMAIN both : \/ i \in DOMAIN figures /\ both[i] = figures[i]
                             \/ \E j \in DOMAIN due : both[i] = due[j]
  <2> SUFFICES ASSUME NEW i \in DOMAIN both, i \notin DOMAIN figures
               PROVE  \E j \in DOMAIN due : both[i] = due[j]
    BY <1>1
  <2>1. i - Len(figures) \in DOMAIN due /\ both[i] = due[i - Len(figures)]
    BY <1>1
  <2> QED
    BY <2>1
<1> HIDE DEF both
<1>3. /\ BoundaryCount(both, log) = Len(both) /\ BoundaryCount(figures, log) = Len(figures)
      /\ Cardinality(ActsIn(log, "closed")) = 0
  BY <1>1, AllBoundaries
<1>4. SubSeq(taken, 1, Len(taken)) = taken /\ Len(taken) \in Nat
  BY SubSeqFull
<1>5. \A i \in DOMAIN both :
         /\ both[i].after <= Len(taken)
         /\ both[i].figures = Count(SubSeq(taken, 1, both[i].after))
         /\ both[i].after = ArrivedBefore(takenAt, both[i].at)
         /\ both[i].rejected = ArrivedBefore(refusedAt, both[i].at)
  <2> TAKE i \in DOMAIN both
  <2>1. CASE i \in DOMAIN figures /\ both[i] = figures[i]
    BY <1>1, <1>3, <2>1 DEF Stood
  <2>2. CASE \E j \in DOMAIN due : both[i] = due[j]
    <3>1. PICK j \in DOMAIN due : both[i] = due[j]
      BY <2>2
    <3>2. /\ both[i].after = Len(taken) /\ both[i].figures = Count(taken)
          /\ both[i].after = ArrivedBefore(takenAt, both[i].at)
          /\ both[i].rejected = ArrivedBefore(refusedAt, both[i].at)
      BY <3>1
    <3>3. SubSeq(taken, 1, both[i].after) = taken
      BY <1>4, <3>2
    <3>4. both[i].figures = Count(SubSeq(taken, 1, both[i].after))
      BY <3>2, <3>3, Zenon
    <3>5. both[i].after <= Len(taken)
      BY <1>4, <3>2
    <3> QED
      BY <3>2, <3>4, <3>5
  <2> QED
    BY <1>2, <2>1, <2>2
<1>6. DOMAIN both \ (1..Len(both)) = {}
  BY <1>1
<1>7. \A i \in 1..BoundaryCount(both, log) : i \in DOMAIN both
  BY <1>1, <1>3
<1>8. Cardinality(ActsIn(log, "closed")) <= Len(both)
  BY <1>1, <1>3
<1>9. Stood(both, log, taken, takenAt, refused, refusedAt)
  BY <1>3, <1>5, <1>6, <1>7, <1>8 DEF Stood
<1> QED
  BY <1>9 DEF both

\* The figure of a close, and the act that declares it.
LEMMA StoodAfterClose ==
    ASSUME NEW figures \in Seq(Snapshots), NEW last \in Snapshots,
           NEW log \in Seq(Acts), NEW e \in Acts, e.phase = "closed",
           NEW taken \in Seq(Ballots), NEW takenAt, NEW refused \in Seq(Refusals), NEW refusedAt,
           Stood(figures, log, taken, takenAt, refused, refusedAt),
           last.after = Len(taken), last.rejected = Len(refused), last.figures = Count(taken)
    PROVE  /\ Stood(Append(figures, last), Append(log, e), taken, takenAt, refused, refusedAt)
           /\ BoundaryCount(Append(figures, last), Append(log, e)) = BoundaryCount(figures, log)
<1> DEFINE longer == Append(figures, last)
           n == Len(figures) + 1
           m == BoundaryCount(figures, log)
<1>1. /\ Len(figures) \in Nat
      /\ Len(longer) = n
      /\ DOMAIN figures = 1..Len(figures)
      /\ DOMAIN longer = 1..n
      /\ \A i \in 1..Len(figures) : longer[i] = figures[i]
      /\ longer[n] = last
  OBVIOUS
<1> HIDE DEF longer
<1>2. /\ Cardinality(ActsIn(log, "closed")) \in Nat
      /\ Cardinality(ActsIn(Append(log, e), "closed")) = Cardinality(ActsIn(log, "closed")) + 1
  <2>1. /\ IsFiniteSet(ActsIn(log, "closed"))
        /\ ActsIn(log, "closed") \in SUBSET (1..Len(log)) /\ Len(log) \in Nat
    BY ActsInType
  <2>2. Len(log) + 1 \notin ActsIn(log, "closed")
    BY <2>1
  <2>3. ActsIn(Append(log, e), "closed") = ActsIn(log, "closed") \union {Len(log) + 1}
    BY ActsInAppend
  <2> QED
    BY <2>1, <2>2, <2>3, FS_AddElement, FS_CardinalityType
<1>3. BoundaryCount(longer, Append(log, e)) = m
  BY <1>1, <1>2 DEF BoundaryCount
<1>4. m \in 0..Len(figures)
  BY <1>1, <1>2 DEF BoundaryCount, Stood
<1> HIDE DEF m
<1>5. SubSeq(taken, 1, Len(taken)) = taken /\ Len(taken) \in Nat
  BY SubSeqFull
<1>6. \A i \in DOMAIN longer : \/ i \in DOMAIN figures /\ longer[i] = figures[i]
                               \/ i = n /\ longer[i] = last /\ i \notin 1..m
  BY <1>1, <1>4
<1>7. \A i \in DOMAIN longer :
         /\ longer[i].after <= Len(taken)
         /\ longer[i].figures = Count(SubSeq(taken, 1, longer[i].after))
  <2> TAKE i \in DOMAIN longer
  <2>1. CASE i \in DOMAIN figures /\ longer[i] = figures[i]
    BY <2>1 DEF Stood
  <2>2. CASE longer[i] = last
    <3>1. longer[i].after = Len(taken) /\ longer[i].figures = Count(taken)
      BY <2>2
    <3>2. SubSeq(taken, 1, longer[i].after) = taken
      BY <1>5, <3>1
    <3>3. longer[i].figures = Count(SubSeq(taken, 1, longer[i].after))
      BY <3>1, <3>2, Zenon
    <3>4. longer[i].after <= Len(taken)
      BY <1>5, <3>1
    <3> QED
      BY <3>3, <3>4
  <2> QED
    BY <1>6, <2>1, <2>2
<1>8. \A i \in 1..m :
         /\ longer[i].after = ArrivedBefore(takenAt, longer[i].at)
         /\ longer[i].rejected = ArrivedBefore(refusedAt, longer[i].at)
  <2>1. \A i \in 1..m : longer[i] = figures[i]
    BY <1>1, <1>4
  <2> QED
    BY <2>1 DEF Stood, m
<1>9. \A i \in DOMAIN longer \ (1..m) :
         longer[i].after = Len(taken) /\ longer[i].rejected = Len(refused)
  <2>1. \A i \in DOMAIN figures \ (1..m) :
           figures[i].after = Len(taken) /\ figures[i].rejected = Len(refused)
    BY DEF Stood, m
  <2> QED
    BY <1>6, <2>1
<1>10. Cardinality(ActsIn(Append(log, e), "closed")) <= Len(longer)
  BY <1>1, <1>2 DEF Stood
<1>11. Stood(longer, Append(log, e), taken, takenAt, refused, refusedAt)
  BY <1>3, <1>7, <1>8, <1>9, <1>10 DEF Stood
<1> QED
  BY <1>3, <1>11 DEF longer, m

\* The figures stand when more is recorded after the last of them.
LEMMA StoodAfterEntry ==
    ASSUME NEW figures \in Seq(Snapshots), NEW log, NEW now \in Nat,
           NEW taken, NEW takenAt, NEW refused, NEW refusedAt,
           NEW taken2, NEW takenAt2, NEW refused2, NEW refusedAt2,
           ActsIn(log, "closed") = {},
           Stood(figures, log, taken, takenAt, refused, refusedAt),
           Past(figures, now),
           \A n \in Nat : n <= Len(taken) => /\ n <= Len(taken2)
                                             /\ SubSeq(taken2, 1, n) = SubSeq(taken, 1, n),
           \A at \in Nat : at * TicksPerSecond <= now =>
              /\ ArrivedBefore(takenAt2, at) = ArrivedBefore(takenAt, at)
              /\ ArrivedBefore(refusedAt2, at) = ArrivedBefore(refusedAt, at)
    PROVE  Stood(figures, log, taken2, takenAt2, refused2, refusedAt2)
<1>1. /\ BoundaryCount(figures, log) = Len(figures)
      /\ Cardinality(ActsIn(log, "closed")) = 0
  BY AllBoundaries
<1>2. Len(figures) \in Nat /\ DOMAIN figures = 1..Len(figures)
  OBVIOUS
<1>3. \A i \in DOMAIN figures : figures[i].at \in Nat /\ figures[i].after \in Nat
  BY FigureTypes
<1>4. \A i \in DOMAIN figures :
         /\ figures[i].after <= Len(taken2)
         /\ figures[i].figures = Count(SubSeq(taken2, 1, figures[i].after))
  BY <1>3 DEF Stood
<1>5. \A i \in DOMAIN figures :
         /\ figures[i].after = ArrivedBefore(takenAt2, figures[i].at)
         /\ figures[i].rejected = ArrivedBefore(refusedAt2, figures[i].at)
  <2>1. \A i \in DOMAIN figures :
           /\ figures[i].after = ArrivedBefore(takenAt, figures[i].at)
           /\ figures[i].rejected = ArrivedBefore(refusedAt, figures[i].at)
    BY <1>1, <1>2 DEF Stood
  <2> QED
    BY <1>3, <2>1 DEF Past
<1>6. DOMAIN figures \ (1..Len(figures)) = {}
  BY <1>2
<1> QED
  BY <1>1, <1>2, <1>4, <1>5, <1>6 DEF Stood

\* Later instants are later in ticks.
LEMMA InTicks ==
    \A a, b \in Nat : a <= b => a * TicksPerSecond <= b * TicksPerSecond
<1>1. TicksPerSecond \in Nat /\ TicksPerSecond > 0
  BY BoxConstantsOK
<1> QED
  BY <1>1, Multiples, Zenon

\* One series of figures after another.
LEMMA Joined ==
    ASSUME NEW one \in Seq(Snapshots), NEW other \in Seq(Snapshots)
    PROVE  /\ Len(one \o other) = Len(one) + Len(other)
           /\ Len(one) \in Nat /\ Len(other) \in Nat
           /\ \A i \in 1..Len(one) : (one \o other)[i] = one[i]
           /\ \A i \in 1..Len(other) : (one \o other)[Len(one) + i] = other[i]
OBVIOUS

\* What catching up publishes.
LEMMA CaughtUpIs ==
    ASSUME TypeOK
    PROVE  /\ CaughtUp \in Seq(Snapshots) /\ DueFigures \in Seq(Snapshots)
           /\ snapshots \in Seq(Snapshots) /\ Len(snapshots) \in Nat
           /\ Cardinality(Due) \in Nat
           /\ CaughtUp = snapshots \o DueFigures
           /\ Len(DueFigures) = Cardinality(Due)
           /\ Len(CaughtUp) = Len(snapshots) + Cardinality(Due)
           /\ \A i \in 1..Cardinality(Due) :
                 DueFigures[i] = Snapshot(nextBoundary + (i - 1) * interval)
           /\ \A i \in 1..Len(snapshots) : CaughtUp[i] = snapshots[i]
           /\ \A i \in 1..Cardinality(Due) : CaughtUp[Len(snapshots) + i] = DueFigures[i]
           /\ isClosed \/ interval = 0 =>
                 CaughtUp = snapshots /\ BoundaryAfterCatchUp = nextBoundary
<1>1. Cardinality(Due) \in Nat
  BY DueFinite
<1>2. DueFigures \in Seq(Snapshots) /\ snapshots \in Seq(Snapshots) /\ CaughtUp \in Seq(Snapshots)
  BY DueFiguresType, CaughtUpTypes DEF TypeOK
<1>3. DOMAIN DueFigures = 1..Cardinality(Due)
  BY DEF DueFigures
<1>4. Len(DueFigures) = Cardinality(Due)
  <2>1. DOMAIN DueFigures = 1..Len(DueFigures) /\ Len(DueFigures) \in Nat
    BY <1>2
  <2> QED
    BY <1>1, <1>3, <2>1
<1>5. \A i \in 1..Cardinality(Due) :
         DueFigures[i] = Snapshot(nextBoundary + (i - 1) * interval)
  BY DEF DueFigures
<1>6. CaughtUp = snapshots \o DueFigures
  BY DEF CaughtUp
<1>7. /\ Len(CaughtUp) = Len(snapshots) + Cardinality(Due)
      /\ \A i \in 1..Len(snapshots) : CaughtUp[i] = snapshots[i]
      /\ \A i \in 1..Cardinality(Due) : CaughtUp[Len(snapshots) + i] = DueFigures[i]
      /\ Len(snapshots) \in Nat
  <2> HIDE DEF DueFigures, CaughtUp
  <2>1. /\ Len(snapshots \o DueFigures) = Len(snapshots) + Len(DueFigures)
        /\ Len(snapshots) \in Nat
        /\ \A i \in 1..Len(snapshots) : (snapshots \o DueFigures)[i] = snapshots[i]
        /\ \A i \in 1..Len(DueFigures) :
              (snapshots \o DueFigures)[Len(snapshots) + i] = DueFigures[i]
    BY <1>2, Joined
  <2> QED
    BY <1>4, <1>6, <2>1, Zenon
<1>8. ASSUME isClosed \/ interval = 0
      PROVE  CaughtUp = snapshots /\ BoundaryAfterCatchUp = nextBoundary
  <2>1. Cardinality(Due) = 0
    <3>1. Due = {}
      BY <1>8 DEF Due
    <3> QED
      BY <3>1, FS_EmptySet
  <2>2. /\ Len(CaughtUp) = Len(snapshots)
        /\ \A i \in 1..Len(snapshots) : CaughtUp[i] = snapshots[i]
    BY <1>7, <2>1
  <2>3. CaughtUp = snapshots
    BY <1>2, <2>2, SeqEqual
  <2>4. interval \in Nat /\ nextBoundary \in Nat
    BY BoxConstantsOK DEF TypeOK
  <2>5. 0 * interval = 0
    BY <2>4
  <2> QED
    BY <2>1, <2>3, <2>4, <2>5 DEF BoundaryAfterCatchUp
<1> QED
  BY <1>1, <1>2, <1>4, <1>5, <1>6, <1>7, <1>8

\* Catching up publishes figures that stand, however late it is done.
LEMMA CaughtUpStands ==
    ASSUME TypeOK, WindowInv, FiguresInv
    PROVE  /\ Stood(CaughtUp, acts, accepted, acceptedAt, rejected, rejectedAt)
           /\ Past(CaughtUp, clock)
           /\ ~isClosed /\ interval # 0 =>
                 \A at \in Arrivals \union {clock} : at < BoundaryAfterCatchUp * TicksPerSecond
<1>0. /\ clock \in Nat /\ Second \in Nat /\ nextBoundary \in Nat /\ interval \in Nat
      /\ Second * TicksPerSecond <= clock /\ clock < (Second + 1) * TicksPerSecond
      /\ TicksPerSecond \in Nat /\ TicksPerSecond > 0
      /\ Cardinality(Due) \in Nat
      /\ accepted \in Seq(Ballots) /\ rejected \in Seq(Refusals)
      /\ acceptedAt \in Seq(Nat) /\ rejectedAt \in Seq(Nat)
      /\ Arrivals \in SUBSET Nat
  BY SecondBounds, DueFinite, ArrivalsType, BoxConstantsOK DEF TypeOK
<1>1. CASE isClosed \/ interval = 0
  <2>1. CaughtUp = snapshots
    BY <1>1, CaughtUpIs
  <2> QED
    BY <1>1, <2>1 DEF FiguresInv
<1>2. CASE ~isClosed /\ interval # 0
  <2>1. /\ \A i \in 1..Cardinality(Due) : nextBoundary + (i - 1) * interval <= Second
        /\ Second < nextBoundary + Cardinality(Due) * interval
    BY <1>2, DueCounted
  <2>2. ASSUME NEW i \in 1..Cardinality(Due)
        PROVE  /\ DueFigures[i].at \in Nat
               /\ nextBoundary <= DueFigures[i].at /\ DueFigures[i].at <= Second
               /\ DueFigures[i].after = Len(accepted)
               /\ DueFigures[i].rejected = Len(rejected)
               /\ DueFigures[i].figures = Count(accepted)
    <3> DEFINE m == (i - 1) * interval
    <3>1. m \in Nat
      <4>1. i - 1 \in Nat
        BY <1>0
      <4> QED
        BY <1>0, <4>1, ProductNat
    <3>2. DueFigures[i] = Snapshot(nextBoundary + m) /\ nextBoundary + m <= Second
      BY <2>1, CaughtUpIs
    <3> HIDE DEF m
    <3> QED
      BY <1>0, <3>1, <3>2 DEF Snapshot
  <2>3. \A i \in 1..Cardinality(Due) :
           /\ nextBoundary * TicksPerSecond <= DueFigures[i].at * TicksPerSecond
           /\ DueFigures[i].at * TicksPerSecond <= clock
    <3> TAKE i \in 1..Cardinality(Due)
    <3>1. DueFigures[i].at \in Nat /\ nextBoundary <= DueFigures[i].at /\ DueFigures[i].at <= Second
      BY <2>2
    <3> DEFINE at == DueFigures[i].at
    <3> HIDE DEF at
    <3>2. at \in Nat /\ nextBoundary <= at /\ at <= Second /\ nextBoundary \in Nat /\ Second \in Nat
      BY <1>0, <3>1 DEF at
    <3>3. nextBoundary * TicksPerSecond <= at * TicksPerSecond
      BY <3>2, InTicks, Zenon
    <3>4. at * TicksPerSecond <= Second * TicksPerSecond
      BY <3>2, InTicks, Zenon
    <3>5. at * TicksPerSecond \in Nat /\ Second * TicksPerSecond \in Nat
      BY <3>2, ProductNat, BoxConstantsOK
    <3>6. at * TicksPerSecond <= clock
      BY <1>0, <3>4, <3>5
    <3> QED
      BY <3>3, <3>6, Zenon DEF at
  <2>4. \A i \in 1..Cardinality(Due) :
           /\ ArrivedBefore(acceptedAt, DueFigures[i].at) = Len(accepted)
           /\ ArrivedBefore(rejectedAt, DueFigures[i].at) = Len(rejected)
    <3> TAKE i \in 1..Cardinality(Due)
    <3>1. DueFigures[i].at \in Nat /\ nextBoundary * TicksPerSecond <= DueFigures[i].at * TicksPerSecond
      BY <2>2, <2>3
    <3>2. nextBoundary * TicksPerSecond \in Nat /\ DueFigures[i].at * TicksPerSecond \in Nat
      BY <1>0, <3>1, ProductNat
    <3>3. \A at \in Arrivals : at < DueFigures[i].at * TicksPerSecond
      BY <1>0, <1>2, <3>1, <3>2 DEF FiguresInv
    <3>4. /\ \A at \in ToSet(acceptedAt) : at < DueFigures[i].at * TicksPerSecond
          /\ \A at \in ToSet(rejectedAt) : at < DueFigures[i].at * TicksPerSecond
      BY <3>3 DEF Arrivals
    <3>5. /\ ArrivedBefore(acceptedAt, DueFigures[i].at) = Len(acceptedAt)
          /\ ArrivedBefore(rejectedAt, DueFigures[i].at) = Len(rejectedAt)
      BY <1>0, <3>1, <3>4, AllArrived
    <3> QED
      BY <3>5 DEF FiguresInv
  <2>5. ActsIn(acts, "closed") = {}
    BY <1>2 DEF WindowInv
  <2>6. DueFigures \in Seq(Snapshots) /\ DOMAIN DueFigures = 1..Cardinality(Due)
    <3>1. DueFigures \in Seq(Snapshots) /\ Len(DueFigures) = Cardinality(Due)
      BY CaughtUpIs
    <3> QED
      BY <3>1
  <2>7. \A i \in DOMAIN DueFigures :
           /\ DueFigures[i].after = Len(accepted) /\ DueFigures[i].figures = Count(accepted)
           /\ DueFigures[i].after = ArrivedBefore(acceptedAt, DueFigures[i].at)
           /\ DueFigures[i].rejected = ArrivedBefore(rejectedAt, DueFigures[i].at)
    BY <2>2, <2>4, <2>6
  <2>8. Stood(CaughtUp, acts, accepted, acceptedAt, rejected, rejectedAt)
    <3>1. Stood(snapshots, acts, accepted, acceptedAt, rejected, rejectedAt)
          /\ snapshots \in Seq(Snapshots)
      BY DEF FiguresInv, TypeOK
    <3>2. Stood(snapshots \o DueFigures, acts, accepted, acceptedAt, rejected, rejectedAt)
      BY <1>0, <2>5, <2>6, <2>7, <3>1, StoodAfterBoundaries
    <3> QED
      BY <3>2, CaughtUpIs
  <2>9. Past(CaughtUp, clock)
    <3>1. /\ DOMAIN CaughtUp = 1..(Len(snapshots) + Cardinality(Due))
          /\ DOMAIN snapshots = 1..Len(snapshots)
          /\ Len(snapshots) \in Nat
          /\ \A i \in 1..Len(snapshots) : CaughtUp[i] = snapshots[i]
          /\ \A i \in 1..Cardinality(Due) : CaughtUp[Len(snapshots) + i] = DueFigures[i]
      <4>1. /\ CaughtUp \in Seq(Snapshots) /\ Len(CaughtUp) = Len(snapshots) + Cardinality(Due)
            /\ snapshots \in Seq(Snapshots)
        BY CaughtUpIs
      <4>2. DOMAIN CaughtUp = 1..Len(CaughtUp) /\ DOMAIN snapshots = 1..Len(snapshots)
        BY <4>1
      <4> QED
        BY <4>1, <4>2, CaughtUpIs
    <3>2. ASSUME NEW i \in DOMAIN CaughtUp
          PROVE  CaughtUp[i].at * TicksPerSecond <= clock
      <4>1. CASE i \in 1..Len(snapshots)
        BY <3>1, <4>1 DEF FiguresInv, Past
      <4>2. CASE i \notin 1..Len(snapshots)
        <5>1. i - Len(snapshots) \in 1..Cardinality(Due) /\ i = Len(snapshots) + (i - Len(snapshots))
          BY <1>0, <3>1, <4>2
        <5>2. CaughtUp[i] = DueFigures[i - Len(snapshots)]
          BY <3>1, <5>1
        <5> QED
          BY <2>3, <5>1, <5>2
      <4> QED
        BY <4>1, <4>2
    <3> QED
      BY <3>2 DEF Past
  <2>10. \A at \in Arrivals \union {clock} : at < BoundaryAfterCatchUp * TicksPerSecond
    <3>1. BoundaryAfterCatchUp \in Nat /\ Second + 1 <= BoundaryAfterCatchUp
      <4>1. BoundaryAfterCatchUp = nextBoundary + Cardinality(Due) * interval
        BY DEF BoundaryAfterCatchUp
      <4> QED
        BY <1>0, <2>1, <4>1, CaughtUpTypes
    <3>2. (Second + 1) * TicksPerSecond <= BoundaryAfterCatchUp * TicksPerSecond
      <4>1. Second + 1 \in Nat
        BY <1>0
      <4> QED
        BY <3>1, <4>1, InTicks, Zenon
    <3>3. /\ (Second + 1) * TicksPerSecond \in Nat
          /\ BoundaryAfterCatchUp * TicksPerSecond \in Nat
      BY <1>0, <3>1, ProductNat
    <3>4. \A at \in Arrivals \union {clock} : at \in Nat /\ at <= clock
      BY <1>0 DEF WindowInv
    <3> QED
      BY <1>0, <3>2, <3>3, <3>4
  <2> QED
    BY <2>8, <2>9, <2>10
<1> QED
  BY <1>1, <1>2

\* The record on disk goes on standing for a registry that does not change.
LEMMA RecordStands ==
    ASSUME TypeOK, FiguresInv, UNCHANGED <<accepted, rejected, acceptedAt, rejectedAt>>,
           clock' \in Nat, clock <= clock',
           record' # NoRecord => /\ record # NoRecord /\ record'.acts = record.acts
                                 /\ record'.snapshots = record.snapshots
    PROVE  record' # NoRecord =>
              /\ Stood(record'.snapshots, record'.acts, accepted', acceptedAt', rejected', rejectedAt')
              /\ Past(record'.snapshots, clock')
<1> SUFFICES ASSUME record' # NoRecord
             PROVE  /\ Stood(record'.snapshots, record'.acts, accepted', acceptedAt', rejected', rejectedAt')
                    /\ Past(record'.snapshots, clock')
  OBVIOUS
<1>1. record.snapshots \in Seq(Snapshots) /\ clock \in Nat
  BY DEF TypeOK, Records
<1>2. \A i \in DOMAIN record.snapshots : record.snapshots[i].at \in Nat
  BY <1>1, FigureTypes
<1>3. /\ Stood(record.snapshots, record.acts, accepted, acceptedAt, rejected, rejectedAt)
      /\ Past(record.snapshots, clock)
  BY DEF FiguresInv
<1>4. Past(record.snapshots, clock')
  BY <1>1, <1>2, <1>3, StaysPast
<1> QED
  BY <1>3, <1>4

\* A step that publishes, declares and records nothing.
LEMMA FiguresUntouched ==
    ASSUME TypeOK, FiguresInv,
           UNCHANGED <<accepted, rejected, acceptedAt, rejectedAt, acts, snapshots>>,
           ~isClosed' /\ interval' # 0 =>
              \A at \in Arrivals : at < nextBoundary' * TicksPerSecond,
           clock' \in Nat, clock <= clock',
           record' # NoRecord => /\ record # NoRecord /\ record'.acts = record.acts
                                 /\ record'.snapshots = record.snapshots
    PROVE  FiguresInv'
<1>1. record' # NoRecord =>
         /\ Stood(record'.snapshots, record'.acts, accepted', acceptedAt', rejected', rejectedAt')
         /\ Past(record'.snapshots, clock')
  BY RecordStands
<1>2. snapshots \in Seq(Snapshots) /\ clock \in Nat
  BY DEF TypeOK
<1>3. Past(snapshots, clock')
  <2>1. \A i \in DOMAIN snapshots : snapshots[i].at \in Nat
    BY <1>2, FigureTypes
  <2> QED
    BY <1>2, <2>1, StaysPast DEF FiguresInv
<1>4. /\ Len(acceptedAt') = Len(accepted') /\ Len(rejectedAt') = Len(rejected')
      /\ Stood(snapshots', acts', accepted', acceptedAt', rejected', rejectedAt')
      /\ Past(snapshots', clock')
  BY <1>3 DEF FiguresInv
<1>5. Arrivals' = Arrivals
  BY DEF Arrivals
<1>6. ~isClosed' /\ interval' # 0 => \A at \in Arrivals' : at < nextBoundary' * TicksPerSecond
  BY <1>5
<1> QED
  BY <1>1, <1>4, <1>6 DEF FiguresInv

\* Everything the registry is told between two figures.
LEMMA SubmitKeepsFigures ==
    ASSUME TypeOK, TypeOK', BoxInv, WindowInv, WindowInv', FiguresInv,
           NEW b \in Ballots, Submit(b)
    PROVE  FiguresInv'
<1> USE DEF boxVars, diskVars, historyVars
<1>0. /\ clock \in Nat /\ clock' = clock /\ Arrivals \in SUBSET Nat
      /\ accepted \in Seq(Ballots) /\ rejected \in Seq(Refusals)
      /\ acceptedAt \in Seq(Nat) /\ rejectedAt \in Seq(Nat)
      /\ snapshots' = CaughtUp /\ nextBoundary' = BoundaryAfterCatchUp
      /\ UNCHANGED <<acts, isClosed, interval, record>>
  BY ArrivalsType DEF TypeOK, Submit, CatchUp
<1>1. /\ Stood(CaughtUp, acts, accepted, acceptedAt, rejected, rejectedAt)
      /\ Past(CaughtUp, clock)
      /\ ~isClosed /\ interval # 0 =>
            \A at \in Arrivals \union {clock} : at < BoundaryAfterCatchUp * TicksPerSecond
  BY CaughtUpStands
<1>2. /\ Len(acceptedAt) = Len(accepted) /\ Len(rejectedAt) = Len(rejected)
  BY DEF FiguresInv
<1>3. CASE UNCHANGED <<accepted, rejected, acceptedAt, rejectedAt>>
  <2>1. record' # NoRecord =>
           /\ Stood(record'.snapshots, record'.acts, accepted', acceptedAt', rejected', rejectedAt')
           /\ Past(record'.snapshots, clock')
    BY <1>0, <1>3, RecordStands
  <2>2. Arrivals' = Arrivals
    BY <1>3 DEF Arrivals
  <2>3. Stood(snapshots', acts', accepted', acceptedAt', rejected', rejectedAt')
    BY <1>0, <1>1, <1>3
  <2>4. Past(snapshots', clock')
    BY <1>0, <1>1
  <2>5. ~isClosed' /\ interval' # 0 => \A at \in Arrivals' : at < nextBoundary' * TicksPerSecond
    BY <1>0, <1>1, <2>2
  <2> QED
    BY <1>2, <1>3, <2>1, <2>3, <2>4, <2>5 DEF FiguresInv
<1>4. CASE Opened /\ ~isClosed
  <2>0. record = NoRecord /\ ActsIn(acts, "closed") = {}
    BY <1>4 DEF BoxInv, WindowInv
  <2>1. CASE Verdict(b) = "accepted"
    <3>1. /\ accepted' = Append(accepted, b) /\ acceptedAt' = Append(acceptedAt, clock)
          /\ rejected' = rejected /\ rejectedAt' = rejectedAt
      BY <1>4, <2>1 DEF Submit, Accept
    <3>2. /\ Len(accepted') = Len(accepted) + 1 /\ Len(acceptedAt') = Len(acceptedAt) + 1
          /\ Len(accepted) \in Nat
      BY <1>0, <3>1
    <3>3. \A n \in Nat : n <= Len(accepted) =>
             n <= Len(accepted') /\ SubSeq(accepted', 1, n) = SubSeq(accepted, 1, n)
      BY <1>0, <3>1, <3>2, EarlierHashes DEF EntryHash
    <3>4. \A at \in Nat : at * TicksPerSecond <= clock =>
             /\ ArrivedBefore(acceptedAt', at) = ArrivedBefore(acceptedAt, at)
             /\ ArrivedBefore(rejectedAt', at) = ArrivedBefore(rejectedAt, at)
      BY <1>0, <3>1, ArrivesLater
    <3>5. CaughtUp \in Seq(Snapshots)
      BY CaughtUpTypes
    <3>6. Stood(CaughtUp, acts, accepted', acceptedAt', rejected', rejectedAt')
      BY <1>0, <1>1, <2>0, <3>3, <3>4, <3>5, StoodAfterEntry
    <3>7. Arrivals' \subseteq Arrivals \union {clock}
      BY ArrivalsAfterSubmit
    <3> QED
      BY <1>0, <1>1, <1>2, <2>0, <3>1, <3>2, <3>6, <3>7 DEF FiguresInv
  <2>2. CASE Verdict(b) # "accepted"
    <3> DEFINE refusal == [ballot |-> b, reason |-> Verdict(b)]
    <3>1. /\ rejected' = Append(rejected, refusal) /\ rejectedAt' = Append(rejectedAt, clock)
          /\ accepted' = accepted /\ acceptedAt' = acceptedAt
      BY <1>4, <2>2 DEF Submit, Refuse
    <3>2. refusal \in Refusals
      BY <2>2, VerdictIsReason DEF Refusals
    <3> HIDE DEF refusal
    <3>3. /\ Len(rejected') = Len(rejected) + 1 /\ Len(rejectedAt') = Len(rejectedAt) + 1
      BY <1>0, <3>1
    <3>4. \A n \in Nat : n <= Len(accepted) =>
             n <= Len(accepted') /\ SubSeq(accepted', 1, n) = SubSeq(accepted, 1, n)
      BY <3>1
    <3>5. \A at \in Nat : at * TicksPerSecond <= clock =>
             /\ ArrivedBefore(acceptedAt', at) = ArrivedBefore(acceptedAt, at)
             /\ ArrivedBefore(rejectedAt', at) = ArrivedBefore(rejectedAt, at)
      BY <1>0, <3>1, ArrivesLater
    <3>6. CaughtUp \in Seq(Snapshots)
      BY CaughtUpTypes
    <3>7. Stood(CaughtUp, acts, accepted', acceptedAt', rejected', rejectedAt')
      BY <1>0, <1>1, <2>0, <3>4, <3>5, <3>6, StoodAfterEntry
    <3>8. Arrivals' \subseteq Arrivals \union {clock}
      BY ArrivalsAfterSubmit
    <3> QED
      BY <1>0, <1>1, <1>2, <2>0, <3>1, <3>3, <3>7, <3>8 DEF FiguresInv
  <2> QED
    BY <2>1, <2>2
<1> QED
  BY <1>3, <1>4, ArrivalsAfterSubmit

\* The close: the boundaries that are due, then the figure of the close.
LEMMA CloseKeepsFigures ==
    ASSUME TypeOK, BoxInv, WindowInv, FiguresInv, Close
    PROVE  FiguresInv'
<1> USE DEF boxVars, diskVars, historyVars
<1>0. /\ clock \in Nat /\ clock' = clock /\ acts \in Seq(Acts)
      /\ accepted \in Seq(Ballots) /\ rejected \in Seq(Refusals)
      /\ snapshots' = Append(CaughtUp, Snapshot(Second)) /\ acts' = Append(acts, Act("closed"))
      /\ isClosed' = TRUE
      /\ UNCHANGED <<accepted, rejected, acceptedAt, rejectedAt>>
      /\ record' = record \/ record' = StoredState
  BY DEF TypeOK, Close, Archive
<1>1. /\ Stood(CaughtUp, acts, accepted, acceptedAt, rejected, rejectedAt)
      /\ Past(CaughtUp, clock)
  BY CaughtUpStands
<1>2. CaughtUp \in Seq(Snapshots) /\ Second \in Nat /\ Second * TicksPerSecond <= clock
  BY <1>0, CaughtUpTypes, SecondBounds
<1>3. /\ Snapshot(Second) \in Snapshots /\ Snapshot(Second).at = Second
      /\ Snapshot(Second).after = Len(accepted) /\ Snapshot(Second).rejected = Len(rejected)
      /\ Snapshot(Second).figures = Count(accepted)
  BY <1>2, SnapshotType DEF Snapshot
<1>4. Act("closed") \in Acts /\ Act("closed").phase = "closed"
  BY ActIs
<1>5. Stood(snapshots', acts', accepted, acceptedAt, rejected, rejectedAt)
  BY <1>0, <1>1, <1>2, <1>3, <1>4, StoodAfterClose
<1>6. Past(snapshots', clock)
  <2>1. \A figures \in Seq(Snapshots), last \in Snapshots :
           Past(figures, clock) /\ last.at * TicksPerSecond <= clock
              => Past(Append(figures, last), clock)
    <3> TAKE figures \in Seq(Snapshots), last \in Snapshots
    <3> SUFFICES ASSUME Past(figures, clock), last.at * TicksPerSecond <= clock
                 PROVE  Past(Append(figures, last), clock)
      OBVIOUS
    <3>1. /\ Len(figures) \in Nat
          /\ DOMAIN figures = 1..Len(figures)
          /\ DOMAIN Append(figures, last) = 1..(Len(figures) + 1)
          /\ \A i \in 1..Len(figures) : Append(figures, last)[i] = figures[i]
          /\ Append(figures, last)[Len(figures) + 1] = last
      OBVIOUS
    <3>2. \A i \in 1..(Len(figures) + 1) : i \in 1..Len(figures) \/ i = Len(figures) + 1
      BY <3>1
    <3> QED
      BY <3>1, <3>2 DEF Past
  <2> QED
    BY <1>0, <1>1, <1>2, <1>3, <2>1
<1>7. record' # NoRecord =>
         /\ Stood(record'.snapshots, record'.acts, accepted', acceptedAt', rejected', rejectedAt')
         /\ Past(record'.snapshots, clock')
  <2>1. CASE record' = record
    BY <1>0, <2>1, RecordStands
  <2>2. CASE record' = StoredState
    <3>1. record'.snapshots = snapshots' /\ record'.acts = acts'
      BY <2>2 DEF StoredState
    <3> QED
      BY <1>0, <1>5, <1>6, <3>1
  <2> QED
    BY <1>0, <2>1, <2>2
<1>8. /\ Len(acceptedAt') = Len(accepted') /\ Len(rejectedAt') = Len(rejected')
  BY <1>0 DEF FiguresInv
<1>9. Stood(snapshots', acts', accepted', acceptedAt', rejected', rejectedAt')
  BY <1>0, <1>5
<1> QED
  BY <1>0, <1>6, <1>7, <1>8, <1>9 DEF FiguresInv

\* Every step keeps the figures.
LEMMA FiguresInductive ==
    ASSUME TypeOK, TypeOK', BoxInv, WindowInv, WindowInv', FiguresInv, [Next]_vars
    PROVE  FiguresInv'
<1> USE DEF boxVars, diskVars, historyVars
<1>0. /\ clock \in Nat /\ clock' \in Nat /\ acts \in Seq(Acts)
      /\ Arrivals \in SUBSET Nat
  BY ArrivalsType DEF TypeOK
<1>o. ~Opened => Arrivals = {}
  BY DEF WindowInv, Within, Opened, ActsIn
<1>1. CASE Open
  <2>1. /\ acts' = Append(acts, Act("opened"))
        /\ UNCHANGED <<accepted, rejected, acceptedAt, rejectedAt, snapshots, clock, record>>
        /\ Arrivals = {} /\ Arrivals' = Arrivals
    BY <1>1, <1>o DEF Open, Arrivals
  <2>2. Act("opened") \in Acts /\ Act("opened").phase = "opened"
    BY ActIs
  <2>3. ActsIn(acts', "closed") = ActsIn(acts, "closed")
    BY <1>0, <2>1, <2>2, ActsInAppend
  <2>4. Stood(snapshots, acts', accepted, acceptedAt, rejected, rejectedAt)
    BY <2>3 DEF FiguresInv, Stood, BoundaryCount
  <2>5. record' # NoRecord =>
           /\ Stood(record'.snapshots, record'.acts, accepted', acceptedAt', rejected', rejectedAt')
           /\ Past(record'.snapshots, clock')
    BY <1>0, <2>1, RecordStands
  <2> QED
    BY <2>1, <2>4, <2>5 DEF FiguresInv
<1>2. ASSUME NEW s \in Intervals, SetPublicationInterval(s)
      PROVE  FiguresInv'
  <2>1. /\ UNCHANGED <<accepted, rejected, acceptedAt, rejectedAt, acts, snapshots, clock, record>>
        /\ Arrivals = {}
    BY <1>2, <1>o DEF SetPublicationInterval
  <2> QED
    BY <1>0, <2>1, FiguresUntouched
<1>3. ASSUME NEW b \in Ballots, Submit(b)
      PROVE  FiguresInv'
  BY <1>3, SubmitKeepsFigures
<1>4. CASE Read
  <2>1. /\ snapshots' = CaughtUp /\ nextBoundary' = BoundaryAfterCatchUp
        /\ UNCHANGED <<accepted, rejected, acceptedAt, rejectedAt, acts, isClosed, interval,
                       clock, record>>
        /\ Arrivals' = Arrivals
    BY <1>4 DEF Read, CatchUp, Arrivals
  <2>2. /\ Stood(CaughtUp, acts, accepted, acceptedAt, rejected, rejectedAt)
        /\ Past(CaughtUp, clock)
        /\ ~isClosed /\ interval # 0 =>
              \A at \in Arrivals \union {clock} : at < BoundaryAfterCatchUp * TicksPerSecond
    BY CaughtUpStands
  <2>3. record' # NoRecord =>
           /\ Stood(record'.snapshots, record'.acts, accepted', acceptedAt', rejected', rejectedAt')
           /\ Past(record'.snapshots, clock')
    BY <1>0, <2>1, RecordStands
  <2>4. /\ Stood(snapshots', acts', accepted', acceptedAt', rejected', rejectedAt')
        /\ Past(snapshots', clock')
    BY <2>1, <2>2
  <2>5. ~isClosed' /\ interval' # 0 => \A at \in Arrivals' : at < nextBoundary' * TicksPerSecond
    BY <2>1, <2>2
  <2>6. Len(acceptedAt') = Len(accepted') /\ Len(rejectedAt') = Len(rejected')
    BY <2>1 DEF FiguresInv
  <2> QED
    BY <2>3, <2>4, <2>5, <2>6 DEF FiguresInv
<1>5. CASE Close
  BY <1>5, CloseKeepsFigures
<1>6. CASE RecordAltered
  <2>1. record # NoRecord /\ record \in Records
    BY <1>6 DEF RecordAltered, TypeOK
  <2>2. record'.acts = record.acts /\ record'.snapshots = record.snapshots
    BY <1>6, <2>1 DEF RecordAltered, Records
  <2>3. /\ UNCHANGED <<accepted, rejected, acceptedAt, rejectedAt, acts, snapshots, isClosed,
                       interval, nextBoundary, clock>>
    BY <1>6 DEF RecordAltered
  <2>4. ~isClosed' /\ interval' # 0 => \A at \in Arrivals : at < nextBoundary' * TicksPerSecond
    BY <2>3 DEF FiguresInv
  <2> QED
    BY <1>0, <2>1, <2>2, <2>3, <2>4, FiguresUntouched
<1>7. CASE Reload
  <2>1. /\ record # NoRecord /\ acts' = record.acts /\ snapshots' = record.snapshots
        /\ isClosed' = TRUE
        /\ UNCHANGED <<record, clock, acceptedAt, rejectedAt>>
    BY <1>7 DEF Reload, Reproducible
  <2>2. accepted' = accepted /\ rejected' = rejected
    BY <1>7, ReloadFindsTheRegistry
  <2> QED
    BY <2>1, <2>2 DEF FiguresInv
<1>8. CASE Tick
  <2>1. /\ clock' = clock + 1
        /\ UNCHANGED <<accepted, rejected, acceptedAt, rejectedAt, acts, snapshots, isClosed,
                       interval, nextBoundary, record>>
    BY <1>8 DEF Tick
  <2>2. ~isClosed' /\ interval' # 0 => \A at \in Arrivals : at < nextBoundary' * TicksPerSecond
    BY <2>1 DEF FiguresInv
  <2> QED
    BY <1>0, <2>1, <2>2, FiguresUntouched
<1>9. CASE UNCHANGED vars
  <2>1. UNCHANGED <<accepted, rejected, acceptedAt, rejectedAt, acts, snapshots, isClosed,
                    interval, nextBoundary, record, clock>>
    BY <1>9 DEF vars
  <2>2. ~isClosed' /\ interval' # 0 => \A at \in Arrivals : at < nextBoundary' * TicksPerSecond
    BY <2>1 DEF FiguresInv
  <2> QED
    BY <1>0, <2>1, <2>2, FiguresUntouched
<1> QED
  BY <1>1, <1>2, <1>3, <1>4, <1>5, <1>6, <1>7, <1>8, <1>9 DEF Next

\* The invariant of the figures holds in every reachable state.
THEOREM FiguresInvariant == Spec => []FiguresInv
<1>1. Init => FiguresInv
  <2> SUFFICES ASSUME Init
               PROVE  FiguresInv
    OBVIOUS
  <2>1. /\ acts = <<>> /\ snapshots = <<>> /\ record = NoRecord
        /\ accepted = <<>> /\ rejected = <<>>
        /\ acceptedAt = <<>> /\ rejectedAt = <<>>
    BY DEF Init
  <2>2. ActsIn(acts, "closed") = {} /\ Past(snapshots, clock) /\ Arrivals = {}
    BY <2>1 DEF ActsIn, Past, Arrivals, ToSet
  <2>3. snapshots \in Seq(Snapshots) /\ Len(snapshots) = 0 /\ DOMAIN snapshots = {}
    BY <2>1
  <2>4. BoundaryCount(snapshots, acts) = 0 /\ Cardinality(ActsIn(acts, "closed")) = 0
    BY <2>2, <2>3, AllBoundaries
  <2>5. Stood(snapshots, acts, accepted, acceptedAt, rejected, rejectedAt)
    BY <2>3, <2>4 DEF Stood
  <2> QED
    BY <2>1, <2>2, <2>5 DEF FiguresInv
<1>2. TypeOK /\ TypeOK' /\ BoxInv /\ WindowInv /\ WindowInv' /\ FiguresInv /\ [Next]_vars
         => FiguresInv'
  BY FiguresInductive
<1> QED
  BY <1>1, <1>2, BoxTypeCorrect, BoxInvariant, WindowInvariant, PTL DEF Spec

\* However late and however often the box is read, a figure shows what had
\* arrived by its own instant, and the close shows everything (`_catch_up`
\* publishes with the registry as it stands when somebody notices).
THEOREM FiguresStand == Spec => []PublishedAsItStood
<1>1. FiguresInv => PublishedAsItStood
  <2> SUFFICES ASSUME FiguresInv
               PROVE  PublishedAsItStood
    OBVIOUS
  <2>1. Boundaries = 1..BoundaryCount(snapshots, acts)
    BY DEF Boundaries, BoundaryCount, ActsOf, ActsIn
  <2>2. Stood(snapshots, acts, accepted, acceptedAt, rejected, rejectedAt)
    BY DEF FiguresInv
  <2> QED
    BY <2>1, <2>2 DEF PublishedAsItStood, Stood, ArrivedBefore
<1> QED
  BY <1>1, FiguresInvariant, PTL

(***************************************************************************)
(* The cadence.                                                            *)
(***************************************************************************)

\* An interval more, and what lies between two multiples.
LEMMA MultiplesAdd ==
    ASSUME NEW d \in Nat
    PROVE  /\ \A a, b \in Nat : a * d + b * d = (a + b) * d
           /\ \A a, b \in Nat : d * a + b * d = d * (a + b)
           /\ \A a \in Nat : d * a = a * d
OBVIOUS

\* How many figures are boundaries', and what the log's instants are.
LEMMA BoundaryCountType ==
    ASSUME NEW figures \in Seq(Snapshots), NEW log \in Seq(Acts),
           Cardinality(ActsIn(log, "closed")) <= Len(figures)
    PROVE  BoundaryCount(figures, log) \in 0..Len(figures)
<1>1. Len(figures) \in Nat
  OBVIOUS
<1>2. Cardinality(ActsIn(log, "closed")) \in Nat
  BY ActsInType, FS_CardinalityType
<1> QED
  BY <1>1, <1>2 DEF BoundaryCount

\* Catching up continues the series.
LEMMA CaughtUpInStep ==
    ASSUME TypeOK, WindowInv, Opened,
           NEW before \in 0..Len(snapshots),
           InStep(snapshots, acts, interval, before),
           ~isClosed => Continues(snapshots, acts, interval, before, nextBoundary, Second)
    PROVE  /\ Len(snapshots) <= Len(CaughtUp)
           /\ InStep(CaughtUp, acts, interval, before)
           /\ ~isClosed =>
                 Continues(CaughtUp, acts, interval, before, BoundaryAfterCatchUp, Second)
<1> DEFINE o == Instant(acts, "opened")
           k == Cardinality(Due)
<1>0. /\ interval \in Nat /\ nextBoundary \in Nat /\ Second \in Nat /\ k \in Nat
      /\ snapshots \in Seq(Snapshots) /\ Len(snapshots) \in Nat /\ acts \in Seq(Acts)
      /\ CaughtUp \in Seq(Snapshots)
  BY SecondType, DueFinite, CaughtUpIs, BoxConstantsOK DEF TypeOK
<1>1. o \in Nat
  <2>1. ActsIn(acts, "opened") # {}
    BY DEF Opened, ActsIn
  <2> QED
    BY <1>0, <2>1, ActsInType
<1>2. CASE isClosed \/ interval = 0
  <2>1. CaughtUp = snapshots /\ BoundaryAfterCatchUp = nextBoundary
    BY <1>2, CaughtUpIs
  <2> QED
    BY <1>0, <2>1
<1>3. CASE ~isClosed /\ interval # 0
  <2>1. ActsIn(acts, "closed") = {}
    BY <1>3 DEF WindowInv
  <2> DEFINE n == Len(snapshots) - before
  <2>2. n \in Nat /\ Len(CaughtUp) = Len(snapshots) + k /\ before + n = Len(snapshots)
    BY <1>0, CaughtUpIs
  <2>3. /\ BoundaryCount(snapshots, acts) = Len(snapshots)
        /\ BoundaryCount(CaughtUp, acts) = Len(snapshots) + k
    BY <1>0, <2>1, <2>2, AllBoundaries
  <2>4. /\ nextBoundary = o + interval * (n + 1)
        /\ o + interval * n <= Second
    BY <1>3, <2>3 DEF Continues
  <2>5. /\ \A i \in 1..before : snapshots[i].at <= o
        /\ \A i \in (before + 1)..Len(snapshots) : snapshots[i].at = o + interval * (i - before)
    BY <2>3 DEF InStep
  <2>6. /\ \A i \in 1..Len(snapshots) : CaughtUp[i] = snapshots[i]
        /\ \A i \in 1..k : CaughtUp[Len(snapshots) + i].at = nextBoundary + (i - 1) * interval
    <3>1. /\ \A i \in 1..Len(snapshots) : CaughtUp[i] = snapshots[i]
          /\ \A i \in 1..k : CaughtUp[Len(snapshots) + i] = Snapshot(nextBoundary + (i - 1) * interval)
      BY CaughtUpIs
    <3>2. \A at : Snapshot(at).at = at
      BY DEF Snapshot
    <3> QED
      BY <3>1, <3>2
  <2>7. /\ \A i \in 1..k : nextBoundary + (i - 1) * interval <= Second
        /\ BoundaryAfterCatchUp = nextBoundary + k * interval
    BY <1>3, DueCounted DEF BoundaryAfterCatchUp
  <2> HIDE DEF o, k, n
  <2>n. /\ before \in Nat /\ n \in Nat /\ k \in Nat /\ Len(snapshots) \in Nat
        /\ before + n = Len(snapshots)
    BY <1>0, <2>2
  <2>8. ASSUME NEW m \in Nat
        PROVE  nextBoundary + m * interval = o + interval * (n + 1 + m)
    <3>1. interval * (n + 1) + m * interval = interval * (n + 1 + m)
      <4>1. n + 1 \in Nat
        BY <2>2
      <4> QED
        BY <1>0, <4>1, MultiplesAdd
    <3>2. interval * (n + 1) \in Nat /\ m * interval \in Nat
      BY <1>0, <2>2, ProductNat
    <3> QED
      BY <1>1, <2>4, <3>1, <3>2
  <2>9. \A i \in (before + 1)..(Len(snapshots) + k) :
           CaughtUp[i].at = o + interval * (i - before)
    <3> TAKE i \in (before + 1)..(Len(snapshots) + k)
    <3>1. CASE i <= Len(snapshots)
      BY <1>0, <2>5, <2>6, <3>1
    <3>2. CASE i > Len(snapshots)
      <4> DEFINE j == i - Len(snapshots)
      <4>1. j \in 1..k /\ i = Len(snapshots) + j /\ j - 1 \in Nat
        BY <1>0, <3>2
      <4>2. n + 1 + (j - 1) = i - before
        BY <2>n, <4>1
      <4>3. nextBoundary + (j - 1) * interval = o + interval * (n + 1 + (j - 1))
        BY <2>8, <4>1
      <4>4. CaughtUp[i].at = nextBoundary + (j - 1) * interval
        BY <2>6, <4>1
      <4> QED
        BY <4>2, <4>3, <4>4
    <3> QED
      BY <1>0, <3>1, <3>2
  <2>10. InStep(CaughtUp, acts, interval, before)
    <3>1. \A i \in 1..before : CaughtUp[i].at <= o
      <4>1. \A i \in 1..before : i \in 1..Len(snapshots)
        BY <1>0
      <4>2. /\ \A i \in 1..before : snapshots[i].at <= o
            /\ \A i \in 1..Len(snapshots) : CaughtUp[i] = snapshots[i]
        BY <2>5, <2>6, Zenon
      <4> QED
        BY <4>1, <4>2, Zenon
    <3>2. before \in 0..(Len(snapshots) + k)
      BY <1>0
    <3> QED
      BY <1>3, <2>1, <2>3, <2>9, <3>1, <3>2 DEF InStep, o
  <2>11. (Len(snapshots) + k) - before = n + k
    BY <2>n
  <2>12. BoundaryAfterCatchUp = o + interval * (n + k + 1)
    <3>1. nextBoundary + k * interval = o + interval * (n + 1 + k)
      BY <1>0, <2>8
    <3>2. n + 1 + k = n + k + 1
      BY <2>n
    <3> QED
      BY <2>7, <3>1, <3>2
  <2>13. o + interval * (n + k) <= Second
    <3>1. CASE k = 0
      BY <2>2, <2>4, <3>1
    <3>2. CASE k # 0
      <4>1. k \in 1..k /\ k - 1 \in Nat
        BY <1>0, <3>2
      <4>2. nextBoundary + (k - 1) * interval = o + interval * (n + 1 + (k - 1))
        BY <2>8, <4>1
      <4>3. n + 1 + (k - 1) = n + k
        BY <2>n
      <4> QED
        BY <2>7, <4>1, <4>2, <4>3
    <3> QED
      BY <3>1, <3>2
  <2>14. Continues(CaughtUp, acts, interval, before, BoundaryAfterCatchUp, Second)
    BY <2>3, <2>11, <2>12, <2>13 DEF Continues, o
  <2> QED
    BY <1>0, <2>2, <2>10, <2>14
<1> QED
  BY <1>2, <1>3

\* The close ends the series with the figure of the close, and finds none missing.
LEMMA CloseInStep ==
    ASSUME TypeOK, WindowInv, FiguresInv, Opened, Close,
           NEW before \in 0..Len(snapshots),
           InStep(snapshots, acts, interval, before),
           ~isClosed => Continues(snapshots, acts, interval, before, nextBoundary, Second)
    PROVE  InStep(snapshots', acts', interval, before) /\ before \in 0..Len(snapshots')
<1> DEFINE e == Act("closed")
           last == Snapshot(Second)
           o == Instant(acts, "opened")
           b == BoundaryCount(CaughtUp, acts)
<1>0. /\ interval \in Nat /\ Second \in Nat
      /\ snapshots \in Seq(Snapshots) /\ Len(snapshots) \in Nat /\ acts \in Seq(Acts)
      /\ CaughtUp \in Seq(Snapshots) /\ Len(CaughtUp) \in Nat
      /\ accepted \in Seq(Ballots) /\ rejected \in Seq(Refusals)
  BY SecondType, CaughtUpIs, BoxConstantsOK DEF TypeOK
<1>1. e \in Acts /\ e.phase = "closed" /\ e.at = Second
  BY ActIs
<1>2. /\ last \in Snapshots /\ last.after = Len(accepted) /\ last.rejected = Len(rejected)
      /\ last.figures = Count(accepted)
  BY <1>0, SnapshotType DEF Snapshot
<1>3. acts' = Append(acts, e) /\ snapshots' = Append(CaughtUp, last)
  BY DEF Close
<1> HIDE DEF e, last
<1>4. /\ InStep(CaughtUp, acts, interval, before)
      /\ ~isClosed =>
            Continues(CaughtUp, acts, interval, before, BoundaryAfterCatchUp, Second)
      /\ Len(snapshots) <= Len(CaughtUp)
  BY CaughtUpInStep
<1>5. Stood(CaughtUp, acts, accepted, acceptedAt, rejected, rejectedAt)
  BY CaughtUpStands
<1>6. BoundaryCount(snapshots', acts') = b
  BY <1>0, <1>1, <1>2, <1>3, <1>5, StoodAfterClose
<1>7. b \in 0..Len(CaughtUp)
  BY <1>0, <1>5, BoundaryCountType DEF Stood
<1>8. ActsIn(acts, "opened") # {}
  BY DEF Opened, ActsIn
<1>9. /\ FirstIn(acts', "opened") = FirstIn(acts, "opened")
      /\ Instant(acts', "opened") = o
      /\ o \in Nat /\ FirstIn(acts, "opened") \in 1..Len(acts)
  BY <1>0, <1>1, <1>3, <1>8, FirstInAppend, ActsInType
<1>10. \A i \in 1..b : snapshots'[i] = CaughtUp[i]
  BY <1>0, <1>2, <1>3, <1>7
<1>11. Len(snapshots') = Len(CaughtUp) + 1
  BY <1>0, <1>2, <1>3
<1>12. /\ before \in 0..b
       /\ \A i \in 1..before : CaughtUp[i].at <= o
       /\ \A i \in (before + 1)..b : CaughtUp[i].at = o + interval * (i - before)
       /\ before < b => interval # 0
       /\ ActsIn(acts, "closed") # {} /\ interval # 0
             /\ FirstIn(acts, "opened") < FirstIn(acts, "closed")
             => b - before = (Instant(acts, "closed") - o) \div interval
  BY <1>4 DEF InStep
<1> HIDE DEF b, o
<1>13. /\ \A i \in 1..before : snapshots'[i].at <= o
       /\ \A i \in (before + 1)..b : snapshots'[i].at = o + interval * (i - before)
  <2>1. /\ \A i \in 1..before : i \in 1..b
        /\ \A i \in (before + 1)..b : i \in 1..b
    BY <1>0, <1>7, <1>12
  <2> QED
    BY <1>10, <1>12, <2>1
<1>14. ActsIn(acts', "closed") # {} /\ interval # 0
          /\ FirstIn(acts', "opened") < FirstIn(acts', "closed")
          => b - before = (Instant(acts', "closed") - o) \div interval
  <2>1. CASE ActsIn(acts, "closed") # {}
    <3>1. /\ FirstIn(acts', "closed") = FirstIn(acts, "closed")
          /\ Instant(acts', "closed") = Instant(acts, "closed")
      BY <1>0, <1>1, <1>3, <2>1, FirstInAppend
    <3> QED
      BY <1>9, <1>12, <2>1, <3>1
  <2>2. CASE ActsIn(acts, "closed") = {}
    <3> SUFFICES ASSUME interval # 0
                 PROVE  b - before = (Instant(acts', "closed") - o) \div interval
      OBVIOUS
    <3>1. Instant(acts', "closed") = Second
      BY <1>0, <1>1, <1>3, <2>2, FirstInAppend
    <3>2. ~isClosed
      BY <2>2 DEF WindowInv
    <3> DEFINE n == b - before
    <3>3. n \in Nat
      BY <1>0, <1>7, <1>12
    <3>4. /\ BoundaryAfterCatchUp = o + interval * (n + 1)
          /\ o + interval * n <= Second
      BY <1>4, <3>2 DEF Continues, b, o
    <3>5. Second < BoundaryAfterCatchUp
      BY <3>2, DueCounted DEF BoundaryAfterCatchUp
    <3> HIDE DEF n
    <3>6. /\ interval * n = n * interval /\ interval * (n + 1) = (n + 1) * interval
          /\ n * interval \in Nat /\ (n + 1) * interval \in Nat
      BY <1>0, <3>3, ProductNat, MultiplesAdd
    <3>7. /\ Second - o \in Nat /\ n * interval <= Second - o /\ Second - o < (n + 1) * interval
      BY <1>0, <1>9, <3>4, <3>5, <3>6
    <3>8. (Second - o) \div interval = n
      <4>1. interval > 0
        BY <1>0
      <4> QED
        BY <1>0, <3>3, <3>7, <4>1, Multiples
    <3> QED
      BY <3>1, <3>8 DEF n
  <2> QED
    BY <2>1, <2>2
<1>15. before \in 0..Len(snapshots')
  BY <1>0, <1>4, <1>11
<1>16. InStep(snapshots', acts', interval, before)
  BY <1>6, <1>9, <1>12, <1>13, <1>14 DEF InStep
<1> QED
  BY <1>15, <1>16

\* A step that publishes and declares nothing, and may let time pass.
LEMMA CadenceUntouched ==
    ASSUME TypeOK, CadenceInv, UNCHANGED <<acts, snapshots, isClosed, interval, nextBoundary>>,
           clock' \in Nat, clock <= clock',
           record' # NoRecord => /\ record # NoRecord /\ record'.acts = record.acts
                                 /\ record'.snapshots = record.snapshots
    PROVE  CadenceInv'
<1>1. Opened' <=> Opened
  BY DEF Opened
<1>2. Second <= Second' /\ Second \in Nat /\ Second' \in Nat
  <2>1. \A c, d, t \in Nat : t > 0 /\ c <= d
           => c \div t \in Nat /\ d \div t \in Nat /\ c \div t <= d \div t
    <3> SUFFICES ASSUME NEW c \in Nat, NEW d \in Nat, NEW t \in Nat, t > 0, c <= d
                 PROVE  c \div t \in Nat /\ d \div t \in Nat /\ c \div t <= d \div t
      OBVIOUS
    <3> DEFINE p == c \div t
               q == d \div t
    <3>1. p \in Nat /\ p * t <= c /\ q \in Nat /\ d < (q + 1) * t
      BY Multiples
    <3> HIDE DEF p, q
    <3>2. p * t \in Nat /\ (q + 1) * t \in Nat
      BY <3>1, ProductNat
    <3>3. ~(q + 1 <= p)
      <4>1. q + 1 <= p => (q + 1) * t <= p * t
        BY <3>1, Multiples
      <4> QED
        BY <3>1, <3>2, <4>1
    <3>4. p <= q
      BY <3>1, <3>3
    <3> QED
      BY <3>1, <3>4 DEF p, q
  <2>2. clock \in Nat /\ TicksPerSecond \in Nat /\ TicksPerSecond > 0
    BY BoxConstantsOK DEF TypeOK
  <2> QED
    BY <2>1, <2>2 DEF Second
<1>3. ASSUME Opened'
      PROVE  \E before \in 0..Len(snapshots') :
                /\ InStep(snapshots', acts', interval', before)
                /\ ~isClosed' => Continues(snapshots', acts', interval', before, nextBoundary', Second')
  <2>1. PICK before \in 0..Len(snapshots) :
           /\ InStep(snapshots, acts, interval, before)
           /\ ~isClosed => Continues(snapshots, acts, interval, before, nextBoundary, Second)
    BY <1>1, <1>3 DEF CadenceInv
  <2>2. ASSUME ~isClosed
        PROVE  Continues(snapshots, acts, interval, before, nextBoundary, Second')
    <3> DEFINE n == BoundaryCount(snapshots, acts) - before
               o == Instant(acts, "opened")
    <3>1. nextBoundary = o + interval * (n + 1) /\ o + interval * n <= Second
      BY <2>1, <2>2 DEF Continues
    <3>2. o \in Nat /\ interval * n \in Int
      <4>1. ActsIn(acts, "opened") # {} /\ acts \in Seq(Acts)
        BY <1>1, <1>3 DEF Opened, ActsIn, TypeOK
      <4>2. o \in Nat
        BY <4>1, ActsInType
      <4>3. n \in Nat
        <5>1. before \in 0..BoundaryCount(snapshots, acts)
          BY <2>1 DEF InStep
        <5>2. snapshots \in Seq(Snapshots) /\ Len(snapshots) \in Nat
          BY DEF TypeOK
        <5>3. BoundaryCount(snapshots, acts) \in Int
          <6>1. Cardinality(ActsIn(acts, "closed")) \in Nat
            BY <4>1, ActsInType, FS_CardinalityType
          <6> QED
            BY <5>2, <6>1 DEF BoundaryCount
        <5> QED
          BY <5>1, <5>3
      <4>4. interval \in Nat
        BY BoxConstantsOK DEF TypeOK
      <4>5. interval * n \in Nat
        BY <4>3, <4>4, ProductNat
      <4> QED
        BY <4>2, <4>5
    <3> HIDE DEF n, o
    <3>3. o + interval * n <= Second'
      BY <1>2, <3>1, <3>2
    <3> QED
      BY <3>1, <3>3 DEF Continues, n, o
  <2> QED
    BY <2>1, <2>2
<1>4. ASSUME record' # NoRecord, ActsIn(record'.acts, "opened") # {}
      PROVE  /\ Opened'
             /\ \E before \in 0..Len(record'.snapshots) :
                   InStep(record'.snapshots, record'.acts, interval', before)
  BY <1>1, <1>4 DEF CadenceInv
<1> QED
  BY <1>3, <1>4 DEF CadenceInv

\* A step that only catches up.
LEMMA CatchUpKeepsCadence ==
    ASSUME TypeOK, WindowInv, CadenceInv, CatchUp,
           UNCHANGED <<acts, isClosed, interval, clock, record>>
    PROVE  CadenceInv'
<1>1. /\ snapshots' = CaughtUp /\ nextBoundary' = BoundaryAfterCatchUp
      /\ Second' = Second /\ (Opened' <=> Opened)
  BY DEF CatchUp, Second, Opened
<1>2. ASSUME Opened'
      PROVE  \E before \in 0..Len(snapshots') :
                /\ InStep(snapshots', acts', interval', before)
                /\ ~isClosed' => Continues(snapshots', acts', interval', before, nextBoundary', Second')
  <2>1. PICK before \in 0..Len(snapshots) :
           /\ InStep(snapshots, acts, interval, before)
           /\ ~isClosed => Continues(snapshots, acts, interval, before, nextBoundary, Second)
    BY <1>1, <1>2 DEF CadenceInv
  <2>2. /\ Len(snapshots) <= Len(CaughtUp)
        /\ InStep(CaughtUp, acts, interval, before)
        /\ ~isClosed => Continues(CaughtUp, acts, interval, before, BoundaryAfterCatchUp, Second)
    BY <1>1, <1>2, <2>1, CaughtUpInStep
  <2>3. before \in 0..Len(CaughtUp)
    <3>1. Len(CaughtUp) \in Nat /\ Len(snapshots) \in Nat
      BY CaughtUpIs
    <3> QED
      BY <2>2, <3>1
  <2>4. before \in 0..Len(snapshots')
    BY <1>1, <2>3
  <2> QED
    BY <1>1, <2>2, <2>4
<1>3. ASSUME record' # NoRecord, ActsIn(record'.acts, "opened") # {}
      PROVE  /\ Opened'
             /\ \E before \in 0..Len(record'.snapshots) :
                   InStep(record'.snapshots, record'.acts, interval', before)
  BY <1>1, <1>3 DEF CadenceInv
<1> QED
  BY <1>2, <1>3 DEF CadenceInv

\* The act that opens the poll starts a series.
LEMMA OpenKeepsCadence ==
    ASSUME TypeOK, WindowInv, FiguresInv, CadenceInv, Open
    PROVE  CadenceInv'
<1> USE DEF boxVars, diskVars, historyVars
<1> DEFINE before == BoundaryCount(snapshots, acts)
<1>0. /\ acts \in Seq(Acts) /\ snapshots \in Seq(Snapshots) /\ Len(snapshots) \in Nat
      /\ interval \in Nat /\ clock \in Nat
  BY BoxConstantsOK DEF TypeOK
<1>1. /\ acts' = Append(acts, Act("opened")) /\ nextBoundary' = Second + interval
      /\ UNCHANGED <<snapshots, isClosed, interval, clock, record>>
      /\ ActsIn(acts, "opened") = {}
  BY DEF Open, Opened, ActsIn
<1>2. Act("opened") \in Acts /\ Act("opened").phase = "opened" /\ Act("opened").at = Second
  BY ActIs
<1>3. /\ FirstIn(acts', "opened") = Len(acts) + 1
      /\ Instant(acts', "opened") = Second
      /\ ActsIn(acts', "closed") = ActsIn(acts, "closed")
  <2>1. /\ FirstIn(acts', "opened") = Len(acts) + 1
        /\ Instant(acts', "opened") = Second
    BY <1>0, <1>1, <1>2, FirstInAppend
  <2>2. ActsIn(acts', "closed") = ActsIn(acts, "closed")
    BY <1>0, <1>1, <1>2, ActsInAppend
  <2> QED
    BY <2>1, <2>2
<1>4. /\ BoundaryCount(snapshots, acts') = before
      /\ before \in 0..Len(snapshots)
  <2>1. Cardinality(ActsIn(acts, "closed")) <= Len(snapshots)
    BY DEF FiguresInv, Stood
  <2> QED
    BY <1>0, <1>3, <2>1, BoundaryCountType DEF BoundaryCount
<1>5. \A i \in 1..before : snapshots[i].at <= Second
  <2> TAKE i \in 1..before
  <2>1. i \in DOMAIN snapshots
    BY <1>0, <1>4
  <2>2. snapshots[i].at * TicksPerSecond <= clock /\ snapshots[i].at \in Nat
    BY <1>0, <2>1, FigureTypes DEF FiguresInv, Past
  <2>3. Second \in Nat /\ clock < (Second + 1) * TicksPerSecond
    BY <1>0, SecondBounds
  <2>4. TicksPerSecond \in Nat /\ TicksPerSecond > 0
    BY BoxConstantsOK
  <2>5. ~(Second + 1 <= snapshots[i].at)
    <3>1. Second + 1 <= snapshots[i].at
             => (Second + 1) * TicksPerSecond <= snapshots[i].at * TicksPerSecond
      <4>1. Second + 1 \in Nat
        BY <2>3
      <4> QED
        BY <2>2, <4>1, InTicks
    <3>2. /\ (Second + 1) * TicksPerSecond \in Nat
          /\ snapshots[i].at * TicksPerSecond \in Nat
      BY <2>2, <2>3, <2>4, ProductNat
    <3> QED
      BY <1>0, <2>2, <2>3, <3>1, <3>2
  <2> QED
    BY <2>2, <2>3, <2>5
<1>6. ActsIn(acts', "closed") # {} => ~(FirstIn(acts', "opened") < FirstIn(acts', "closed"))
  <2> SUFFICES ASSUME ActsIn(acts', "closed") # {}
               PROVE  ~(FirstIn(acts', "opened") < FirstIn(acts', "closed"))
    OBVIOUS
  <2>1. FirstIn(acts', "closed") = FirstIn(acts, "closed")
    BY <1>0, <1>1, <1>2, <1>3, FirstInAppend
  <2>2. FirstIn(acts, "closed") \in 1..Len(acts) /\ Len(acts) \in Nat
    BY <1>0, <1>3, ActsInType
  <2> QED
    BY <1>3, <2>1, <2>2
<1> HIDE DEF before
<1>7. InStep(snapshots, acts', interval, before)
  <2>1. before \in Nat
    BY <1>0, <1>4
  <2>2. (before + 1)..before = {} /\ before \in 0..before /\ ~(before < before)
    BY <2>1
  <2> QED
    BY <1>3, <1>4, <1>5, <1>6, <2>2 DEF InStep
<1>8. Continues(snapshots, acts', interval, before, Second + interval, Second)
  <2>1. before - before = 0 /\ interval * 0 = 0 /\ interval * (0 + 1) = interval
    BY <1>0, <1>4
  <2>2. Second \in Nat /\ Second + 0 = Second /\ Second <= Second
    BY <1>0, SecondBounds
  <2> QED
    BY <1>3, <1>4, <2>1, <2>2 DEF Continues
<1>9. Second' = Second
  BY <1>1 DEF Second
<1>10. record' # NoRecord => ActsIn(record'.acts, "opened") = {}
  BY <1>1 DEF CadenceInv, Open
<1>11. /\ before \in 0..Len(snapshots')
       /\ InStep(snapshots', acts', interval', before)
       /\ Continues(snapshots', acts', interval', before, nextBoundary', Second')
  BY <1>1, <1>4, <1>7, <1>8, <1>9
<1> QED
  BY <1>10, <1>11 DEF CadenceInv

\* The close.
LEMMA CloseKeepsCadence ==
    ASSUME TypeOK, WindowInv, FiguresInv, CadenceInv, Close
    PROVE  CadenceInv'
<1> USE DEF boxVars, diskVars, historyVars
<1>1. /\ acts' = Append(acts, Act("closed")) /\ isClosed' = TRUE /\ interval' = interval
      /\ record' = record \/ record' = StoredState
      /\ acts \in Seq(Acts)
  BY DEF Close, Archive, TypeOK
<1>2. Act("closed") \in Acts /\ Act("closed").phase = "closed"
  BY ActIs
<1>3. ActsIn(acts', "opened") = ActsIn(acts, "opened")
  BY <1>1, <1>2, ActsInAppend
<1>4. (Opened <=> ActsIn(acts, "opened") # {}) /\ (Opened' <=> ActsIn(acts', "opened") # {})
  BY DEF Opened, ActsIn
<1>5. ASSUME Opened'
      PROVE  \E before \in 0..Len(snapshots') : InStep(snapshots', acts', interval, before)
  <2>1. Opened
    BY <1>3, <1>4, <1>5
  <2>2. PICK before \in 0..Len(snapshots) :
           /\ InStep(snapshots, acts, interval, before)
           /\ ~isClosed => Continues(snapshots, acts, interval, before, nextBoundary, Second)
    BY <2>1 DEF CadenceInv
  <2>3. InStep(snapshots', acts', interval, before) /\ before \in 0..Len(snapshots')
    BY <2>1, <2>2, CloseInStep
  <2> QED
    BY <2>3
<1>6. ASSUME record' # NoRecord, ActsIn(record'.acts, "opened") # {}
      PROVE  /\ Opened'
             /\ \E before \in 0..Len(record'.snapshots) :
                   InStep(record'.snapshots, record'.acts, interval, before)
  <2>1. CASE record' = record
    BY <1>3, <1>4, <1>6, <2>1 DEF CadenceInv
  <2>2. CASE record' = StoredState
    <3>1. record'.acts = acts' /\ record'.snapshots = snapshots'
      BY <2>2 DEF StoredState
    <3> QED
      BY <1>4, <1>5, <1>6, <3>1
  <2> QED
    BY <1>1, <2>1, <2>2
<1> QED
  BY <1>1, <1>5, <1>6 DEF CadenceInv

\* Every step keeps the cadence.
LEMMA CadenceInductive ==
    ASSUME TypeOK, TypeOK', WindowInv, FiguresInv, CadenceInv, [Next]_vars
    PROVE  CadenceInv'
<1> USE DEF boxVars, diskVars, historyVars
<1>0. clock \in Nat /\ clock' \in Nat
  BY DEF TypeOK
<1>1. CASE Open
  BY <1>1, OpenKeepsCadence
<1>2. ASSUME NEW s \in Intervals, SetPublicationInterval(s)
      PROVE  CadenceInv'
  <2>1. ~Opened /\ UNCHANGED <<acts, record>>
    BY <1>2 DEF SetPublicationInterval
  <2>2. ~Opened'
    BY <2>1 DEF Opened
  <2>3. record' # NoRecord => ActsIn(record'.acts, "opened") = {}
    BY <2>1 DEF CadenceInv
  <2> QED
    BY <2>2, <2>3 DEF CadenceInv
<1>3. ASSUME NEW b \in Ballots, Submit(b)
      PROVE  CadenceInv'
  <2>1. CatchUp /\ UNCHANGED <<acts, isClosed, interval, clock, record>>
    BY <1>3 DEF Submit
  <2> QED
    BY <2>1, CatchUpKeepsCadence
<1>4. CASE Read
  <2>1. CatchUp /\ UNCHANGED <<acts, isClosed, interval, clock, record>>
    BY <1>4 DEF Read
  <2> QED
    BY <2>1, CatchUpKeepsCadence
<1>5. CASE Close
  BY <1>5, CloseKeepsCadence
<1>6. CASE RecordAltered
  <2>1. record # NoRecord /\ record \in Records
    BY <1>6 DEF RecordAltered, TypeOK
  <2>2. record'.acts = record.acts /\ record'.snapshots = record.snapshots
    BY <1>6, <2>1 DEF RecordAltered, Records
  <2>3. UNCHANGED <<acts, snapshots, isClosed, interval, nextBoundary, clock>>
    BY <1>6 DEF RecordAltered
  <2> QED
    BY <1>0, <2>1, <2>2, <2>3, CadenceUntouched
<1>7. CASE Reload
  <2>1. /\ record # NoRecord /\ acts' = record.acts /\ snapshots' = record.snapshots
        /\ isClosed' = TRUE /\ interval' = interval /\ record' = record
    BY <1>7 DEF Reload, Reproducible
  <2>2. Opened' <=> ActsIn(acts', "opened") # {}
    BY DEF Opened, ActsIn
  <2>3. ActsIn(record.acts, "opened") # {} =>
           \E before \in 0..Len(record.snapshots) :
              InStep(record.snapshots, record.acts, interval, before)
    BY <2>1 DEF CadenceInv
  <2> QED
    BY <2>1, <2>2, <2>3 DEF CadenceInv
<1>8. CASE Tick
  <2>1. /\ clock' = clock + 1
        /\ UNCHANGED <<acts, snapshots, isClosed, interval, nextBoundary, record>>
    BY <1>8 DEF Tick
  <2> QED
    BY <1>0, <2>1, CadenceUntouched
<1>9. CASE UNCHANGED vars
  <2>1. UNCHANGED <<acts, snapshots, isClosed, interval, nextBoundary, record, clock>>
    BY <1>9 DEF vars
  <2> QED
    BY <1>0, <2>1, CadenceUntouched
<1> QED
  BY <1>1, <1>2, <1>3, <1>4, <1>5, <1>6, <1>7, <1>8, <1>9 DEF Next

\* The invariant of the cadence holds in every reachable state.
THEOREM CadenceInvariant == Spec => []CadenceInv
<1>1. Init => CadenceInv
  BY DEF Init, CadenceInv, Opened
<1>2. TypeOK /\ TypeOK' /\ WindowInv /\ FiguresInv /\ CadenceInv /\ [Next]_vars => CadenceInv'
  BY CadenceInductive
<1> QED
  BY <1>1, <1>2, BoxTypeCorrect, WindowInvariant, FiguresInvariant, PTL DEF Spec

\* From the act that opens the poll on, one figure for every interval and none
\* skipped, up to the first act that closes it, whoever reads the box and
\* whenever (`_catch_up` runs only when somebody does), and in the series a
\* reload brings back.
THEOREM NoneSkipped == Spec => []CadenceKept
<1>1. TypeOK /\ WindowInv /\ FiguresInv /\ CadenceInv => CadenceKept
  <2> SUFFICES ASSUME TypeOK, WindowInv, FiguresInv, CadenceInv, Opened
               PROVE  LET since == {i \in Boundaries : snapshots[i].at > OpenedAt}
                      IN  /\ \A i \in since :
                                snapshots[i].at = OpenedAt + interval * (i - First(since) + 1)
                          /\ isClosed /\ interval # 0
                                /\ First(ActsOf("opened")) < First(ActsOf("closed"))
                             => Cardinality(since) = (ClosedAt - OpenedAt) \div interval
    BY DEF CadenceKept
  <2> DEFINE since == {i \in Boundaries : snapshots[i].at > OpenedAt}
             b == BoundaryCount(snapshots, acts)
  <2>1. /\ Boundaries = 1..b
        /\ ActsOf("opened") = ActsIn(acts, "opened") /\ ActsOf("closed") = ActsIn(acts, "closed")
    BY DEF Boundaries, BoundaryCount, ActsOf, ActsIn
  <2>2. OpenedAt = Instant(acts, "opened") /\ ClosedAt = Instant(acts, "closed")
    BY <2>1 DEF OpenedAt, ClosedAt, Instant, FirstIn
  <2>3. /\ acts \in Seq(Acts) /\ snapshots \in Seq(Snapshots) /\ interval \in Nat
        /\ Len(snapshots) \in Nat
    BY BoxConstantsOK DEF TypeOK
  <2>4. OpenedAt \in Nat
    <3>1. ActsIn(acts, "opened") # {}
      BY DEF Opened, ActsIn
    <3> QED
      BY <2>2, <2>3, <3>1, ActsInType
  <2>5. b \in 0..Len(snapshots)
    <3>1. Cardinality(ActsIn(acts, "closed")) <= Len(snapshots)
      BY DEF FiguresInv, Stood
    <3> QED
      BY <2>3, <3>1, BoundaryCountType
  <2>6. PICK before \in 0..Len(snapshots) : InStep(snapshots, acts, interval, before)
    BY DEF CadenceInv
  <2>7. /\ before \in 0..b
        /\ \A i \in 1..before : snapshots[i].at <= OpenedAt
        /\ \A i \in (before + 1)..b : snapshots[i].at = OpenedAt + interval * (i - before)
        /\ before < b => interval # 0
        /\ isClosed /\ interval # 0 /\ First(ActsOf("opened")) < First(ActsOf("closed"))
              => b - before = (ClosedAt - OpenedAt) \div interval
    BY <2>1, <2>2, <2>6 DEF InStep, WindowInv, FirstIn
  <2> HIDE DEF b
  <2>8. since = (before + 1)..b
    <3>1. ASSUME NEW i \in 1..before
          PROVE  ~(snapshots[i].at > OpenedAt)
      <4>1. i \in DOMAIN snapshots
        BY <2>3, <2>5, <2>7
      <4>2. snapshots[i].at \in Nat /\ snapshots[i].at <= OpenedAt
        BY <2>3, <2>7, <4>1, FigureTypes
      <4> QED
        BY <2>4, <4>2
    <3>2. ASSUME NEW i \in (before + 1)..b
          PROVE  snapshots[i].at > OpenedAt
      <4>1. i - before \in Nat /\ i - before > 0 /\ interval > 0
        BY <2>3, <2>5, <2>7
      <4>2. interval * (i - before) \in Nat /\ interval * (i - before) > 0
        <5>1. \A p, q \in Nat : p > 0 /\ q > 0 => p * q \in Nat /\ p * q > 0
          OBVIOUS
        <5> QED
          BY <2>3, <4>1, <5>1
      <4>3. snapshots[i].at = OpenedAt + interval * (i - before)
        BY <2>7
      <4> QED
        BY <2>4, <4>2, <4>3
    <3>3. /\ \A i \in 1..b : i \in 1..before \/ i \in (before + 1)..b
          /\ \A i \in (before + 1)..b : i \in 1..b
      BY <2>5, <2>7
    <3> QED
      BY <2>1, <3>1, <3>2, <3>3
  <2>9. Cardinality(since) = b - before
    <3>1. before + 1 \in Int /\ b \in Int
      BY <2>5, <2>7
    <3>2. Cardinality((before + 1)..b) = IF before + 1 > b THEN 0 ELSE b - (before + 1) + 1
      BY <3>1, FS_Interval
    <3>3. b - (before + 1) + 1 = b - before /\ (before + 1 > b => b - before = 0)
      BY <2>5, <2>7
    <3> QED
      BY <2>8, <3>2, <3>3
  <2> HIDE DEF since
  <2>10. ASSUME NEW i \in since
         PROVE  snapshots[i].at = OpenedAt + interval * (i - First(since) + 1)
    <3>1. since \in SUBSET Nat /\ since # {} /\ before + 1 \in since
      <4>1. before \in Nat /\ b \in Nat /\ i \in (before + 1)..b
        BY <2>5, <2>7, <2>8
      <4>2. before + 1 \in (before + 1)..b /\ (before + 1)..b \subseteq Nat
        BY <4>1
      <4> QED
        BY <2>8, <4>2
    <3>2. First(since) \in since /\ \A j \in since : First(since) <= j
      BY <3>1, FirstIsLeast
    <3>3. First(since) = before + 1
      <4>1. First(since) \in (before + 1)..b /\ First(since) <= before + 1 /\ before \in Nat
        BY <2>7, <2>8, <3>1, <3>2
      <4> QED
        BY <2>5, <4>1
    <3>4. i - First(since) + 1 = i - before
      BY <2>5, <2>7, <2>8, <3>3
    <3> QED
      BY <2>7, <2>8, <3>4
  <2>11. isClosed /\ interval # 0 /\ First(ActsOf("opened")) < First(ActsOf("closed"))
           => Cardinality(since) = (ClosedAt - OpenedAt) \div interval
    BY <2>7, <2>9
  <2> QED
    BY <2>10, <2>11 DEF since
<1> QED
  BY <1>1, BoxTypeCorrect, WindowInvariant, FiguresInvariant, CadenceInvariant, PTL
=============================================================================

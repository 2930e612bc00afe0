------------------------ MODULE PublicVerifier_proofs ------------------------
(***************************************************************************)
(* Theorems about the recount: for any citizens, keys and ballots, any     *)
(* number of departures from the rules and of copies that differ.          *)
(***************************************************************************)
EXTENDS PublicVerifier, ReleaseRegister_proofs

-----------------------------------------------------------------------------
(* The one vote per key: the last place is what overwriting leaves.        *)

\* The dictionary with an entry's selection for the entry's key.
Overwritten(f, e) ==
    [k \in DOMAIN f \union {e.key} |-> IF k = e.key THEN e.selection ELSE f[k]]

\* f[n] is the dictionary after the first n entries, for n up to m.
CountedSoFar(log, m, f) ==
    f = [n \in 0..m |-> IF n = 0 THEN [k \in {} |-> 0] ELSE Overwritten(f[n - 1], log[n])]

\* There is no more than one such function.
LEMMA CountedUnique ==
    ASSUME NEW log, NEW m \in Nat, NEW f, NEW g,
           CountedSoFar(log, m, f), CountedSoFar(log, m, g)
    PROVE  f[m] = g[m]
<1> DEFINE Differ == {k \in 0..m : f[k] # g[k]}
<1> SUFFICES ASSUME Differ # {} PROVE FALSE
  OBVIOUS
<1>1. PICK n \in Differ : \A j \in Differ : n <= j
  <2>1. Differ \in SUBSET Nat
    OBVIOUS
  <2> HIDE DEF Differ
  <2> QED
    BY <2>1, LeastNatural
<1>2. n \in 0..m
  BY <1>1
<1>3. f[n] = IF n = 0 THEN [k \in {} |-> 0] ELSE Overwritten(f[n - 1], log[n])
  BY <1>2 DEF CountedSoFar
<1>4. g[n] = IF n = 0 THEN [k \in {} |-> 0] ELSE Overwritten(g[n - 1], log[n])
  BY <1>2 DEF CountedSoFar
<1>5. n # 0 => n - 1 \in 0..m /\ n - 1 \notin Differ
  BY <1>1, <1>2
<1>6. n # 0 => f[n - 1] = g[n - 1]
  BY <1>5
<1>7. f[n] = g[n]
  BY <1>3, <1>4, <1>6
<1> QED
  BY <1>1, <1>7

\* The vote of a key among the first n entries is the one in its last place.
LastOf(log, n) ==
    [k \in {log[i].key : i \in 1..n} |-> log[Max({i \in 1..n : log[i].key = k})].selection]

\* One entry more replaces its own key's vote, and no other.
LEMMA LastOfNext ==
    ASSUME NEW T, NEW log \in Seq(T), NEW n \in 1..Len(log)
    PROVE  LastOf(log, n) = Overwritten(LastOf(log, n - 1), log[n])
<1> DEFINE Before == {log[i].key : i \in 1..(n - 1)}
           Now == {log[i].key : i \in 1..n}
           Places(k, m) == {i \in 1..m : log[i].key = k}
           next == [k \in Before \union {log[n].key} |->
                       IF k = log[n].key THEN log[n].selection ELSE LastOf(log, n - 1)[k]]
<1>1. n \in Nat /\ n - 1 \in Nat /\ n \in 1..n
  BY LenProperties
<1>2. \A i \in 1..n : i = n \/ i \in 1..(n - 1)
  BY <1>1
<1>3. \A i \in 1..(n - 1) : i \in 1..n /\ i # n
  BY <1>1
<1>4. Now = Before \union {log[n].key}
  BY <1>1, <1>2, <1>3
<1>5. LastOf(log, n) = [k \in Now |-> log[Max(Places(k, n))].selection]
  BY DEF LastOf
<1>6. LastOf(log, n - 1) = [k \in Before |-> log[Max(Places(k, n - 1))].selection]
  BY DEF LastOf
<1>7. ASSUME NEW k \in Now
      PROVE  LastOf(log, n)[k] = next[k]
  <2>1. CASE k = log[n].key
    <3>1. Places(k, n) \in SUBSET (1..n) /\ n \in Places(k, n)
      BY <1>1, <2>1
    <3> DEFINE S == Places(k, n)
    <3>2. S \in SUBSET (1..n) /\ n \in S
      BY <3>1
    <3> HIDE DEF S
    <3>3. Max(S) \in S /\ \A j \in S : j <= Max(S)
      <4>1. S # {}
        BY <3>2
      <4> QED
        BY <1>1, <3>2, <4>1, MaxIsLast
    <3>4. Max(S) = n
      <4> DEFINE m == Max(S)
      <4>1. m \in S /\ n <= m
        BY <3>2, <3>3
      <4> HIDE DEF m
      <4>2. m \in 1..n
        BY <3>2, <4>1
      <4>3. m = n
        BY <1>1, <4>1, <4>2
      <4> QED
        BY <4>3 DEF m
    <3>5. LastOf(log, n)[k] = log[Max(S)].selection
      BY <1>5 DEF S
    <3> QED
      BY <1>4, <2>1, <3>4, <3>5
  <2>2. CASE k # log[n].key
    <3>1. k \in Before
      BY <1>4, <2>2
    <3>2. Places(k, n) = Places(k, n - 1)
      BY <1>2, <1>3, <2>2
    <3>3. LastOf(log, n - 1)[k] = log[Max(Places(k, n - 1))].selection
      <4> HIDE DEF Places, Before
      <4> QED
        BY <1>6, <3>1
    <3>4. LastOf(log, n)[k] = log[Max(Places(k, n))].selection
      <4> HIDE DEF Places, Now
      <4> QED
        BY <1>5
    <3>5. next[k] = LastOf(log, n - 1)[k]
      <4> HIDE DEF Before
      <4> QED
        BY <2>2, <3>1
    <3> HIDE DEF Places, next
    <3> QED
      BY <3>2, <3>3, <3>4, <3>5
  <2> QED
    BY <2>1, <2>2
<1>8. LastOf(log, n) = next
  <2>1. DOMAIN next = Now /\ next = [k \in Now |-> next[k]]
    <3> HIDE DEF Before, Now
    <3> QED
      BY <1>4
  <2>2. LastOf(log, n) = [k \in Now |-> LastOf(log, n)[k]]
    BY <1>5
  <2> HIDE DEF next, Now
  <2> QED
    BY <1>7, <2>1, <2>2
<1>9. DOMAIN LastOf(log, n - 1) = Before
  BY <1>6
<1> HIDE DEF Before
<1> QED
  BY <1>8, <1>9 DEF Overwritten

\* Keys of a record, by place.
LEMMA KeysByPlace ==
    ASSUME NEW T, NEW log \in Seq(T)
    PROVE  /\ KeysIn(log) = {log[i].key : i \in 1..Len(log)}
           /\ \A k : PlacesOf(k, log) = {i \in 1..Len(log) : log[i].key = k}
           /\ Final(log) = LastOf(log, Len(log))
           /\ DOMAIN Final(log) = KeysIn(log)
<1>1. DOMAIN log = 1..Len(log)
  BY LenProperties
<1>2. KeysIn(log) = {log[i].key : i \in 1..Len(log)}
  BY <1>1 DEF KeysIn
<1>3. \A k : PlacesOf(k, log) = {i \in 1..Len(log) : log[i].key = k}
  BY <1>1 DEF PlacesOf
<1>4. Final(log) = LastOf(log, Len(log))
  BY <1>2, <1>3 DEF Final, LastOf
<1>5. DOMAIN Final(log) = KeysIn(log)
  BY DEF Final
<1> QED
  BY <1>2, <1>3, <1>4, <1>5

\* `effective_ballots` leaves, for each key, the selection in its last place:
\* the box and the verifier count the same votes, for every registry.
LEMMA EffectiveIsFinal ==
    ASSUME NEW T, NEW log \in Seq(T)
    PROVE  Effective(log) = Final(log)
<1> DEFINE loop == CHOOSE h : h =
               [n \in 0..Len(log) |->
                   IF n = 0 THEN [k \in {} |-> 0]
                   ELSE [k \in DOMAIN h[n - 1] \union {log[n].key} |->
                            IF k = log[n].key THEN log[n].selection ELSE h[n - 1][k]]]
           last == [n \in 0..Len(log) |-> LastOf(log, n)]
           next == [n \in 0..Len(log) |->
                       IF n = 0 THEN [k \in {} |-> 0] ELSE Overwritten(last[n - 1], log[n])]
<1>1. Len(log) \in Nat
  BY LenProperties
<1>2. Effective(log) = loop[Len(log)]
  BY DEF Effective
<1>3. ASSUME NEW n \in 0..Len(log)
      PROVE  last[n] = next[n]
  <2>1. CASE n = 0
    <3>1. LastOf(log, 0) = [k \in {} |-> 0]
      <4>1. {log[i].key : i \in 1..0} = {}
        OBVIOUS
      <4>2. DOMAIN LastOf(log, 0) = {}
        BY <4>1 DEF LastOf
      <4> QED
        BY <4>1 DEF LastOf
    <3> QED
      BY <1>1, <2>1, <3>1
  <2>2. CASE n # 0
    <3>1. n \in 1..Len(log) /\ n - 1 \in 0..Len(log)
      BY <1>1, <2>2
    <3>2. last[n] = LastOf(log, n) /\ last[n - 1] = LastOf(log, n - 1)
      BY <3>1
    <3>3. next[n] = Overwritten(last[n - 1], log[n])
      <4> HIDE DEF last
      <4> QED
        BY <2>2
    <3> HIDE DEF last, next
    <3>4. LastOf(log, n) = Overwritten(LastOf(log, n - 1), log[n])
      BY <3>1, LastOfNext
    <3> QED
      BY <3>2, <3>3, <3>4
  <2> QED
    BY <2>1, <2>2
<1>4. last = next
  <2>1. last = [n \in 0..Len(log) |-> last[n]] /\ next = [n \in 0..Len(log) |-> next[n]]
    OBVIOUS
  <2> HIDE DEF last, next
  <2> QED
    BY <1>3, <2>1
<1>5. CountedSoFar(log, Len(log), last)
  BY <1>4 DEF CountedSoFar
<1>6. CountedSoFar(log, Len(log), loop)
  <2> HIDE DEF last
  <2> QED
    BY <1>5 DEF CountedSoFar, Overwritten
<1>7. last[Len(log)] = LastOf(log, Len(log))
  BY <1>1
<1> HIDE DEF last, loop
<1>8. loop[Len(log)] = last[Len(log)]
  BY <1>1, <1>5, <1>6, CountedUnique
<1> QED
  BY <1>2, <1>7, <1>8, KeysByPlace

-----------------------------------------------------------------------------
(* The register under the verifier.                                        *)

\* Whatever happens around it, the register does what it does by itself.
LEMMA RegisterMoves ==
    ASSUME [VNext]_everything
    PROVE  [Next]_vars
<1>1. ASSUME NEW v \in Citizens, NEW k \in Keys, ReleaseToken(v, k)
      PROVE  [Next]_vars
  BY <1>1 DEF ReleaseToken, Next
<1>2. CASE ClosePoll
  BY <1>2 DEF ClosePoll, Next
<1>3. CASE RegisterStep
  BY <1>3 DEF RegisterStep, Next
<1>4. CASE FetchReleases
  BY <1>4 DEF FetchReleases, Next
<1>5. ASSUME UNCHANGED register PROVE [Next]_vars
  BY <1>5 DEF register, vars
<1>6. ASSUME NEW k \in Keys, NEW s \in Selections, Cast(k, s)
      PROVE  UNCHANGED register
  BY <1>6 DEF Cast
<1>7. PublishHead => UNCHANGED register
  BY DEF PublishHead
<1>8. ASSUME NEW k \in Keys, UnrecordedToken(k) PROVE UNCHANGED register
  BY <1>8 DEF UnrecordedToken
<1>9. ASSUME NEW r \in Unfounded, BoxTakes(r) PROVE UNCHANGED register
  BY <1>9 DEF BoxTakes
<1>10. FetchLedger => UNCHANGED register
  BY DEF FetchLedger
<1>11. ASSUME NEW s \in Slots, CopyDiffers(s) PROVE UNCHANGED register
  BY <1>11 DEF CopyDiffers
<1>12. ASSUME NEW s \in Slots, NEW t \in Slots, Exchange(s, t) PROVE UNCHANGED register
  BY <1>12 DEF Exchange
<1>13. UNCHANGED everything => UNCHANGED register
  BY DEF everything
<1>14. CorrectSchedule \/ FetchElection => UNCHANGED register
  BY DEF CorrectSchedule, FetchElection
<1> QED
  BY <1>1, <1>2, <1>3, <1>4, <1>5, <1>6, <1>7, <1>8, <1>9, <1>10, <1>11, <1>12, <1>13,
     <1>14 DEF VNext

\* The verifier's model implements the register's, step by step: what is
\* proved of the register holds of the one that is recounted.
THEOREM VerifierKeepsRegister == VSpec => Spec
<1>1. VInit => Init
  BY DEF VInit
<1>2. [VNext]_everything => [Next]_vars
  BY RegisterMoves
<1> QED
  BY <1>1, <1>2, PTL DEF VSpec, Spec

-----------------------------------------------------------------------------
(* The inductive invariant.                                                *)

Ballots ==
    [key : Keys, token : Keys \union {NoToken}, selection : Selections,
     nonce : Nat, signature : Keys \X Selections \X Nat]

\* A record with a token goes back to what a key holder has made, in that
\* place or in one before it; it may say something else by now.
Founded(r, i, certs, votes) ==
    /\ r.key \in certs
    /\ r.nonce \in 1..i
    /\ r.signature \in votes
    /\ r.signature[1] = r.key
    /\ r.signature[3] = r.nonce

\* What a key holder has made stands in the registry, in the place it names.
InItsPlace(v, log) ==
    /\ v[3] \in 1..Len(log)
    /\ log[v[3]] = BallotOf(v[1], v[1], v[2], v[3], v)

BoxTypes ==
    /\ certified \in SUBSET Keys
    /\ signedVotes \in SUBSET (Keys \X Selections \X Nat)
    /\ accepted \in Seq(Ballots)
    /\ boxSigned \in SUBSET Seq(Ballots)
    /\ faults \in SUBSET ({"box", "office", "file", "slots"} \union Slots)

BoxStands ==
    /\ Len(accepted) <= MaxBallots
    /\ \A head \in boxSigned : IsPrefix(head, accepted)
    /\ closed <=> file # NoFile
    /\ closed => accepted \in boxSigned
    /\ \A i \in 1..Len(accepted) :
          accepted[i].token = accepted[i].key => Founded(accepted[i], i, certified, signedVotes)
    /\ \A v \in signedVotes : InItsPlace(v, accepted)

\* However a file was altered and wherever it is held, the signatures in it
\* are over what the box and the office have signed.
AFile(f, boxHeads, officeHeads) ==
    \/ /\ f.format = "election"
       /\ f = ConfigFile(f.generated, f.schedule)
       /\ f.generated \in BOOLEAN
    \/ /\ f.format = "ledger"
       /\ f = [format |-> "ledger", config |-> f.config, entries |-> f.entries,
               head |-> f.head, headSignature |-> f.headSignature]
       /\ f.headSignature \in boxHeads
    \/ /\ f.format = "releases"
       /\ f = [format |-> "releases",
               config |-> ConfigFile(Generated, f.config.schedule), entries |-> f.entries,
               head |-> f.head, headSignature |-> f.headSignature, count |-> f.count,
               countSignature |-> f.countSignature]
       /\ \E head \in officeHeads : f.countSignature = Len(head)

FilesHeld ==
    /\ held = [s \in Slots |-> held[s]]
    /\ \A s \in Slots : held[s] # NoFile => AFile(held[s], boxSigned, signed)

BoxInv == BoxTypes /\ BoxStands /\ FilesHeld

\* The box at the start.
LEMMA BoxInit ==
    ASSUME VInit
    PROVE  BoxInv
<1>1. <<>> \in Seq(Ballots) /\ Len(<<>>) = 0
  OBVIOUS
<1>2. /\ certified = {} /\ signedVotes = {} /\ accepted = <<>> /\ boxSigned = {} /\ faults = {}
      /\ closed = FALSE /\ file = NoFile
      /\ held = [s \in Slots |-> NoFile]
  BY DEF VInit, Init
<1>3. BoxTypes
  BY <1>1, <1>2 DEF BoxTypes
<1>4. MaxBallots \in Nat
  BY VerifierConstantsOK
<1>5. BoxStands
  BY <1>1, <1>2, <1>4 DEF BoxStands
<1>6. FilesHeld
  BY <1>2 DEF FilesHeld
<1> QED
  BY <1>3, <1>5, <1>6 DEF BoxInv

\* A file stays one when more has been signed.
LEMMA FilesStay ==
    ASSUME FilesHeld, UNCHANGED held, boxSigned \subseteq boxSigned', signed \subseteq signed'
    PROVE  FilesHeld'
<1>1. ASSUME NEW s \in Slots, held[s] # NoFile
      PROVE  AFile(held'[s], boxSigned', signed')
  <2>1. AFile(held[s], boxSigned, signed)
    BY <1>1 DEF FilesHeld
  <2> QED
    BY <2>1 DEF AFile
<1> QED
  BY <1>1 DEF FilesHeld

\* The close comes with the file, and neither is undone.
LEMMA ClosedStays ==
    ASSUME RegInv, closed <=> file # NoFile, [Next]_vars
    PROVE  /\ closed' <=> file' # NoFile
           /\ closed => closed'
           /\ signed \subseteq signed'
<1>0. closed \in BOOLEAN /\ (file # NoFile => file \in Stored)
  BY DEF RegInv, TypeOK, FileStands
<1>1. ASSUME NEW v \in Citizens, Release(v)
      PROVE  UNCHANGED <<closed, file, signed>>
  BY <1>1 DEF Release
<1>2. CASE Close
  <2>1. StoredState \in Stored
    <3>1. Sorted(openings) \in Seq(Commitments)
      BY SortedMeans DEF RegInv, TypeOK, OfficeStands
    <3> QED
      BY <3>1 DEF RegInv, TypeOK, StoredState, Stored, HeadHash
  <2>2. StoredState # NoFile
    BY <2>1, RegisterMarkersOK
  <2> HIDE DEF StoredState
  <2> QED
    BY <1>0, <1>2, <2>2 DEF Close
<1>3. CASE Download
  BY <1>3 DEF Download
<1>4. CASE Publish
  BY <1>4 DEF Publish
<1>5. CASE Damage
  <2>1. file' \in Stored /\ UNCHANGED <<closed, signed>> /\ file # NoFile
    BY <1>5, RegDamage DEF Damage
  <2> QED
    BY <2>1, RegisterMarkersOK
<1>6. CASE Restart
  BY <1>6 DEF Restart, Reproducible
<1>7. CASE UNCHANGED vars
  BY <1>7 DEF vars
<1> QED
  BY <1>1, <1>2, <1>3, <1>4, <1>5, <1>6, <1>7 DEF Next

\* A record more in the registry.
LEMMA BoxAppends ==
    ASSUME BoxTypes, BoxStands, ~closed, Len(accepted) < MaxBallots,
           NEW r \in Ballots, accepted' = Append(accepted, r),
           UNCHANGED <<closed, file, boxSigned, certified>>,
           signedVotes \subseteq signedVotes',
           r.token = r.key => Founded(r, Len(accepted) + 1, certified', signedVotes'),
           \A v \in signedVotes' : v \in signedVotes \/ InItsPlace(v, accepted')
    PROVE  BoxStands'
<1> DEFINE n == Len(accepted)
<1>1. /\ accepted \in Seq(Ballots)
      /\ accepted' \in Seq(Ballots)
      /\ n \in Nat
      /\ Len(accepted') = n + 1
      /\ \A i \in 1..n : accepted'[i] = accepted[i]
      /\ accepted'[n + 1] = r
  BY AppendProperties, LenProperties DEF BoxTypes
<1>2. Len(accepted') <= MaxBallots
  BY <1>1, VerifierConstantsOK
<1>3. \A head \in boxSigned' : IsPrefix(head, accepted')
  <2>1. ASSUME NEW head \in boxSigned
        PROVE  IsPrefix(head, accepted')
    <3>1. head \in Seq(Ballots) /\ IsPrefix(head, accepted)
      BY DEF BoxTypes, BoxStands
    <3>2. IsPrefix(head, Append(accepted, r))
      BY <1>1, <3>1, PrefixOfAppend
    <3> QED
      BY <3>2
  <2> QED
    BY <2>1
<1>4. ASSUME NEW i \in 1..(n + 1), accepted'[i].token = accepted'[i].key
      PROVE  Founded(accepted'[i], i, certified', signedVotes')
  <2>1. CASE i = n + 1
    BY <1>1, <1>4, <2>1
  <2>2. CASE i # n + 1
    <3>1. i \in 1..n
      BY <1>1, <2>2
    <3>2. Founded(accepted[i], i, certified, signedVotes)
      BY <1>1, <1>4, <3>1 DEF BoxStands
    <3> QED
      BY <1>1, <3>1, <3>2 DEF Founded
  <2> QED
    BY <2>1, <2>2
<1>5. ASSUME NEW v \in signedVotes'
      PROVE  InItsPlace(v, accepted')
  <2>1. CASE v \in signedVotes
    <3>1. InItsPlace(v, accepted)
      BY <2>1 DEF BoxStands
    <3>2. v[3] \in 1..n /\ v[3] \in 1..(n + 1)
      BY <1>1, <3>1 DEF InItsPlace
    <3> QED
      BY <1>1, <3>1, <3>2 DEF InItsPlace
  <2> QED
    BY <2>1
<1> HIDE DEF n
<1> QED
  BY <1>1, <1>2, <1>3, <1>4, <1>5 DEF BoxStands

\* A ballot its key holder has made for the next place.
LEMMA BoxCast ==
    ASSUME BoxInv, NEW k \in Keys, NEW s \in Selections, Cast(k, s)
    PROVE  BoxInv'
<1> DEFINE n == Len(accepted) + 1
           payload == <<k, s, n>>
           r == BallotOf(k, k, s, n, payload)
<1>1. /\ ~closed
      /\ k \in certified
      /\ Len(accepted) < MaxBallots
      /\ signedVotes' = signedVotes \union {payload}
      /\ accepted' = Append(accepted, r)
      /\ UNCHANGED <<register, certified, boxSigned, auditor, faults>>
  BY DEF Cast, SigningPayload
<1>2. UNCHANGED <<closed, file, signed, held, certified, boxSigned, faults>>
  BY <1>1 DEF register, auditor
<1>3. accepted \in Seq(Ballots) /\ Len(accepted) \in Nat /\ n \in Nat /\ n \in 1..n
  BY LenProperties DEF BoxInv, BoxTypes
<1>4. payload \in Keys \X Selections \X Nat /\ payload[1] = k /\ payload[2] = s /\ payload[3] = n
  BY <1>3
<1> HIDE DEF payload, n
<1>5. r \in Ballots /\ r.key = k /\ r.nonce = n /\ r.signature = payload
  BY <1>3, <1>4 DEF BallotOf, Ballots
<1>6. Founded(r, n, certified', signedVotes')
  BY <1>1, <1>3, <1>4, <1>5 DEF Founded
<1>7. InItsPlace(payload, accepted')
  <2>1. /\ Len(accepted') = n
        /\ accepted'[n] = r
    BY <1>1, <1>3, <1>5, AppendProperties DEF n
  <2>2. r = BallotOf(payload[1], payload[1], payload[2], payload[3], payload)
    BY <1>4
  <2> HIDE DEF r
  <2> QED
    BY <1>3, <1>4, <2>1, <2>2 DEF InItsPlace
<1> HIDE DEF r
<1>8. BoxTypes'
  BY <1>1, <1>2, <1>3, <1>4, <1>5, AppendProperties DEF BoxInv, BoxTypes
<1>9. BoxStands'
  BY <1>1, <1>2, <1>5, <1>6, <1>7, BoxAppends DEF BoxInv, n
<1>10. FilesHeld'
  BY <1>2, FilesStay DEF BoxInv
<1> QED
  BY <1>8, <1>9, <1>10 DEF BoxInv

\* A record the box should not have taken: without a token, or made of one
\* that is there.
LEMMA BoxTakesAny ==
    ASSUME BoxInv, NEW r \in Unfounded, BoxTakes(r)
    PROVE  BoxInv'
<1> DEFINE n == Len(accepted)
<1>1. /\ ~closed
      /\ n < MaxBallots
      /\ accepted' = Append(accepted, r)
      /\ faults' = faults \union {"box"}
      /\ UNCHANGED <<register, certified, signedVotes, boxSigned, auditor>>
  BY DEF BoxTakes
<1>2. UNCHANGED <<closed, file, signed, held, certified, signedVotes, boxSigned>>
  BY <1>1 DEF register, auditor
<1>3. /\ accepted \in Seq(Ballots) /\ n \in Nat
      /\ DOMAIN accepted = 1..n
      /\ \A i \in 1..n : accepted[i] \in Ballots
  BY LenProperties DEF BoxInv, BoxTypes
<1>4. \/ \E k \in Keys, s \in Selections : r = BallotOf(k, NoToken, s, 0, SigningPayload(k, s, 0))
      \/ \E i \in 1..n : r = accepted[i]
      \/ \E i \in 1..n, s \in Selections : r = [accepted[i] EXCEPT !.selection = s]
  BY <1>3 DEF Unfounded, ToSet
<1>5. \A i \in 1..n : accepted[i].token = accepted[i].key => Founded(accepted[i], i, certified, signedVotes)
  BY DEF BoxInv, BoxStands
<1> HIDE DEF n
<1>6. r \in Ballots /\ (r.token = r.key => Founded(r, n + 1, certified, signedVotes))
  <2>1. ASSUME NEW k \in Keys, NEW s \in Selections,
               r = BallotOf(k, NoToken, s, 0, SigningPayload(k, s, 0))
        PROVE  r \in Ballots /\ r.token # r.key
    BY <2>1, VerifierMarkersOK DEF BallotOf, SigningPayload, Ballots
  <2>2. ASSUME NEW i \in 1..n, r = accepted[i]
        PROVE  r \in Ballots /\ (r.token = r.key => Founded(r, n + 1, certified, signedVotes))
    <3>1. \A j \in 1..i : j \in 1..(n + 1)
      BY <1>3
    <3> QED
      BY <1>3, <1>5, <2>2, <3>1 DEF Founded
  <2>3. ASSUME NEW i \in 1..n, NEW s \in Selections, r = [accepted[i] EXCEPT !.selection = s]
        PROVE  r \in Ballots /\ (r.token = r.key => Founded(r, n + 1, certified, signedVotes))
    <3>1. \A j \in 1..i : j \in 1..(n + 1)
      BY <1>3
    <3>2. /\ r \in Ballots
          /\ r.key = accepted[i].key
          /\ r.token = accepted[i].token
          /\ r.nonce = accepted[i].nonce
          /\ r.signature = accepted[i].signature
      BY <1>3, <2>3 DEF Ballots
    <3> QED
      BY <1>5, <3>1, <3>2 DEF Founded
  <2> QED
    BY <1>4, <2>1, <2>2, <2>3
<1>7. Founded(r, n + 1, certified, signedVotes) => Founded(r, n + 1, certified', signedVotes')
  BY <1>2 DEF Founded
<1>8. BoxTypes'
  BY <1>1, <1>2, <1>3, <1>6, AppendProperties DEF BoxInv, BoxTypes
<1>9. BoxStands'
  BY <1>1, <1>2, <1>6, <1>7, BoxAppends DEF BoxInv, n
<1>10. FilesHeld'
  BY <1>2, FilesStay DEF BoxInv
<1> QED
  BY <1>8, <1>9, <1>10 DEF BoxInv

\* A key more with a token: what was founded stays founded.
LEMMA BoxCertifies ==
    ASSUME BoxInv, UNCHANGED <<signedVotes, accepted, boxSigned, held>>,
           certified \subseteq certified', certified' \in SUBSET Keys,
           faults' \in SUBSET ({"box", "office", "file", "slots"} \union Slots),
           closed' <=> file' # NoFile,
           closed' => accepted \in boxSigned,
           signed \subseteq signed'
    PROVE  BoxInv'
<1>1. BoxTypes'
  BY DEF BoxInv, BoxTypes
<1>2. BoxStands'
  BY DEF BoxInv, BoxStands, Founded, InItsPlace
<1>3. FilesHeld'
  BY FilesStay DEF BoxInv
<1> QED
  BY <1>1, <1>2, <1>3 DEF BoxInv

\* The box puts its name to the registry it has.
LEMMA BoxSigns ==
    ASSUME BoxInv, UNCHANGED <<certified, signedVotes, accepted, held, faults>>,
           boxSigned' = boxSigned \union {accepted},
           closed' <=> file' # NoFile,
           signed \subseteq signed'
    PROVE  BoxInv'
<1>1. accepted \in Seq(Ballots)
  BY DEF BoxInv, BoxTypes
<1>2. IsPrefix(accepted, accepted)
  BY <1>1, PrefixSelf
<1>3. BoxTypes'
  BY <1>1 DEF BoxInv, BoxTypes
<1>4. BoxStands'
  BY <1>2 DEF BoxInv, BoxStands, Founded, InItsPlace
<1>5. FilesHeld'
  BY FilesStay DEF BoxInv
<1> QED
  BY <1>3, <1>4, <1>5 DEF BoxInv

\* A file is one by what has been signed; more may have been signed since.
LEMMA AFileStays ==
    ASSUME NEW f, NEW B, NEW B2, NEW S, NEW S2, B \subseteq B2, S \subseteq S2, AFile(f, B, S)
    PROVE  AFile(f, B2, S2)
BY DEF AFile

\* One slot holds another file.
LEMMA SlotHolds ==
    ASSUME FilesHeld, NEW slot \in Slots, NEW f, held' = [held EXCEPT ![slot] = f],
           AFile(f, boxSigned', signed'), boxSigned \subseteq boxSigned', signed \subseteq signed'
    PROVE  FilesHeld'
<1>1. DOMAIN held = Slots
  BY DEF FilesHeld
<1>2. held'[slot] = f /\ \A s \in Slots : s # slot => held'[s] = held[s]
  BY <1>1
<1>3. held' = [s \in Slots |-> held'[s]]
  BY <1>1
<1>4. ASSUME NEW s \in Slots, held'[s] # NoFile
      PROVE  AFile(held'[s], boxSigned', signed')
  <2>1. CASE s = slot
    BY <1>2, <2>1
  <2>2. CASE s # slot
    <3>1. held'[s] = held[s] /\ AFile(held[s], boxSigned, signed)
      BY <1>2, <1>4, <2>2 DEF FilesHeld
    <3> QED
      BY <3>1, AFileStays
  <2> QED
    BY <2>1, <2>2
<1> QED
  BY <1>3, <1>4 DEF FilesHeld

\* A ledger as it was served, under the box's signature.
LEMMA LedgerFileIs ==
    ASSUME NEW B, NEW S, NEW log \in B, NEW times
    PROVE  AFile(LedgerFile(log, times), B, S)
<1> DEFINE f == LedgerFile(log, times)
<1>1. f = [format |-> "ledger", config |-> ConfigFile(Generated, times), entries |-> Chained(log),
           head |-> log, headSignature |-> log]
  BY DEF LedgerFile, HeadHash
<1> HIDE DEF f
<1>2. /\ f.format = "ledger" /\ f.config = ConfigFile(Generated, times) /\ f.entries = Chained(log)
      /\ f.head = log /\ f.headSignature = log
  BY <1>1
<1>3. AFile(f, B, S)
  BY <1>1, <1>2 DEF AFile
<1> QED
  BY <1>3 DEF f

\* The configuration, of whatever moment.
LEMMA BoxFetchElection ==
    ASSUME BoxInv, FetchElection
    PROVE  BoxInv'
<1>1. /\ held' = [held EXCEPT !["election"] = ConfigFile(Generated, schedule)]
      /\ UNCHANGED <<closed, file, signed, certified, signedVotes, accepted, boxSigned, faults>>
  BY DEF FetchElection, register, boxVars
<1>2. BoxTypes' /\ BoxStands'
  BY <1>1 DEF BoxInv, BoxTypes, BoxStands
<1> DEFINE f == ConfigFile(Generated, schedule)
<1>3. f.format = "election" /\ f.generated = Generated /\ f.schedule = schedule
  BY DEF ConfigFile
<1>4. AFile(f, boxSigned', signed')
  <2> HIDE DEF f
  <2>1. f = ConfigFile(f.generated, f.schedule)
    BY <1>3 DEF f
  <2> QED
    BY <1>3, <2>1, VerifierConstantsOK DEF AFile
<1>5. FilesHeld'
  <2>1. "election" \in Slots /\ FilesHeld
    BY DEF BoxInv, Slots
  <2> QED
    BY <1>1, <1>4, <2>1, SlotHolds
<1> QED
  BY <1>2, <1>5 DEF BoxInv

\* GET /ledger.
LEMMA BoxFetchLedger ==
    ASSUME BoxInv, FetchLedger
    PROVE  BoxInv'
<1>1. /\ closed
      /\ held' = [held EXCEPT !["ledger"] = LedgerFile(accepted, schedule)]
      /\ UNCHANGED <<closed, file, signed, certified, signedVotes, accepted, boxSigned, faults>>
  BY DEF FetchLedger, register, boxVars
<1>2. BoxTypes' /\ BoxStands'
  BY <1>1 DEF BoxInv, BoxTypes, BoxStands
<1>3. accepted \in boxSigned
  BY <1>1 DEF BoxInv, BoxStands
<1>4. AFile(LedgerFile(accepted, schedule), boxSigned', signed')
  BY <1>1, <1>3, LedgerFileIs
<1>5. FilesHeld'
  <2>1. "ledger" \in Slots /\ FilesHeld
    BY DEF BoxInv, Slots
  <2> QED
    BY <1>1, <1>4, <2>1, SlotHolds
<1> QED
  BY <1>2, <1>5 DEF BoxInv

\* GET /releases: the head and the count, under the office's signature.
LEMMA BoxFetchReleases ==
    ASSUME BoxInv, FetchReleases
    PROVE  BoxInv'
<1>1. /\ held' = [held EXCEPT !["releases"] = ReleasesFile]
      /\ signed' = signed \union {releaseLog}
      /\ UNCHANGED <<closed, file, certified, signedVotes, accepted, boxSigned, faults>>
  BY DEF FetchReleases, Publish, boxVars, HeadHash
<1>2. BoxTypes' /\ BoxStands'
  BY <1>1 DEF BoxInv, BoxTypes, BoxStands
<1> DEFINE f == ReleasesFile
<1>3. f = [format |-> "releases", config |-> ConfigFile(Generated, schedule), entries |-> releaseLog,
           head |-> releaseLog, headSignature |-> releaseLog,
           count |-> Len(releaseLog), countSignature |-> Len(releaseLog)]
  BY DEF ReleasesFile, HeadHash
<1> HIDE DEF f
<1>4. /\ f.format = "releases" /\ f.entries = releaseLog /\ f.head = releaseLog
      /\ f.headSignature = releaseLog /\ f.count = Len(releaseLog)
      /\ f.countSignature = Len(releaseLog)
      /\ f.config = ConfigFile(Generated, f.config.schedule)
  <2>1. ConfigFile(Generated, schedule).schedule = schedule
    BY DEF ConfigFile
  <2> QED
    BY <1>3, <2>1
<1>5. AFile(f, boxSigned', signed')
  <2>1. \E head \in signed' : f.countSignature = Len(head)
    BY <1>1, <1>4
  <2>2. f = [format |-> "releases", config |-> f.config, entries |-> f.entries,
             head |-> f.head, headSignature |-> f.headSignature, count |-> f.count,
             countSignature |-> f.countSignature]
    BY <1>3
  <2> QED
    BY <1>4, <2>1, <2>2 DEF AFile
<1>6. FilesHeld'
  <2>1. "releases" \in Slots /\ FilesHeld
    BY DEF BoxInv, Slots
  <2>2. held' = [held EXCEPT !["releases"] = f]
    BY <1>1 DEF f
  <2> QED
    BY <1>1, <1>5, <2>1, <2>2, SlotHolds
<1> QED
  BY <1>2, <1>6 DEF BoxInv

\* A copy keeps the signatures of the file it is made of, or is an earlier
\* file of the box's.
LEMMA CopyIsAFile ==
    ASSUME NEW B, NEW S, NEW g, AFile(g, B, S), B = boxSigned, NEW f,
           \/ g.format = "election" /\ f \in ElectionCopies(g)
           \/ g.format = "ledger" /\ f \in LedgerCopies(g)
           \/ g.format = "releases" /\ f \in ReleasesCopies(g)
    PROVE  AFile(f, B, S)
<1>1. CASE g.format = "election" /\ f \in ElectionCopies(g)
  <2>1. g = ConfigFile(g.generated, g.schedule) /\ g.generated \in BOOLEAN
    BY <1>1 DEF AFile
  <2>2. f = [g EXCEPT !.generated = ~@]
    BY <1>1 DEF ElectionCopies
  <2>3. f = ConfigFile(~g.generated, g.schedule)
    BY <2>1, <2>2 DEF ConfigFile
  <2>4. f.format = "election" /\ f.generated = ~g.generated /\ f.schedule = g.schedule
    BY <2>3 DEF ConfigFile
  <2> QED
    BY <2>1, <2>3, <2>4 DEF AFile
<1>2. CASE g.format = "ledger" /\ f \in LedgerCopies(g)
  <2> DEFINE File(c, e, h, b) == [format |-> "ledger", config |-> c, entries |-> e,
                                  head |-> h, headSignature |-> b]
  <2>1. g = File(g.config, g.entries, g.head, g.headSignature) /\ g.headSignature \in B
    BY <1>2 DEF AFile
  <2>2. PICK c0, e0, h0, b0 : g = File(c0, e0, h0, b0) /\ b0 \in B
    <3> HIDE DEF File
    <3> QED
      BY <2>1
  <2>3. \/ \E log : f \in WithEntries(g, log)
        \/ \E head \in B : f = LedgerFile(head, g.config.schedule)
        \/ \E c : f = [g EXCEPT !.config = c]
    <3>1. f = [g EXCEPT !.config.generated = ~@] => \E c : f = [g EXCEPT !.config = c]
      OBVIOUS
    <3> QED
      BY <1>2, <3>1 DEF LedgerCopies
  <2>4. ASSUME NEW log, f \in WithEntries(g, log)
        PROVE  \/ \E e, h : f = [g EXCEPT !.entries = e, !.head = h]
               \/ \E e : f = [g EXCEPT !.entries = e]
    BY <2>4 DEF WithEntries
  <2>5. ASSUME NEW e, NEW h, f = [g EXCEPT !.entries = e, !.head = h]
        PROVE  f = File(c0, e, h, b0)
    BY <2>2, <2>5
  <2>6. ASSUME NEW e, f = [g EXCEPT !.entries = e]
        PROVE  f = File(c0, e, h0, b0)
    BY <2>2, <2>6
  <2>7. ASSUME NEW c, f = [g EXCEPT !.config = c]
        PROVE  f = File(c, e0, h0, b0)
    BY <2>2, <2>7
  <2>8. ASSUME NEW c, NEW e, NEW h, f = File(c, e, h, b0)
        PROVE  AFile(f, B, S)
    <3>1. f.format = "ledger" /\ f.config = c /\ f.entries = e /\ f.head = h /\ f.headSignature = b0
      BY <2>8
    <3> QED
      BY <2>2, <2>8, <3>1 DEF AFile
  <2>9. ASSUME NEW head \in B, f = LedgerFile(head, g.config.schedule)
        PROVE  AFile(f, B, S)
    BY <2>9, LedgerFileIs
  <2> HIDE DEF File
  <2> QED
    BY <2>3, <2>4, <2>5, <2>6, <2>7, <2>8, <2>9
<1>3. CASE g.format = "releases" /\ f \in ReleasesCopies(g)
  <2>0. PICK d : /\ d = ConfigFile(Generated, d.schedule)
                 /\ g = [format |-> "releases", config |-> d, entries |-> g.entries,
                         head |-> g.head, headSignature |-> g.headSignature,
                         count |-> g.count, countSignature |-> g.countSignature]
    <3>1. g.config = ConfigFile(Generated, g.config.schedule)
          /\ g = [format |-> "releases", config |-> g.config, entries |-> g.entries,
                  head |-> g.head, headSignature |-> g.headSignature,
                  count |-> g.count, countSignature |-> g.countSignature]
      BY <1>3 DEF AFile
    <3> QED
      BY <3>1
  <2> DEFINE File(e, h, c, b, m) ==
                 [format |-> "releases", config |-> d, entries |-> e,
                  head |-> h, headSignature |-> b, count |-> c,
                  countSignature |-> m]
  <2>1. /\ g = File(g.entries, g.head, g.count, g.headSignature, g.countSignature)
        /\ \E head \in S : g.countSignature = Len(head)
    BY <1>3, <2>0 DEF AFile
  <2>2. PICK e0, h0, c0, b0, m0 : /\ g = File(e0, h0, c0, b0, m0)
                                 /\ \E head \in S : m0 = Len(head)
    <3> HIDE DEF File
    <3> QED
      BY <2>1
  <2>3. g.entries = e0 /\ g.head = h0 /\ g.count = c0
    BY <2>2
  <2>4. \/ \E e : f = [g EXCEPT !.entries = e]
        \/ \E e, h : f = [g EXCEPT !.entries = e, !.head = h]
        \/ \E c : f = [g EXCEPT !.count = c]
    <3>1. \/ \E i \in DOMAIN g.entries : f = [g EXCEPT !.entries = RemoveAt(g.entries, i)]
          \/ \E i \in DOMAIN g.entries :
                f = [g EXCEPT !.entries = RemoveAt(g.entries, i), !.head = RemoveAt(g.head, i)]
          \/ f = [g EXCEPT !.count = g.count + 1]
      BY <1>3 DEF ReleasesCopies
    <3> QED
      BY <3>1
  <2>5. ASSUME NEW e, f = [g EXCEPT !.entries = e]
        PROVE  f = File(e, h0, c0, b0, m0)
    BY <2>2, <2>5
  <2>6. ASSUME NEW e, NEW h, f = [g EXCEPT !.entries = e, !.head = h]
        PROVE  f = File(e, h, c0, b0, m0)
    BY <2>2, <2>6
  <2>7. ASSUME NEW c, f = [g EXCEPT !.count = c]
        PROVE  f = File(e0, h0, c, b0, m0)
    BY <2>2, <2>7
  <2>8. ASSUME NEW e, NEW h, NEW c, NEW b, f = File(e, h, c, b, m0)
        PROVE  AFile(f, B, S)
    <3>1. /\ f.format = "releases" /\ f.entries = e /\ f.head = h
          /\ f.headSignature = b /\ f.count = c /\ f.countSignature = m0 /\ f.config = d
      BY <2>8
    <3>2. \E head \in S : f.countSignature = Len(head)
      BY <2>2, <3>1
    <3>3. f = [format |-> "releases", config |-> f.config, entries |-> f.entries,
               head |-> f.head, headSignature |-> f.headSignature, count |-> f.count,
               countSignature |-> f.countSignature]
      BY <2>8, <3>1
    <3>4. f.config = ConfigFile(Generated, f.config.schedule)
      BY <2>0, <3>1
    <3> QED
      BY <3>1, <3>2, <3>3, <3>4 DEF AFile
  <2> HIDE DEF File
  <2> QED
    BY <2>4, <2>5, <2>6, <2>7, <2>8
<1> QED
  BY <1>1, <1>2, <1>3

\* A copy that differs.
LEMMA BoxCopyDiffers ==
    ASSUME BoxInv, NEW slot \in Slots, CopyDiffers(slot)
    PROVE  BoxInv'
<1>1. /\ held[slot] # NoFile
      /\ faults' = faults \union {slot}
      /\ UNCHANGED <<closed, file, signed, certified, signedVotes, accepted, boxSigned>>
  BY DEF CopyDiffers, register, boxVars
<1> DEFINE g == held[slot]
<1>2. AFile(g, boxSigned, signed)
  BY <1>1 DEF BoxInv, FilesHeld
<1>3. g.format = "election" \/ g.format = "ledger" \/ g.format = "releases"
  BY <1>2 DEF AFile
<1>4. PICK f : /\ held' = [held EXCEPT ![slot] = f]
               /\ f \in CASE g.format = "election" -> ElectionCopies(g)
                          [] g.format = "ledger"   -> LedgerCopies(g)
                          [] g.format = "releases" -> ReleasesCopies(g)
  BY DEF CopyDiffers
<1> HIDE DEF g
<1>5. \/ g.format = "election" /\ f \in ElectionCopies(g)
      \/ g.format = "ledger" /\ f \in LedgerCopies(g)
      \/ g.format = "releases" /\ f \in ReleasesCopies(g)
  BY <1>3, <1>4
<1>6. AFile(f, boxSigned, signed)
  BY <1>2, <1>5, CopyIsAFile
<1>7. FilesHeld'
  <2>1. AFile(f, boxSigned', signed') /\ FilesHeld
    BY <1>1, <1>6 DEF BoxInv
  <2> QED
    BY <1>1, <1>4, <2>1, SlotHolds
<1>8. BoxTypes' /\ BoxStands'
  BY <1>1 DEF BoxInv, BoxTypes, BoxStands
<1> QED
  BY <1>7, <1>8 DEF BoxInv

\* Two files change places.
LEMMA BoxExchange ==
    ASSUME BoxInv, NEW s \in Slots, NEW t \in Slots, Exchange(s, t)
    PROVE  BoxInv'
<1>1. /\ held' = [held EXCEPT ![s] = held[t], ![t] = held[s]]
      /\ faults' = faults \union {"slots"}
      /\ UNCHANGED <<closed, file, signed, certified, signedVotes, accepted, boxSigned>>
  BY DEF Exchange, register, boxVars
<1>2. BoxTypes' /\ BoxStands'
  BY <1>1 DEF BoxInv, BoxTypes, BoxStands
<1>3. DOMAIN held = Slots
  BY DEF BoxInv, FilesHeld
<1>4. held' = [u \in Slots |-> held'[u]] /\ \A u \in Slots : \E w \in Slots : held'[u] = held[w]
  BY <1>1, <1>3
<1>5. ASSUME NEW u \in Slots, held'[u] # NoFile
      PROVE  AFile(held'[u], boxSigned', signed')
  <2>1. PICK w \in Slots : held'[u] = held[w]
    BY <1>4
  <2>2. AFile(held[w], boxSigned, signed)
    BY <1>5, <2>1 DEF BoxInv, FilesHeld
  <2> QED
    BY <1>1, <2>1, <2>2
<1>6. FilesHeld'
  BY <1>4, <1>5 DEF FilesHeld
<1> QED
  BY <1>2, <1>6 DEF BoxInv

\* No step undoes it.
LEMMA BoxStep ==
    ASSUME RegInv, BoxInv, [VNext]_everything
    PROVE  BoxInv'
<1>1. (closed' <=> file' # NoFile) /\ (closed => closed') /\ signed \subseteq signed'
  BY RegisterMoves, ClosedStays DEF BoxInv, BoxStands
<1>2. closed \in BOOLEAN
  BY DEF RegInv, TypeOK
<1>3. ASSUME NEW v \in Citizens, NEW k \in Keys, ReleaseToken(v, k)
      PROVE  BoxInv'
  <2>1. /\ certified' = certified \union {k}
        /\ UNCHANGED <<closed, signedVotes, accepted, boxSigned, held, faults>>
    BY <1>3 DEF ReleaseToken, Release, boxVars, auditor
  <2> QED
    BY <1>1, <2>1, BoxCertifies DEF BoxInv, BoxTypes, BoxStands
<1>4. ASSUME NEW k \in Keys, NEW s \in Selections, Cast(k, s) PROVE BoxInv'
  BY <1>4, BoxCast
<1>5. CASE PublishHead
  <2>1. /\ boxSigned' = boxSigned \union {accepted}
        /\ UNCHANGED <<certified, signedVotes, accepted, held, faults>>
    BY <1>5 DEF PublishHead, HeadHash, auditor
  <2> QED
    BY <1>1, <2>1, BoxSigns
<1>6. CASE ClosePoll
  <2>1. /\ boxSigned' = boxSigned \union {accepted}
        /\ UNCHANGED <<certified, signedVotes, accepted, held, faults>>
    BY <1>6 DEF ClosePoll, HeadHash, auditor
  <2> QED
    BY <1>1, <2>1, BoxSigns
<1>7. CASE RegisterStep
  <2>1. /\ UNCHANGED <<certified, signedVotes, accepted, boxSigned, held>>
        /\ faults' = faults \/ faults' = faults \union {"file"}
    BY <1>7 DEF RegisterStep, boxVars, auditor
  <2>2. closed' => closed
    BY <1>7, <1>2 DEF RegisterStep, Download, Restart, Reproducible, Damage, BoxInv, BoxStands
  <2> QED
    BY <1>1, <2>1, <2>2, BoxCertifies DEF BoxInv, BoxTypes, BoxStands
<1>8. ASSUME NEW k \in Keys, UnrecordedToken(k) PROVE BoxInv'
  <2>1. /\ certified' = certified \union {k}
        /\ faults' = faults \union {"office"}
        /\ UNCHANGED <<closed, signedVotes, accepted, boxSigned, held>>
    BY <1>8 DEF UnrecordedToken, register, boxVars, auditor
  <2> QED
    BY <1>1, <2>1, BoxCertifies DEF BoxInv, BoxTypes, BoxStands
<1>9. ASSUME NEW r \in Unfounded, BoxTakes(r) PROVE BoxInv'
  BY <1>9, BoxTakesAny
<1>10. CASE FetchLedger
  BY <1>10, BoxFetchLedger
<1>11. CASE FetchReleases
  BY <1>11, BoxFetchReleases
<1>12. ASSUME NEW s \in Slots, CopyDiffers(s) PROVE BoxInv'
  BY <1>12, BoxCopyDiffers
<1>13. ASSUME NEW s \in Slots, NEW t \in Slots, Exchange(s, t) PROVE BoxInv'
  BY <1>13, BoxExchange
<1>14. CASE CorrectSchedule \/ UNCHANGED everything
  <2>1. UNCHANGED <<closed, file, signed, certified, signedVotes, accepted, boxSigned, held, faults>>
    BY <1>14 DEF CorrectSchedule, everything, register, boxVars, auditor
  <2> QED
    BY <2>1 DEF BoxInv, BoxTypes, BoxStands, FilesHeld
<1>15. CASE FetchElection
  BY <1>15, BoxFetchElection
<1> QED
  BY <1>3, <1>4, <1>5, <1>6, <1>7, <1>8, <1>9, <1>10, <1>11, <1>12, <1>13, <1>14, <1>15
     DEF VNext

\* In every state of the box, the office and the auditor.
THEOREM BoxInvariant == VSpec => []BoxInv
<1>1. VInit => BoxInv
  BY BoxInit
<1>2. RegInv /\ BoxInv /\ [VNext]_everything => BoxInv'
  BY BoxStep
<1>3. VSpec => []RegInv
  BY VerifierKeepsRegister, RegInvariant, PTL
<1> QED
  BY <1>1, <1>2, <1>3, PTL DEF VSpec

-----------------------------------------------------------------------------
(* What a verdict that passes says.                                        *)

\* The ledger that passes is one the box has signed, and the count that passes
\* is one the office has.
LEMMA PassesMeans ==
    ASSUME BoxInv, Passes, NEW log, log = Records(held["ledger"])
    PROVE  /\ log \in boxSigned
           /\ log \in Seq(Ballots)
           /\ IsPrefix(log, accepted)
           /\ EveryTokenSigned(log)
           /\ EveryVoteSigned(log)
           /\ NoneTwice(log)
           /\ \E head \in signed : Cardinality(DOMAIN Final(log)) <= Len(head)
           /\ Verdict = RunChecks(held)
           /\ held["election"].generated = Generated
<1> DEFINE l == held["ledger"]
           r == held["releases"]
           e == held["election"]
<1>1. "ledger" \in Slots /\ "releases" \in Slots /\ "election" \in Slots
  BY DEF Slots
<1>2. l # NoFile /\ r # NoFile /\ e # NoFile /\ Verdict # Refused /\ Verdict.ok
  BY <1>1 DEF Passes, Complete
<1>3. Verdict = RunChecks(held) /\ InOwnSlots(held)
  BY <1>2 DEF Verdict, PostCheck
<1>4. l.format = "ledger" /\ r.format = "releases" /\ e.format = "election"
  BY <1>1, <1>3 DEF InOwnSlots, KindOf
<1>5. /\ DescribesElection(held)
      /\ EveryTokenSigned(log) /\ EveryVoteSigned(log) /\ NoneTwice(log)
      /\ RegistryIntact(l) /\ RegisterAccounted(r) /\ CountAudit(log, r)
  <2>1. RunChecks(held).ok
    BY <1>2, <1>3
  <2> QED
    BY <2>1 DEF RunChecks
<1>6. AFile(l, boxSigned, signed) /\ AFile(r, boxSigned, signed) /\ AFile(e, boxSigned, signed)
  BY <1>1, <1>2 DEF BoxInv, FilesHeld
<1> HIDE DEF l, r, e
<1>7. l.headSignature \in boxSigned
  BY <1>4, <1>6 DEF AFile
<1>8. log \in boxSigned
  BY <1>5, <1>7 DEF RegistryIntact, HeadHash, l
<1>9. log \in Seq(Ballots) /\ IsPrefix(log, accepted)
  BY <1>8 DEF BoxInv, BoxTypes, BoxStands
<1>10. /\ r.config = ConfigFile(Generated, r.config.schedule)
       /\ \E head \in signed : r.countSignature = Len(head)
  BY <1>4, <1>6 DEF AFile
<1>11. \E head \in signed : Cardinality(DOMAIN Final(log)) <= Len(head)
  BY <1>5, <1>10 DEF RegisterAccounted, CountAudit
<1>12. e.generated = Generated
  <2>1. e = ConfigFile(Generated, r.config.schedule)
    BY <1>5, <1>10 DEF DescribesElection, e, r
  <2> QED
    BY <2>1 DEF ConfigFile
<1> QED
  BY <1>3, <1>5, <1>8, <1>9, <1>11, <1>12 DEF e

\* In a record that passes, every entry is the one its key holder made, in the
\* place it was made for.
LEMMA EntryIsCast ==
    ASSUME BoxInv, NEW log \in Seq(Ballots), IsPrefix(log, accepted),
           EveryTokenSigned(log), EveryVoteSigned(log), NoneTwice(log),
           NEW i \in 1..Len(log)
    PROVE  /\ log[i].key \in certified
           /\ <<log[i].key, log[i].selection, i>> \in signedVotes
<1> DEFINE r == log[i]
           j == r.nonce
<1>1. /\ Len(log) \in Nat /\ DOMAIN log = 1..Len(log)
      /\ accepted \in Seq(Ballots) /\ Len(accepted) \in Nat
      /\ Len(log) <= Len(accepted)
      /\ \A k \in 1..Len(log) : log[k] = accepted[k]
  <2>1. accepted \in Seq(Ballots)
    BY DEF BoxInv, BoxTypes
  <2>2. Len(log) <= Len(accepted) /\ \A k \in 1..Len(log) : log[k] = accepted[k]
    BY <2>1, PrefixMeans
  <2> QED
    BY <2>1, <2>2, LenProperties
<1>2. r \in Ballots /\ r = accepted[i] /\ i \in 1..Len(accepted)
  BY <1>1
<1>3. r.token = r.key /\ r.signature = <<r.key, r.selection, j>>
  BY <1>1 DEF EveryTokenSigned, EveryVoteSigned, SigningPayload
<1> HIDE DEF r
<1>4. Founded(r, i, certified, signedVotes)
  BY <1>2, <1>3 DEF BoxInv, BoxStands
<1>5. j \in 1..i /\ r.signature \in signedVotes /\ r.key \in certified
  BY <1>4 DEF Founded
<1>6. accepted[j] = r
  <2> DEFINE v == r.signature
  <2>1. v[1] = r.key /\ v[2] = r.selection /\ v[3] = j
    BY <1>3
  <2>2. InItsPlace(v, accepted)
    BY <1>5 DEF BoxInv, BoxStands
  <2> HIDE DEF v
  <2>3. accepted[j] = [key |-> r.key, token |-> r.key, selection |-> r.selection,
                       nonce |-> j, signature |-> v]
    BY <2>1, <2>2 DEF InItsPlace, BallotOf
  <2>4. r = [key |-> r.key, token |-> r.token, selection |-> r.selection,
             nonce |-> r.nonce, signature |-> r.signature]
    BY <1>2 DEF Ballots
  <2> QED
    BY <1>3, <2>3, <2>4 DEF v
<1>7. j = i
  <2>1. \A k, m \in DOMAIN log : log[k] = log[m] => k = m
    BY EntriesCounted DEF NoneTwice
  <2>2. j \in 1..Len(log)
    BY <1>1, <1>5
  <2>3. log[j] = accepted[j] /\ log[i] = accepted[i]
    BY <1>1, <2>2
  <2> QED
    BY <1>1, <1>2, <1>6, <2>1, <2>2, <2>3
<1> QED
  BY <1>3, <1>5, <1>7 DEF r

\* The place of the vote that is counted.
LEMMA CountedPlace ==
    ASSUME NEW T, NEW log \in Seq(T), NEW k \in DOMAIN Final(log)
    PROVE  \E i \in 1..Len(log) :
              /\ log[i].key = k
              /\ Final(log)[k] = log[i].selection
              /\ \A j \in 1..Len(log) : log[j].key = k => j <= i
<1> DEFINE S == PlacesOf(k, log)
           i == Max(S)
<1>1. Len(log) \in Nat /\ DOMAIN log = 1..Len(log) /\ k \in KeysIn(log)
  BY LenProperties DEF Final
<1>2. S = {j \in 1..Len(log) : log[j].key = k}
  BY <1>1 DEF PlacesOf
<1>3. S \in SUBSET (1..Len(log)) /\ S # {}
  BY <1>1, <1>2 DEF KeysIn
<1> HIDE DEF S
<1>4. i \in S /\ \A j \in S : j <= i
  BY <1>1, <1>3, MaxIsLast
<1>5. Final(log)[k] = log[i].selection
  BY <1>1 DEF Final, S
<1> HIDE DEF i
<1> QED
  BY <1>2, <1>4, <1>5

\* TurnoutWithinReleases: whoever keeps the box cannot have counted more keys
\* than the office has put its name to tokens for, whatever was altered
\* (`tools/verify_election.py`, the count audit).
THEOREM TurnoutBounded == VSpec => []TurnoutWithinReleases
<1>1. BoxInv => TurnoutWithinReleases
  <2> SUFFICES ASSUME BoxInv, Passes
               PROVE  \E head \in signed :
                          Cardinality(DOMAIN Final(Records(held["ledger"]))) <= Len(head)
    BY DEF TurnoutWithinReleases
  <2> QED
    BY PassesMeans
<1> QED
  BY <1>1, BoxInvariant, PTL

\* CountedIsCast: each vote of a verdict that passes is one its key holder made
\* with a token from the office, and the last they made if the record is
\* whole; no replay and no altered copy passes (`Ballot.signing_payload`,
\* `effective_ballots`).
THEOREM CountedIsCastAlways == VSpec => []CountedIsCast
<1>1. BoxInv => CountedIsCast
  <2> SUFFICES ASSUME BoxInv, Passes, NEW log, log = Records(held["ledger"]),
                      NEW k \in DOMAIN Final(log)
               PROVE  /\ k \in certified
                      /\ \E n \in 0..MaxBallots :
                            /\ <<k, Final(log)[k], n>> \in signedVotes
                            /\ log = accepted => \A v \in signedVotes : v[1] = k => v[3] <= n
    BY DEF CountedIsCast
  <2>1. /\ log \in Seq(Ballots) /\ IsPrefix(log, accepted)
        /\ EveryTokenSigned(log) /\ EveryVoteSigned(log) /\ NoneTwice(log)
    BY PassesMeans
  <2>2. PICK i \in 1..Len(log) :
            /\ log[i].key = k
            /\ Final(log)[k] = log[i].selection
            /\ \A j \in 1..Len(log) : log[j].key = k => j <= i
    BY <2>1, CountedPlace
  <2>3. log[i].key \in certified /\ <<log[i].key, log[i].selection, i>> \in signedVotes
    BY <2>1, EntryIsCast
  <2>4. i \in 0..MaxBallots
    <3>1. accepted \in Seq(Ballots) /\ Len(accepted) <= MaxBallots
      BY DEF BoxInv, BoxTypes, BoxStands
    <3>2. Len(log) <= Len(accepted) /\ Len(log) \in Nat /\ Len(accepted) \in Nat
      BY <2>1, <3>1, PrefixMeans, LenProperties
    <3> QED
      BY <3>1, <3>2, VerifierConstantsOK
  <2>5. ASSUME log = accepted, NEW v \in signedVotes, v[1] = k
        PROVE  v[3] <= i
    <3>1. v[3] \in 1..Len(log) /\ log[v[3]] = BallotOf(v[1], v[1], v[2], v[3], v)
      BY <2>5 DEF BoxInv, BoxStands, InItsPlace
    <3>2. log[v[3]].key = k
      BY <2>5, <3>1 DEF BallotOf
    <3> QED
      BY <2>2, <3>1, <3>2
  <2> QED
    BY <2>2, <2>3, <2>4, <2>5
<1> QED
  BY <1>1, BoxInvariant, PTL

\* VerdictFollowsTheRecord: the verdict's figures are those the box itself
\* would announce for a registry it has signed, and it says of the voters what
\* the configuration says (`_count`, clause S8).
THEOREM VerdictFollows == VSpec => []VerdictFollowsTheRecord
<1>1. BoxInv => VerdictFollowsTheRecord
  <2> SUFFICES ASSUME BoxInv, Passes, NEW log, log = Records(held["ledger"])
               PROVE  /\ Verdict.generated = Generated
                      /\ log \in boxSigned
                      /\ IsPrefix(log, accepted)
                      /\ \A s \in 1..NumChoices :
                            s \in Selections => Verdict.tally[s] = BoxCount(log).counts[s]
                      /\ \A s \in DOMAIN BoxCount(log).protest :
                            Verdict.tally[s] = BoxCount(log).protest[s]
    BY DEF VerdictFollowsTheRecord
  <2>1. /\ log \in boxSigned /\ log \in Seq(Ballots) /\ IsPrefix(log, accepted)
        /\ Verdict = RunChecks(held)
        /\ held["election"].generated = Generated
    BY PassesMeans
  <2>2. Verdict.generated = Generated /\ Verdict.tally = Counted(log)
    <3>1. RunChecks(held).generated = held["election"].generated
      BY DEF RunChecks
    <3>2. RunChecks(held).tally = Counted(Records(held["ledger"]))
      BY DEF RunChecks
    <3> QED
      BY <2>1, <3>1, <3>2
  <2> DEFINE f == Final(log)
             of(s) == Cardinality({k \in DOMAIN f : f[k] = s})
             shown == {t \in Selections : Listed(t) \/ t \in {f[k] : k \in DOMAIN f}}
  <2>3. Effective(log) = f
    BY <2>1, EffectiveIsFinal
  <2>4. Counted(log) = [s \in shown |-> of(s)]
    BY DEF Counted
  <2>5. BoxCount(log) = [counts |-> [s \in 1..NumChoices |-> of(s)],
                         protest |-> [s \in {f[k] : k \in DOMAIN f} \ (1..NumChoices) |-> of(s)]]
    BY <2>3 DEF BoxCount
  <2>6. \A k \in DOMAIN f : f[k] \in Selections
    <3> SUFFICES ASSUME NEW k \in DOMAIN f PROVE f[k] \in Selections
      OBVIOUS
    <3>1. PICK i \in 1..Len(log) : Final(log)[k] = log[i].selection
      BY <2>1, CountedPlace
    <3>2. log[i] \in Ballots
      BY <2>1
    <3> QED
      BY <3>1, <3>2 DEF Ballots
  <2> HIDE DEF f
  <2>7. ASSUME NEW s \in shown PROVE Verdict.tally[s] = of(s)
    <3> HIDE DEF shown, of
    <3> QED
      BY <2>2, <2>4
  <2>8. ASSUME NEW s \in 1..NumChoices, s \in Selections
        PROVE  Verdict.tally[s] = BoxCount(log).counts[s]
    <3>1. s \in shown
      BY <2>8 DEF Listed
    <3>2. BoxCount(log).counts[s] = of(s)
      <4> HIDE DEF of
      <4> QED
        BY <2>5
    <3> HIDE DEF shown, of
    <3> QED
      BY <2>7, <3>1, <3>2
  <2>9. ASSUME NEW s \in DOMAIN BoxCount(log).protest
        PROVE  Verdict.tally[s] = BoxCount(log).protest[s]
    <3> DEFINE P == {f[k] : k \in DOMAIN f} \ (1..NumChoices)
    <3>1. BoxCount(log).protest = [t \in P |-> of(t)]
      <4> HIDE DEF of
      <4> QED
        BY <2>5
    <3>2. s \in P
      <4> HIDE DEF P, of
      <4> QED
        BY <2>9, <3>1
    <3>3. s \in shown
      BY <2>6, <3>2
    <3>4. BoxCount(log).protest[s] = of(s)
      <4> HIDE DEF P, of
      <4> QED
        BY <3>1, <3>2
    <3> HIDE DEF shown, of
    <3> QED
      BY <2>7, <3>3, <3>4
  <2> QED
    BY <2>1, <2>2, <2>8, <2>9
<1> QED
  BY <1>1, BoxInvariant, PTL

\* The schedule is corrected, or rests with what is recorded of it.
LEMMA DeclaredMoves ==
    ASSUME [VNext]_everything
    PROVE  CorrectSchedule \/ UNCHANGED declared
<1>1. ASSUME NEW v \in Citizens, NEW k \in Keys, ReleaseToken(v, k)
      PROVE  UNCHANGED declared
  BY <1>1 DEF ReleaseToken
<1>2. ASSUME NEW k \in Keys, NEW s \in Selections, Cast(k, s)
      PROVE  UNCHANGED declared
  BY <1>2 DEF Cast
<1>3. ASSUME NEW k \in Keys, UnrecordedToken(k) PROVE UNCHANGED declared
  BY <1>3 DEF UnrecordedToken
<1>4. ASSUME NEW r \in Unfounded, BoxTakes(r) PROVE UNCHANGED declared
  BY <1>4 DEF BoxTakes
<1>5. ASSUME NEW s \in Slots, CopyDiffers(s) PROVE UNCHANGED declared
  BY <1>5 DEF CopyDiffers
<1>6. ASSUME NEW s \in Slots, NEW t \in Slots, Exchange(s, t) PROVE UNCHANGED declared
  BY <1>6 DEF Exchange
<1>7. PublishHead \/ ClosePoll \/ FetchElection \/ FetchLedger \/ FetchReleases \/ RegisterStep
        => UNCHANGED declared
  BY DEF PublishHead, ClosePoll, FetchElection, FetchLedger, FetchReleases, RegisterStep
<1>8. UNCHANGED everything => UNCHANGED declared
  BY DEF everything
<1> QED
  BY <1>1, <1>2, <1>3, <1>4, <1>5, <1>6, <1>7, <1>8 DEF VNext

DeclaredTypes == schedule \in Nat /\ between \in BOOLEAN

LEMMA DeclaredTyped == VSpec => []DeclaredTypes
<1>1. VInit => DeclaredTypes
  <2>1. VInit => schedule = 0 /\ between = FALSE
    BY DEF VInit
  <2>2. schedule = 0 => schedule \in Nat
    OBVIOUS
  <2>3. between = FALSE => between \in BOOLEAN
    BY Zenon
  <2> QED
    BY <2>1, <2>2, <2>3 DEF DeclaredTypes
<1>2. DeclaredTypes /\ [VNext]_everything => DeclaredTypes'
  <2> SUFFICES ASSUME DeclaredTypes, [VNext]_everything
               PROVE  schedule' \in Nat /\ between' \in BOOLEAN
    BY DEF DeclaredTypes
  <2>1. CASE UNCHANGED declared
    BY <2>1 DEF declared, DeclaredTypes
  <2>2. CASE CorrectSchedule
    <3>1. schedule' = schedule + 1
      BY <2>2 DEF CorrectSchedule
    <3>2. schedule' \in Nat
      BY <3>1 DEF DeclaredTypes
    <3>3. between' = (between \/ Missing \notin {{}, Slots})
      BY <2>2, Zenon DEF CorrectSchedule
    <3>4. between' \in BOOLEAN
      BY <3>3, Zenon
    <3> QED
      BY <3>2, <3>4
  <2> QED
    BY <2>1, <2>2, DeclaredMoves
<1> QED
  BY <1>1, <1>2, PTL DEF VSpec

\* The types of the box, of the office's register, of the files held and of
\* what is declared.
THEOREM VerifierTypeCorrect == VSpec => []VTypeOK
<1>1. RegInv /\ BoxInv /\ DeclaredTypes => VTypeOK
  <2> SUFFICES ASSUME RegInv, BoxInv, DeclaredTypes PROVE VTypeOK
    OBVIOUS
  <2>1. \A s \in Slots : held[s] # NoFile => KindOf(held[s]) \in Slots
    BY DEF BoxInv, FilesHeld, AFile, KindOf, Slots
  <2>2. /\ certified \in SUBSET Keys
        /\ signedVotes \in SUBSET (Keys \X Selections \X Nat)
        /\ accepted \in Seq(Ballots)
        /\ faults \in SUBSET ({"box", "office", "file", "slots"} \union Slots)
        /\ \A head \in boxSigned : IsPrefix(head, accepted)
    BY DEF BoxInv, BoxTypes, BoxStands
  <2> QED
    BY <2>1, <2>2 DEF RegInv, VTypeOK, Ballots, DeclaredTypes
<1>2. VSpec => []RegInv
  BY VerifierKeepsRegister, RegInvariant, PTL
<1> QED
  BY <1>1, <1>2, BoxInvariant, DeclaredTyped, PTL

-----------------------------------------------------------------------------
(* No false alarm.                                                         *)

\* Keys that have voted.
Voted == Cardinality(KeysIn(accepted))

RegisterFile(log, times) ==
    [format |-> "releases", config |-> ConfigFile(Generated, times), entries |-> log,
     head |-> log, headSignature |-> log, count |-> Len(log), countSignature |-> Len(log)]

\* The schedule a file of a slot goes by, or would go by if it were fetched now.
Times(s) ==
    IF held[s] = NoFile THEN schedule
    ELSE IF s = "election" THEN held[s].schedule
    ELSE held[s].config.schedule

\* These differ between two slots once the schedule was corrected between two
\* fetches, and not before.
TimesTell ==
    /\ schedule \in Nat
    /\ between \in BOOLEAN
    /\ \A s \in Slots : Times(s) \in 0..schedule
    /\ between <=> \E s, t \in Slots : Times(s) # Times(t)

\* While nothing has departed from the rules: every ballot is one a key holder
\* made for its place, there are no more voting keys than released tokens, in
\* the register and in the file a restart rebuilds it from, and the files held
\* are the files that were served.
Genuine ==
    /\ ~damaged
    /\ IsFiniteSet(certified)
    /\ \A i \in 1..Len(accepted) :
          /\ accepted[i].key \in certified
          /\ accepted[i].token = accepted[i].key
          /\ accepted[i].nonce = i
          /\ accepted[i].signature =
                SigningPayload(accepted[i].key, accepted[i].selection, accepted[i].nonce)
    /\ ~closed => Cardinality(certified) = Len(releaseLog)
    /\ Voted <= Len(releaseLog)
    /\ closed => Voted <= Len(file.releases)
    /\ held["election"] # NoFile =>
          held["election"] = ConfigFile(Generated, Times("election"))
    /\ held["ledger"] # NoFile =>
          closed /\ held["ledger"] = LedgerFile(accepted, Times("ledger"))
    /\ late => closed
    /\ held["releases"] # NoFile =>
          /\ held["releases"] = RegisterFile(held["releases"].entries, Times("releases"))
          /\ held["releases"].entries \in Seq(Commitments)
          /\ late => Voted <= Len(held["releases"].entries)

GenuineInv == faults = {} => Genuine /\ TimesTell

\* The keys of a record are finitely many.
LEMMA KeysFinite ==
    ASSUME NEW T, NEW log \in Seq(T)
    PROVE  IsFiniteSet(KeysIn(log)) /\ Cardinality(KeysIn(log)) \in Nat
<1>1. Len(log) \in Nat /\ KeysIn(log) = {log[i].key : i \in 1..Len(log)}
  BY KeysByPlace, LenProperties
<1>2. IsFiniteSet(1..Len(log))
  <2>1. 1 \in Int /\ Len(log) \in Int
    BY <1>1
  <2> QED
    BY <2>1, FS_Interval
<1>3. IsFiniteSet({log[i].key : i \in 1..Len(log)})
  <2> DEFINE f == [i \in 1..Len(log) |-> log[i].key]
  <2>1. {log[i].key : i \in 1..Len(log)} = {f[i] : i \in 1..Len(log)}
    OBVIOUS
  <2>2. f \in Surjection(1..Len(log), {f[i] : i \in 1..Len(log)})
    BY DEF Surjection
  <2> HIDE DEF f
  <2> QED
    BY <1>2, <2>1, <2>2, FS_Surjection
<1> QED
  BY <1>1, <1>3, FS_CardinalityType

\* What is read out of a ledger is what was put into it.
LEMMA RecordsOfLedger ==
    ASSUME NEW T, NEW log \in Seq(T), NEW times
    PROVE  /\ Records(LedgerFile(log, times)) = log
           /\ LedgerFile(log, times).entries = Chained(log)
<1>1. LedgerFile(log, times).entries = Chained(log)
  BY DEF LedgerFile
<1>2. DOMAIN Chained(log) = DOMAIN log /\ \A i \in DOMAIN log : Chained(log)[i].record = log[i]
  BY DEF Chained
<1>3. log = [i \in DOMAIN log |-> log[i]]
  OBVIOUS
<1>4. Records(LedgerFile(log, times)) = [i \in DOMAIN log |-> log[i]]
  BY <1>1, <1>2 DEF Records
<1> QED
  BY <1>1, <1>3, <1>4

\* Nothing is put right that has departed from the rules.
LEMMA FaultsStay ==
    ASSUME [VNext]_everything
    PROVE  faults \subseteq faults'
<1>1. ASSUME NEW v \in Citizens, NEW k \in Keys, ReleaseToken(v, k)
      PROVE  faults \subseteq faults'
  BY <1>1 DEF ReleaseToken
<1>2. ASSUME NEW k \in Keys, NEW s \in Selections, Cast(k, s)
      PROVE  faults \subseteq faults'
  BY <1>2 DEF Cast
<1>3. ASSUME NEW k \in Keys, UnrecordedToken(k) PROVE faults \subseteq faults'
  BY <1>3 DEF UnrecordedToken
<1>4. ASSUME NEW r \in Unfounded, BoxTakes(r) PROVE faults \subseteq faults'
  BY <1>4 DEF BoxTakes
<1>5. ASSUME NEW s \in Slots, CopyDiffers(s) PROVE faults \subseteq faults'
  BY <1>5 DEF CopyDiffers
<1>6. ASSUME NEW s \in Slots, NEW t \in Slots, Exchange(s, t) PROVE faults \subseteq faults'
  BY <1>6 DEF Exchange
<1>7. PublishHead \/ ClosePoll \/ CorrectSchedule \/ FetchElection \/ FetchLedger
         \/ FetchReleases \/ RegisterStep
        => faults \subseteq faults'
  BY DEF PublishHead, ClosePoll, CorrectSchedule, FetchElection, FetchLedger, FetchReleases,
         RegisterStep
<1>8. UNCHANGED everything => faults \subseteq faults'
  BY DEF everything
<1> QED
  BY <1>1, <1>2, <1>3, <1>4, <1>5, <1>6, <1>7, <1>8 DEF VNext

\* Before anything has happened.
LEMMA GenuineInit ==
    ASSUME VInit
    PROVE  Genuine
<1>1. /\ certified = {} /\ accepted = <<>> /\ damaged = FALSE /\ closed = FALSE
      /\ releaseLog = <<>> /\ late = FALSE
      /\ held = [s \in Slots |-> NoFile]
  BY DEF VInit, Init
<1>2. Voted = 0
  <2>1. KeysIn(accepted) = {}
    BY <1>1 DEF KeysIn
  <2> QED
    BY <2>1, FS_EmptySet DEF Voted
<1>3. IsFiniteSet(certified) /\ Cardinality(certified) = 0
  BY <1>1, FS_EmptySet
<1>4. held["election"] = NoFile /\ held["ledger"] = NoFile /\ held["releases"] = NoFile
  BY <1>1 DEF Slots
<1>5. Len(<<>>) = 0 /\ Len(accepted) = 0 /\ Len(releaseLog) = 0
  BY <1>1
<1> QED
  BY <1>1, <1>2, <1>3, <1>4, <1>5 DEF Genuine

\* A token released in order: one key more, one entry of the register more.
LEMMA GenuineRelease ==
    ASSUME RegInv, BoxInv, Genuine, NEW v \in Citizens, NEW k \in Keys, ReleaseToken(v, k)
    PROVE  Genuine'
<1> DEFINE entry == Commit(v, Len(releaseLog) + 1)
<1>1. /\ releaseLog' = Append(releaseLog, entry)
      /\ k \notin certified
      /\ certified' = certified \union {k}
      /\ UNCHANGED <<closed, file, damaged, accepted, held, late, schedule>>
  BY DEF ReleaseToken, Release, boxVars, auditor, declared
<1>2. releaseLog \in Seq(Commitments) /\ entry \in Commitments
  BY DEF RegInv, TypeOK, Commit, Commitments
<1> HIDE DEF entry
<1>3. Len(releaseLog) \in Nat /\ Len(releaseLog') = Len(releaseLog) + 1
  BY <1>1, <1>2, AppendProperties, LenProperties
<1>4. Voted \in Nat /\ Voted' = Voted
  <2>1. accepted \in Seq(Ballots)
    BY DEF BoxInv, BoxTypes
  <2> QED
    BY <1>1, <2>1, KeysFinite DEF Voted
<1>5. IsFiniteSet(certified') /\ Cardinality(certified') = Cardinality(certified) + 1
  BY <1>1, FS_AddElement DEF Genuine
<1>6. Voted <= Len(releaseLog')
  BY <1>3, <1>4 DEF Genuine
<1> QED
  BY <1>1, <1>3, <1>4, <1>5, <1>6 DEF Genuine, Times

\* A ballot of a key with a token: no more keys have voted than have one.
LEMMA GenuineCast ==
    ASSUME RegInv, BoxInv, Genuine, NEW k \in Keys, NEW s \in Selections, Cast(k, s)
    PROVE  Genuine'
<1> DEFINE n == Len(accepted) + 1
           r == BallotOf(k, k, s, n, SigningPayload(k, s, n))
<1>1. /\ ~closed
      /\ k \in certified
      /\ accepted' = Append(accepted, r)
      /\ UNCHANGED <<releaseLog, closed, file, damaged, certified, held, late, schedule>>
  BY DEF Cast, register, office, auditor, declared
<1>2. accepted \in Seq(Ballots) /\ Len(accepted) \in Nat
  BY LenProperties DEF BoxInv, BoxTypes
<1>3. r \in Ballots /\ r.key = k /\ r.token = k /\ r.nonce = n /\ r.selection = s
      /\ r.signature = SigningPayload(r.key, r.selection, r.nonce)
  BY <1>2 DEF BallotOf, SigningPayload, Ballots
<1> HIDE DEF r
<1>4. /\ accepted' \in Seq(Ballots)
      /\ Len(accepted') = n
      /\ \A i \in 1..Len(accepted) : accepted'[i] = accepted[i]
      /\ accepted'[n] = r
  BY <1>1, <1>2, <1>3, AppendProperties
<1>5. ASSUME NEW i \in 1..Len(accepted')
      PROVE  /\ accepted'[i].key \in certified
             /\ accepted'[i].token = accepted'[i].key
             /\ accepted'[i].nonce = i
             /\ accepted'[i].signature =
                   SigningPayload(accepted'[i].key, accepted'[i].selection, accepted'[i].nonce)
  <2>1. CASE i = n
    <3>1. accepted'[i] = r
      BY <1>4, <2>1
    <3> QED
      BY <1>1, <1>3, <2>1, <3>1
  <2>2. CASE i # n
    <3>1. i \in 1..Len(accepted)
      BY <1>2, <1>4, <2>2
    <3>2. accepted'[i] = accepted[i]
      BY <1>4, <3>1
    <3> QED
      BY <3>1, <3>2 DEF Genuine
  <2> QED
    BY <2>1, <2>2
<1>6. Voted' <= Len(releaseLog)
  <2>1. KeysIn(accepted') = {accepted'[i].key : i \in 1..Len(accepted')}
    BY <1>4, KeysByPlace
  <2>2. KeysIn(accepted') \subseteq certified
    BY <1>5, <2>1
  <2>3. Cardinality(KeysIn(accepted')) <= Cardinality(certified)
    BY <2>2, FS_Subset DEF Genuine
  <2> QED
    BY <1>1, <2>3 DEF Voted, Genuine
<1>7. held["ledger"] = NoFile /\ ~late
  BY <1>1 DEF Genuine
<1> QED
  BY <1>1, <1>5, <1>6, <1>7 DEF Genuine, Times

\* Where no file was fetched and nothing corrected.
LEMMA TimesRest ==
    ASSUME TimesTell, UNCHANGED <<held, schedule, between>>
    PROVE  TimesTell' /\ \A s \in Slots : Times(s)' = Times(s)
BY DEF TimesTell, Times

\* A file fetched now goes by the schedule of now.
LEMMA TimesFetched ==
    ASSUME TimesTell, DOMAIN held = Slots, UNCHANGED <<schedule, between>>,
           NEW slot \in Slots, held[slot] = NoFile,
           NEW f, held' = [held EXCEPT ![slot] = f],
           (IF slot = "election" THEN f.schedule ELSE f.config.schedule) = schedule
    PROVE  TimesTell' /\ \A s \in Slots : Times(s)' = Times(s)
<1>1. held'[slot] = f /\ \A s \in Slots : s # slot => held'[s] = held[s]
  OBVIOUS
<1>2. Times(slot)' = schedule /\ Times(slot) = schedule
  BY <1>1 DEF Times
<1>3. ASSUME NEW s \in Slots PROVE Times(s)' = Times(s)
  <2>1. CASE s = slot
    BY <1>2, <2>1
  <2>2. CASE s # slot
    BY <1>1, <2>2 DEF Times
  <2> QED
    BY <2>1, <2>2
<1> QED
  BY <1>3 DEF TimesTell

\* A correction tells the files held from the ones still to be fetched.
LEMMA TimesCorrected ==
    ASSUME TimesTell, CorrectSchedule
    PROVE  TimesTell' /\ \A s \in Slots : held[s] # NoFile => Times(s)' = Times(s)
<1>1. /\ schedule \in Nat /\ schedule' = schedule + 1 /\ held' = held
      /\ between' = (between \/ Missing \notin {{}, Slots})
      /\ \A s \in Slots : Times(s) \in 0..schedule
      /\ between <=> \E s, t \in Slots : Times(s) # Times(t)
  BY DEF TimesTell, CorrectSchedule, auditor
<1>2. /\ \A s \in Slots : held[s] # NoFile => Times(s)' = Times(s)
      /\ \A s \in Slots : held[s] = NoFile => Times(s)' = schedule + 1 /\ Times(s) = schedule
  BY <1>1 DEF Times
<1>3. \A s \in Slots : Times(s)' \in 0..schedule'
  BY <1>1, <1>2
<1>4. ASSUME between'
      PROVE  \E s, t \in Slots : Times(s)' # Times(t)'
  <2>1. CASE between
    <3>1. PICK s, t \in Slots : Times(s) # Times(t)
      BY <1>1, <2>1
    <3>2. Times(s) \in 0..schedule /\ Times(t) \in 0..schedule
      BY <1>1
    <3>3. Times(s)' # Times(t)'
      BY <1>1, <1>2, <3>1, <3>2
    <3> QED
      BY <3>3
  <2>2. CASE Missing \notin {{}, Slots}
    <3>1. PICK s, t \in Slots : held[s] # NoFile /\ held[t] = NoFile
      BY <2>2 DEF Missing
    <3>2. Times(s)' = Times(s) /\ Times(s) \in 0..schedule /\ Times(t)' = schedule + 1
      BY <1>1, <1>2, <3>1
    <3>3. Times(s)' # Times(t)'
      BY <1>1, <3>2
    <3> QED
      BY <3>3
  <2> QED
    BY <1>1, <1>4, <2>1, <2>2
<1>5. ASSUME ~between', NEW s \in Slots, NEW t \in Slots
      PROVE  Times(s)' = Times(t)'
  <2>1. Times(s) = Times(t) /\ (held[s] = NoFile <=> held[t] = NoFile)
    BY <1>1, <1>5 DEF Missing
  <2> QED
    BY <1>2, <2>1
<1>6. schedule' \in Nat /\ between' \in BOOLEAN
  BY <1>1 DEF TimesTell
<1> QED
  BY <1>2, <1>3, <1>4, <1>5, <1>6 DEF TimesTell

\* As long as nothing departs from the rules.
LEMMA GenuineStep ==
    ASSUME RegInv, BoxInv, GenuineInv, [VNext]_everything
    PROVE  GenuineInv'
<1> SUFFICES ASSUME faults' = {}
             PROVE  Genuine' /\ TimesTell'
  BY DEF GenuineInv
<1>0. Genuine /\ TimesTell
  BY FaultsStay DEF GenuineInv
<1>a. ASSUME UNCHANGED <<held, declared>>
      PROVE  TimesTell' /\ \A s \in Slots : Times(s)' = Times(s)
  BY <1>0, <1>a, TimesRest DEF declared
<1>b. "election" \in Slots /\ "ledger" \in Slots /\ "releases" \in Slots
  BY DEF Slots
<1>1. ASSUME NEW v \in Citizens, NEW k \in Keys, ReleaseToken(v, k)
      PROVE  Genuine' /\ TimesTell'
  <2>1. UNCHANGED <<held, declared>>
    BY <1>1 DEF ReleaseToken, auditor
  <2> QED
    BY <1>0, <1>1, <1>a, <2>1, GenuineRelease
<1>2. ASSUME NEW k \in Keys, NEW s \in Selections, Cast(k, s)
      PROVE  Genuine' /\ TimesTell'
  <2>1. UNCHANGED <<held, declared>>
    BY <1>2 DEF Cast, auditor
  <2> QED
    BY <1>0, <1>2, <1>a, <2>1, GenuineCast
<1>3. CASE PublishHead
  <2>1. UNCHANGED <<releaseLog, closed, file, damaged, certified, accepted, held, late,
                  declared>>
    BY <1>3 DEF PublishHead, register, office, auditor
  <2> QED
    BY <1>0, <1>a, <1>b, <2>1 DEF Genuine, Voted
<1>4. CASE ClosePoll
  <2>1. /\ closed' = TRUE
        /\ file' = IF file = NoFile THEN StoredState ELSE file
        /\ UNCHANGED <<releaseLog, damaged, certified, accepted, held, late, declared>>
    BY <1>4 DEF ClosePoll, Close, office, auditor
  <2>2. StoredState.releases = releaseLog
    BY DEF StoredState
  <2>3. Voted <= Len(file'.releases)
    <3>1. CASE file = NoFile
      <4>1. file' = StoredState
        BY <2>1, <3>1
      <4> HIDE DEF StoredState
      <4> QED
        BY <1>0, <2>2, <4>1 DEF Genuine
    <3>2. CASE file # NoFile
      <4>1. closed /\ file' = file
        BY <2>1, <3>2 DEF BoxInv, BoxStands
      <4> QED
        BY <1>0, <4>1 DEF Genuine
    <3> QED
      BY <3>1, <3>2
  <2>4. Voted' = Voted
    BY <2>1 DEF Voted
  <2> QED
    BY <1>0, <1>a, <1>b, <2>1, <2>3, <2>4 DEF Genuine
<1>5. CASE RegisterStep
  <2>1. UNCHANGED <<certified, accepted, held, late, declared>>
    BY <1>5 DEF RegisterStep, boxVars, auditor
  <2>2. Voted' = Voted
    BY <2>1 DEF Voted
  <2>3. CASE Download
    <3>1. UNCHANGED <<releaseLog, closed, file, damaged>>
      BY <2>3 DEF Download
    <3> QED
      BY <1>0, <1>a, <1>b, <2>1, <2>2, <3>1 DEF Genuine
  <2>4. CASE Restart
    <3>1. /\ file # NoFile
          /\ releaseLog' = file.releases
          /\ closed' = TRUE
          /\ UNCHANGED <<file, damaged>>
      BY <2>4 DEF Restart, Reproducible
    <3>2. closed
      BY <3>1 DEF BoxInv, BoxStands
    <3>3. Voted <= Len(releaseLog') /\ Voted <= Len(file'.releases)
      BY <1>0, <3>1, <3>2 DEF Genuine
    <3> QED
      BY <1>0, <1>a, <1>b, <2>1, <2>2, <3>1, <3>2, <3>3 DEF Genuine
  <2> QED
    BY <1>5, <2>3, <2>4 DEF RegisterStep
<1>6. CASE FetchLedger
  <2>1. /\ closed /\ held["ledger"] = NoFile
        /\ held' = [held EXCEPT !["ledger"] = LedgerFile(accepted, schedule)]
        /\ UNCHANGED <<releaseLog, closed, file, damaged, certified, accepted, late, schedule,
                       between>>
    BY <1>6 DEF FetchLedger, register, office, boxVars, declared
  <2>2. DOMAIN held = Slots
    BY DEF BoxInv, FilesHeld
  <2>3. /\ held'["ledger"] = LedgerFile(accepted', schedule)
        /\ held'["election"] = held["election"]
        /\ held'["releases"] = held["releases"]
    BY <2>1, <2>2 DEF Slots
  <2>4. Voted' = Voted
    BY <2>1 DEF Voted
  <2>5. LedgerFile(accepted, schedule).config.schedule = schedule
    BY DEF LedgerFile, ConfigFile
  <2>6. TimesTell' /\ \A s \in Slots : Times(s)' = Times(s)
    <3> DEFINE f == LedgerFile(accepted, schedule)
    <3>1. held' = [held EXCEPT !["ledger"] = f] /\ f.config.schedule = schedule
      BY <2>1, <2>5
    <3> HIDE DEF f
    <3>2. "ledger" # "election"
      OBVIOUS
    <3> QED
      BY <1>0, <1>b, <2>1, <2>2, <3>1, <3>2, TimesFetched
  <2>7. Times("ledger") = schedule
    BY <2>1 DEF Times
  <2> QED
    BY <1>0, <1>b, <2>1, <2>3, <2>4, <2>6, <2>7 DEF Genuine
<1>7. CASE FetchReleases
  <2>1. /\ held["releases"] = NoFile
        /\ held' = [held EXCEPT !["releases"] = ReleasesFile]
        /\ late' = closed
        /\ UNCHANGED <<releaseLog, closed, file, damaged, certified, accepted, schedule, between>>
    BY <1>7 DEF FetchReleases, Publish, office, boxVars, declared
  <2>2. DOMAIN held = Slots
    BY DEF BoxInv, FilesHeld
  <2>3. /\ held'["releases"] = ReleasesFile
        /\ held'["election"] = held["election"]
        /\ held'["ledger"] = held["ledger"]
    BY <2>1, <2>2 DEF Slots
  <2>4. /\ ReleasesFile = RegisterFile(releaseLog, schedule)
        /\ ReleasesFile.entries = releaseLog
        /\ ReleasesFile.config.schedule = schedule
    BY DEF ReleasesFile, RegisterFile, HeadHash, ConfigFile
  <2>5. Voted' = Voted
    BY <2>1 DEF Voted
  <2>6. /\ held'["releases"].entries = releaseLog
        /\ held'["releases"] = RegisterFile(releaseLog, schedule)
        /\ releaseLog \in Seq(Commitments)
    BY <2>3, <2>4 DEF RegInv, TypeOK
  <2> HIDE DEF ReleasesFile
  <2>7. TimesTell' /\ \A s \in Slots : Times(s)' = Times(s)
    <3>1. "releases" # "election"
      OBVIOUS
    <3> QED
      BY <1>0, <1>b, <2>1, <2>2, <2>4, <3>1, TimesFetched
  <2>8. Times("releases") = schedule
    BY <2>1 DEF Times
  <2>9. held["election"] # NoFile =>
           held'["election"] = ConfigFile(Generated, Times("election")')
    BY <1>0, <1>b, <2>3, <2>7 DEF Genuine
  <2>10. held["ledger"] # NoFile =>
           closed' /\ held'["ledger"] = LedgerFile(accepted', Times("ledger")')
    BY <1>0, <1>b, <2>1, <2>3, <2>7 DEF Genuine
  <2>11. held'["releases"] = RegisterFile(held'["releases"].entries, Times("releases")')
    BY <1>b, <2>6, <2>7, <2>8
  <2> QED
    BY <1>0, <2>1, <2>3, <2>5, <2>6, <2>7, <2>9, <2>10, <2>11 DEF Genuine
<1>8. ASSUME NEW k \in Keys, UnrecordedToken(k) PROVE Genuine' /\ TimesTell'
  BY <1>8 DEF UnrecordedToken
<1>9. ASSUME NEW r \in Unfounded, BoxTakes(r) PROVE Genuine' /\ TimesTell'
  BY <1>9 DEF BoxTakes
<1>10. ASSUME NEW s \in Slots, CopyDiffers(s) PROVE Genuine' /\ TimesTell'
  BY <1>10 DEF CopyDiffers
<1>11. ASSUME NEW s \in Slots, NEW t \in Slots, Exchange(s, t)
       PROVE Genuine' /\ TimesTell'
  BY <1>11 DEF Exchange
<1>12. CASE UNCHANGED everything
  <2>1. UNCHANGED <<releaseLog, closed, file, damaged, certified, accepted, held, late,
                  declared>>
    BY <1>12 DEF everything, register, office, boxVars, auditor
  <2> QED
    BY <1>0, <1>a, <1>b, <2>1 DEF Genuine, Voted
<1>13. CASE CorrectSchedule
  <2>1. UNCHANGED <<releaseLog, closed, file, damaged, certified, accepted, held, late>>
    BY <1>13 DEF CorrectSchedule, register, office, boxVars, auditor
  <2>2. TimesTell' /\ \A s \in Slots : held[s] # NoFile => Times(s)' = Times(s)
    BY <1>0, <1>13, TimesCorrected
  <2> QED
    BY <1>0, <1>b, <2>1, <2>2 DEF Genuine, Voted
<1>14. CASE FetchElection
  <2>1. /\ held["election"] = NoFile
        /\ held' = [held EXCEPT !["election"] = ConfigFile(Generated, schedule)]
        /\ UNCHANGED <<releaseLog, closed, file, damaged, certified, accepted, late, schedule,
                       between>>
    BY <1>14 DEF FetchElection, register, office, boxVars, declared
  <2>2. DOMAIN held = Slots
    BY DEF BoxInv, FilesHeld
  <2>3. /\ held'["election"] = ConfigFile(Generated, schedule)
        /\ held'["ledger"] = held["ledger"]
        /\ held'["releases"] = held["releases"]
    BY <2>1, <2>2 DEF Slots
  <2>4. Voted' = Voted
    BY <2>1 DEF Voted
  <2>5. ConfigFile(Generated, schedule).schedule = schedule
    BY DEF ConfigFile
  <2>6. TimesTell' /\ \A s \in Slots : Times(s)' = Times(s)
    BY <1>0, <1>b, <2>1, <2>2, <2>5, TimesFetched
  <2>7. Times("election") = schedule
    BY <2>1 DEF Times
  <2> QED
    BY <1>0, <1>b, <2>1, <2>3, <2>4, <2>6, <2>7 DEF Genuine
<1> QED
  BY <1>1, <1>2, <1>3, <1>4, <1>5, <1>6, <1>7, <1>8, <1>9, <1>10, <1>11, <1>12, <1>13,
     <1>14 DEF VNext

\* A verdict is no refusal.
LEMMA VerdictIsNone ==
    ASSUME NEW log \in Seq(Ballots), NEW ok \in BOOLEAN, NEW g \in BOOLEAN
    PROVE  [ok |-> ok, generated |-> g, tally |-> Counted(log)] # Refused
<1> DEFINE f == Final(log)
           of(s) == Cardinality({k \in DOMAIN f : f[k] = s})
           shown == {t \in Selections : Listed(t) \/ t \in {f[k] : k \in DOMAIN f}}
<1>1. Counted(log) = [s \in shown |-> of(s)]
  BY DEF Counted
<1>2. IsFiniteSet(DOMAIN f)
  <2>1. DOMAIN f = KeysIn(log)
    BY KeysByPlace
  <2> HIDE DEF f
  <2> QED
    BY <2>1, KeysFinite
<1> HIDE DEF f
<1>3. ASSUME NEW s PROVE of(s) \in Nat
  <2> DEFINE chose == {k \in DOMAIN f : f[k] = s}
  <2>1. chose \subseteq DOMAIN f
    OBVIOUS
  <2> HIDE DEF chose
  <2>2. IsFiniteSet(chose) /\ Cardinality(chose) \in Nat
    BY <1>2, <2>1, FS_Subset, FS_CardinalityType
  <2> QED
    BY <2>2 DEF chose
<1>4. shown \in SUBSET Selections
  OBVIOUS
<1> HIDE DEF shown, of
<1>5. Counted(log) \in [shown -> Nat]
  BY <1>1, <1>3
<1>6. Counted(log) \in UNION {[S -> Nat] : S \in SUBSET Selections}
  BY <1>4, <1>5
<1> QED
  BY <1>6, VerifierMarkersOK

\* Files as they were served pass, if they go by one schedule.
LEMMA GenuinePasses ==
    ASSUME BoxInv, Genuine, Complete, late, NEW times,
           \A s \in Slots : Times(s) = times
    PROVE  Passes
<1> DEFINE l == held["ledger"]
           r == held["releases"]
           e == held["election"]
           L == r.entries
<1>1. "ledger" \in Slots /\ "releases" \in Slots /\ "election" \in Slots
  BY DEF Slots
<1>2. l # NoFile /\ r # NoFile /\ e # NoFile
  BY <1>1 DEF Complete
<1>3. /\ e = ConfigFile(Generated, times)
      /\ l = LedgerFile(accepted, times)
      /\ r = RegisterFile(L, times)
      /\ Voted <= Len(L)
  BY <1>1, <1>2 DEF Genuine
<1>4. accepted \in Seq(Ballots) /\ Len(accepted) \in Nat /\ DOMAIN accepted = 1..Len(accepted)
  BY LenProperties DEF BoxInv, BoxTypes
<1> HIDE DEF l, r, e
<1>5. /\ l.format = "ledger" /\ l.config = ConfigFile(Generated, times)
      /\ l.entries = Chained(accepted) /\ l.head = accepted /\ l.headSignature = accepted
  BY <1>3 DEF LedgerFile, HeadHash
<1> HIDE DEF L
<1>6. /\ r.format = "releases" /\ r.config = ConfigFile(Generated, times)
      /\ r.entries = L /\ r.head = L /\ r.headSignature = L
      /\ r.count = Len(L) /\ r.countSignature = Len(L)
  BY <1>3 DEF RegisterFile
<1>7. e.format = "election" /\ e.generated = Generated
  BY <1>3 DEF ConfigFile
<1>8. Records(l) = accepted
  BY <1>3, <1>4, RecordsOfLedger
<1>9. InOwnSlots(held)
  BY <1>5, <1>6, <1>7 DEF InOwnSlots, KindOf, Slots, l, r, e
<1>10. DescribesElection(held)
  BY <1>3, <1>5, <1>6 DEF DescribesElection, l, r, e
<1>11. EveryTokenSigned(accepted) /\ EveryVoteSigned(accepted)
  BY <1>4 DEF Genuine, EveryTokenSigned, EveryVoteSigned
<1>12. NoneTwice(accepted)
  <2>1. \A i, j \in DOMAIN accepted : accepted[i] = accepted[j] => i = j
    <3>1. \A i \in DOMAIN accepted : accepted[i].nonce = i
      BY <1>4 DEF Genuine
    <3> QED
      BY <3>1
  <2> QED
    BY <1>4, <2>1, EntriesCounted DEF NoneTwice
<1>13. RegistryIntact(l)
  BY <1>5, <1>8 DEF RegistryIntact, HeadHash
<1>14. RegisterAccounted(r)
  BY <1>6 DEF RegisterAccounted, HeadHash
<1>15. CountAudit(accepted, r)
  <2>1. DOMAIN Final(accepted) = KeysIn(accepted)
    BY <1>4, KeysByPlace
  <2> QED
    BY <1>3, <1>6, <2>1 DEF CountAudit, Voted
<1>16. Verdict = [ok |-> TRUE, generated |-> Generated, tally |-> Counted(accepted)]
  <2>1. Verdict = RunChecks(held)
    BY <1>9 DEF Verdict, PostCheck
  <2> QED
    BY <1>7, <1>8, <1>10, <1>11, <1>12, <1>13, <1>14, <1>15, <2>1 DEF RunChecks, l, r, e
<1>17. Verdict # Refused /\ Verdict.ok
  <2>1. Generated \in BOOLEAN
    BY VerifierConstantsOK
  <2>2. Verdict # Refused
    BY <1>4, <1>16, <2>1, VerdictIsNone
  <2> QED
    BY <1>16, <2>2
<1> QED
  BY <1>17 DEF Passes

\* Files as they were served that go by two schedules do not.
LEMMA GenuineRefused ==
    ASSUME Genuine, Complete, Passes,
           NEW s \in Slots, NEW t \in Slots
    PROVE  Times(s) = Times(t)
<1> DEFINE l == held["ledger"]
           r == held["releases"]
           e == held["election"]
<1>1. l # NoFile /\ r # NoFile /\ e # NoFile
  BY DEF Complete, Slots
<1>2. /\ e = ConfigFile(Generated, Times("election"))
      /\ l = LedgerFile(accepted, Times("ledger"))
      /\ r = RegisterFile(r.entries, Times("releases"))
  BY <1>1 DEF Genuine
<1>3. l.config = e /\ r.config = e
  <2>1. RunChecks(held).ok
    BY DEF Passes, Verdict, PostCheck
  <2>2. DescribesElection(held)
    BY <2>1 DEF RunChecks
  <2> QED
    BY <2>2 DEF DescribesElection
<1> HIDE DEF l, r, e
<1>4. /\ l.config = ConfigFile(Generated, Times("ledger"))
      /\ r.config = ConfigFile(Generated, Times("releases"))
  BY <1>2 DEF LedgerFile, RegisterFile
<1>5. \A m, n : ConfigFile(Generated, m) = ConfigFile(Generated, n) => m = n
  <2>1. \A m : ConfigFile(Generated, m).schedule = m
    BY DEF ConfigFile
  <2> QED
    BY <2>1
<1>6. Times("ledger") = Times("election") /\ Times("releases") = Times("election")
  BY <1>2, <1>3, <1>4, <1>5
<1> QED
  BY <1>6 DEF Slots

\* GenuineRecordPasses: for any number of citizens, ballots, restarts and
\* corrections of the schedule, for tokens released before the close and after
\* it, no false alarm but that of a correction between two fetches
\* (`tools/verify_election.py`, every check of it; POST /schedule).
THEOREM NoFalseAlarm == VSpec => []GenuineRecordPasses
<1>1. VInit => GenuineInv
  <2> SUFFICES ASSUME VInit PROVE Genuine /\ TimesTell
    BY DEF GenuineInv
  <2>1. schedule = 0 /\ between = FALSE /\ \A s \in Slots : held[s] = NoFile
    BY DEF VInit
  <2>2. \A s \in Slots : Times(s) = 0
    BY <2>1 DEF Times
  <2>3. schedule \in Nat /\ \A s \in Slots : Times(s) \in 0..schedule
    BY <2>1, <2>2
  <2>4. between \in BOOLEAN
    BY <2>1, Zenon
  <2>5. ~between /\ \A s, t \in Slots : Times(s) = Times(t)
    BY <2>1, <2>2
  <2> QED
    BY <2>3, <2>4, <2>5, GenuineInit DEF TimesTell
<1>2. RegInv /\ BoxInv /\ GenuineInv /\ [VNext]_everything => GenuineInv'
  BY GenuineStep
<1>3. BoxInv /\ GenuineInv => GenuineRecordPasses
  <2> SUFFICES ASSUME BoxInv, Genuine, TimesTell, Complete, late
               PROVE  Passes <=> ~between
    BY DEF GenuineInv, GenuineRecordPasses
  <2>1. ASSUME Passes PROVE ~between
    BY <2>1, GenuineRefused DEF TimesTell
  <2>2. ASSUME ~between PROVE Passes
    <3>1. PICK times : times = Times("election")
      OBVIOUS
    <3>2. \A s \in Slots : Times(s) = times
      BY <2>2, <3>1 DEF TimesTell, Slots
    <3> QED
      BY <3>2, GenuinePasses
  <2> QED
    BY <2>1, <2>2
<1>4. VSpec => []RegInv
  BY VerifierKeepsRegister, RegInvariant, PTL
<1>5. VSpec => []BoxInv
  BY BoxInvariant
<1> QED
  BY <1>1, <1>2, <1>3, <1>4, <1>5, PTL DEF VSpec
=============================================================================

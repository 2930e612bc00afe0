------------------------ MODULE ReleaseRegister_proofs ------------------------
(***************************************************************************)
(* Theorems about the release register: for any citizens, in any order of  *)
(* their identifiers, any number of restarts and any damage to the file.   *)
(***************************************************************************)
EXTENDS ReleaseRegister, SequenceLemmas

-----------------------------------------------------------------------------
(* What a loop keeps.  Its definition is a recursive function, of which    *)
(* there is one, and only one.                                             *)

\* f[n] is what the loop has kept of the first n entries, for n up to m.
KeptSoFar(s, S, m, f) ==
    f = [n \in 0..m |-> IF n = 0 THEN <<>>
                        ELSE IF s[n] \in S THEN Append(f[n - 1], s[n])
                        ELSE f[n - 1]]

\* A loop over one entry more goes on from what was kept.
LEMMA KeptExtends ==
    ASSUME NEW s, NEW S, NEW m \in Nat, NEW f, KeptSoFar(s, S, m, f)
    PROVE  KeptSoFar(s, S, m + 1,
                     [n \in 0..(m + 1) |->
                         IF n = m + 1 THEN IF s[n] \in S THEN Append(f[m], s[n]) ELSE f[m]
                         ELSE f[n]])
<1> DEFINE g == [n \in 0..(m + 1) |->
                    IF n = m + 1 THEN IF s[n] \in S THEN Append(f[m], s[n]) ELSE f[m]
                    ELSE f[n]]
           next == [n \in 0..(m + 1) |-> IF n = 0 THEN <<>>
                        ELSE IF s[n] \in S THEN Append(g[n - 1], s[n])
                        ELSE g[n - 1]]
<1>1. \A n \in 0..m : f[n] = IF n = 0 THEN <<>>
                             ELSE IF s[n] \in S THEN Append(f[n - 1], s[n])
                             ELSE f[n - 1]
  BY DEF KeptSoFar
<1>2. ASSUME NEW n \in 0..(m + 1)
      PROVE  g[n] = next[n]
  <2>1. CASE n = m + 1
    <3>1. g[n] = IF s[n] \in S THEN Append(f[m], s[n]) ELSE f[m]
      BY <2>1
    <3>2. g[n - 1] = f[m]
      BY <2>1
    <3>3. next[n] = IF s[n] \in S THEN Append(g[n - 1], s[n]) ELSE g[n - 1]
      BY <2>1
    <3> QED
      BY <3>1, <3>2, <3>3
  <2>2. CASE n # m + 1 /\ n # 0
    <3>1. n \in 0..m /\ n - 1 \in 0..m /\ n - 1 # m + 1
      BY <2>2
    <3>2. g[n] = f[n] /\ g[n - 1] = f[n - 1]
      BY <2>2, <3>1
    <3>3. next[n] = IF s[n] \in S THEN Append(g[n - 1], s[n]) ELSE g[n - 1]
      BY <2>2
    <3> QED
      BY <1>1, <2>2, <3>1, <3>2, <3>3
  <2>3. CASE n # m + 1 /\ n = 0
    BY <1>1, <2>3
  <2> QED
    BY <2>1, <2>2, <2>3
<1>3. g = next
  <2>1. g = [n \in 0..(m + 1) |-> g[n]] /\ next = [n \in 0..(m + 1) |-> next[n]]
    OBVIOUS
  <2> HIDE DEF g, next
  <2> QED
    BY <1>2, <2>1
<1> QED
  BY <1>3 DEF KeptSoFar

\* There is such a function.
LEMMA KeptExists ==
    ASSUME NEW s, NEW S, NEW m \in Nat
    PROVE  \E f : KeptSoFar(s, S, m, f)
<1> DEFINE Without == {k \in Nat : ~ \E f : KeptSoFar(s, S, k, f)}
<1> SUFFICES ASSUME Without # {} PROVE FALSE
  OBVIOUS
<1>1. PICK k \in Without : \A j \in Without : k <= j
  <2>1. Without \in SUBSET Nat
    OBVIOUS
  <2> HIDE DEF Without
  <2> QED
    BY <2>1, LeastNatural
<1>2. KeptSoFar(s, S, 0, [n \in 0..0 |-> <<>>])
  BY DEF KeptSoFar
<1>3. k # 0
  BY <1>2
<1>4. k - 1 \in Nat /\ k - 1 \notin Without /\ k = (k - 1) + 1
  BY <1>1, <1>3
<1>5. PICK f : KeptSoFar(s, S, k - 1, f)
  BY <1>4
<1>6. \E g : KeptSoFar(s, S, (k - 1) + 1, g)
  BY <1>4, <1>5, KeptExtends
<1> QED
  BY <1>1, <1>4, <1>6

\* Two of them agree as far as both go.
LEMMA KeptUnique ==
    ASSUME NEW s, NEW S, NEW m \in Nat, NEW n \in Nat, m <= n, NEW f, NEW g,
           KeptSoFar(s, S, m, f), KeptSoFar(s, S, n, g)
    PROVE  \A k \in 0..m : f[k] = g[k]
<1> DEFINE Differ == {k \in 0..m : f[k] # g[k]}
<1> SUFFICES ASSUME Differ # {} PROVE FALSE
  OBVIOUS
<1>1. PICK k \in Differ : \A j \in Differ : k <= j
  <2>1. Differ \in SUBSET Nat
    OBVIOUS
  <2> HIDE DEF Differ
  <2> QED
    BY <2>1, LeastNatural
<1>2. k \in 0..m /\ k \in 0..n
  BY <1>1
<1>3. f[k] = IF k = 0 THEN <<>> ELSE IF s[k] \in S THEN Append(f[k - 1], s[k]) ELSE f[k - 1]
  BY <1>2 DEF KeptSoFar
<1>4. g[k] = IF k = 0 THEN <<>> ELSE IF s[k] \in S THEN Append(g[k - 1], s[k]) ELSE g[k - 1]
  BY <1>2 DEF KeptSoFar
<1>5. k # 0 => k - 1 \in 0..m /\ k - 1 \notin Differ
  BY <1>1, <1>2
<1>6. k # 0 => f[k - 1] = g[k - 1]
  BY <1>5
<1>7. f[k] = g[k]
  BY <1>3, <1>4, <1>6
<1> QED
  BY <1>1, <1>7

\* `Kept` is its value at the last entry.
LEMMA KeptIs ==
    ASSUME NEW s, NEW S, Len(s) \in Nat, NEW f, KeptSoFar(s, S, Len(s), f)
    PROVE  Kept(s, S) = f[Len(s)]
<1> DEFINE loop == CHOOSE h : h = [n \in 0..Len(s) |->
                        IF n = 0 THEN <<>>
                        ELSE IF s[n] \in S THEN Append(h[n - 1], s[n])
                        ELSE h[n - 1]]
<1>1. Kept(s, S) = loop[Len(s)]
  BY DEF Kept
<1>2. KeptSoFar(s, S, Len(s), loop)
  BY DEF KeptSoFar
<1> HIDE DEF loop
<1> QED
  BY <1>1, <1>2, KeptUnique

\* What is kept is of the sequence and of the set, in the sequence's order.
LEMMA KeptMeans ==
    ASSUME NEW T, NEW s \in Seq(T), NEW S
    PROVE  /\ Kept(s, S) \in Seq(T)
           /\ ToSet(Kept(s, S)) = ToSet(s) \intersect S
<1>1. Len(s) \in Nat /\ DOMAIN s = 1..Len(s) /\ \A i \in 1..Len(s) : s[i] \in T
  OBVIOUS
<1>2. PICK f : KeptSoFar(s, S, Len(s), f)
  BY <1>1, KeptExists
<1> DEFINE Upto(n) == {s[i] : i \in 1..n}
           Good(n) == f[n] \in Seq(T) /\ ToSet(f[n]) = Upto(n) \intersect S
           Bad == {n \in 0..Len(s) : ~Good(n)}
<1>3. Bad = {}
  <2> SUFFICES ASSUME Bad # {} PROVE FALSE
    OBVIOUS
  <2>1. PICK n \in Bad : \A j \in Bad : n <= j
    <3>1. Bad \in SUBSET Nat
      OBVIOUS
    <3> HIDE DEF Bad
    <3> QED
      BY <3>1, LeastNatural
  <2>2. n \in 0..Len(s)
    BY <2>1
  <2>3. f[n] = IF n = 0 THEN <<>> ELSE IF s[n] \in S THEN Append(f[n - 1], s[n]) ELSE f[n - 1]
    BY <1>2, <2>2 DEF KeptSoFar
  <2>4. CASE n = 0
    <3>1. f[n] = <<>> /\ Upto(n) = {}
      BY <2>3, <2>4
    <3>2. ToSet(<<>>) = {} /\ <<>> \in Seq(T)
      BY DEF ToSet
    <3>3. Good(n)
      BY <3>1, <3>2
    <3> QED
      BY <2>1, <3>3
  <2>5. CASE n # 0
    <3>1. n - 1 \in 0..Len(s) /\ n - 1 \notin Bad /\ n \in 1..Len(s)
      <4> HIDE DEF Good, Bad
      <4>1. n - 1 \in 0..Len(s) /\ n \in 1..Len(s) /\ ~(n <= n - 1)
        BY <1>1, <2>2, <2>5
      <4> QED
        BY <2>1, <4>1
    <3>7. Good(n - 1)
      <4> HIDE DEF Good
      <4> QED
        BY <3>1
    <3>2. f[n - 1] \in Seq(T) /\ ToSet(f[n - 1]) = Upto(n - 1) \intersect S
      BY <3>7
    <3>3. Upto(n) = Upto(n - 1) \union {s[n]}
      <4>1. \A i \in 1..n : i = n \/ i \in 1..(n - 1)
        BY <3>1
      <4>2. \A i \in 1..(n - 1) : i \in 1..n
        BY <3>1
      <4>3. n \in 1..n
        BY <3>1
      <4> QED
        BY <4>1, <4>2, <4>3
    <3>4. s[n] \in T
      BY <1>1, <3>1
    <3>5. CASE s[n] \in S
      <4> DEFINE before == f[n - 1]
      <4>1. f[n] = Append(before, s[n]) /\ before \in Seq(T)
        BY <2>3, <2>5, <3>2, <3>5
      <4> HIDE DEF before
      <4>2. f[n] \in Seq(T) /\ ToSet(f[n]) = ToSet(before) \union {s[n]}
        <5>1. /\ f[n] \in Seq(T)
              /\ Len(f[n]) = Len(before) + 1
              /\ \A i \in 1..Len(before) : f[n][i] = before[i]
              /\ f[n][Len(before) + 1] = s[n]
          BY <3>4, <4>1, AppendProperties
        <5>2. /\ DOMAIN f[n] = 1..(Len(before) + 1)
              /\ DOMAIN before = 1..Len(before)
              /\ Len(before) \in Nat
          BY <4>1, <5>1, LenProperties
        <5>3. \A i \in 1..(Len(before) + 1) : i = Len(before) + 1 \/ i \in 1..Len(before)
          BY <5>2
        <5>4. \A i \in 1..Len(before) : i \in 1..(Len(before) + 1)
          BY <5>2
        <5>5. Len(before) + 1 \in 1..(Len(before) + 1)
          BY <5>2
        <5>6. ToSet(f[n]) \subseteq ToSet(before) \union {s[n]}
          BY <5>1, <5>2, <5>3 DEF ToSet
        <5>7. ToSet(before) \union {s[n]} \subseteq ToSet(f[n])
          BY <5>1, <5>2, <5>4, <5>5 DEF ToSet
        <5> QED
          BY <5>1, <5>6, <5>7
      <4>3. Good(n)
        BY <3>2, <3>3, <3>5, <4>2 DEF before
      <4> QED
        BY <2>1, <4>3
    <3>6. CASE s[n] \notin S
      <4>1. f[n] = f[n - 1]
        BY <2>3, <2>5, <3>6
      <4>2. Good(n)
        BY <3>2, <3>3, <3>6, <4>1
      <4> QED
        BY <2>1, <4>2
    <3> QED
      BY <3>5, <3>6
  <2> QED
    BY <2>4, <2>5
<1>4. Good(Len(s))
  <2> HIDE DEF Good
  <2>1. Len(s) \in 0..Len(s)
    BY <1>1
  <2> QED
    BY <1>3, <2>1
<1>5. Kept(s, S) = f[Len(s)]
  BY <1>1, <1>2, KeptIs
<1>6. Upto(Len(s)) = ToSet(s)
  BY <1>1 DEF ToSet
<1> QED
  BY <1>4, <1>5, <1>6

\* Whether an entry that is appended is kept does not bear on the others.
LEMMA KeptOfAppend ==
    ASSUME NEW T, NEW s \in Seq(T), NEW e \in T, NEW S
    PROVE  Kept(Append(s, e), S) = IF e \in S THEN Append(Kept(s, S), e) ELSE Kept(s, S)
<1> DEFINE t == Append(s, e)
           n == Len(s)
<1>1. n \in Nat /\ Len(t) = n + 1 /\ t[n + 1] = e /\ \A i \in 1..n : t[i] = s[i]
  BY AppendProperties
<1> HIDE DEF t
<1>2. PICK f : KeptSoFar(t, S, n + 1, f)
  <2>1. n + 1 \in Nat
    BY <1>1
  <2> HIDE DEF n
  <2> QED
    BY <2>1, KeptExists
<1>3. PICK g : KeptSoFar(s, S, n, g)
  BY <1>1, KeptExists
<1>4. KeptSoFar(t, S, n, g)
  <2>1. \A i \in 0..n : g[i] = IF i = 0 THEN <<>>
                                ELSE IF s[i] \in S THEN Append(g[i - 1], s[i]) ELSE g[i - 1]
    BY <1>3 DEF KeptSoFar
  <2>2. \A i \in 0..n : i = 0 \/ t[i] = s[i]
    BY <1>1
  <2>3. \A i \in 0..n : g[i] = IF i = 0 THEN <<>>
                                ELSE IF t[i] \in S THEN Append(g[i - 1], t[i]) ELSE g[i - 1]
    BY <2>1, <2>2
  <2>4. g = [i \in 0..n |-> g[i]]
    BY <1>3 DEF KeptSoFar
  <2> HIDE DEF n
  <2> QED
    BY <2>3, <2>4 DEF KeptSoFar
<1>5. f[n] = g[n]
  <2>1. n \in Nat /\ n + 1 \in Nat /\ n <= n + 1 /\ n \in 0..n
    BY <1>1
  <2> HIDE DEF n
  <2>2. \A k \in 0..n : g[k] = f[k]
    BY <1>2, <1>4, <2>1, KeptUnique
  <2> QED
    BY <2>1, <2>2
<1>6. f[n + 1] = IF e \in S THEN Append(f[n], e) ELSE f[n]
  <2>1. n + 1 \in 0..(n + 1) /\ n + 1 # 0 /\ (n + 1) - 1 = n
    BY <1>1
  <2> HIDE DEF n
  <2> QED
    BY <1>1, <1>2, <2>1 DEF KeptSoFar
<1>7. Kept(t, S) = f[n + 1]
  BY <1>1, <1>2, KeptIs
<1>8. Kept(s, S) = g[n]
  BY <1>1, <1>3, KeptIs
<1> QED
  BY <1>5, <1>6, <1>7, <1>8 DEF t

\* Only what is in the sequence matters of the set.
LEMMA KeptSame ==
    ASSUME NEW T, NEW s \in Seq(T), NEW S, NEW R, ToSet(s) \intersect S = ToSet(s) \intersect R
    PROVE  Kept(s, S) = Kept(s, R)
<1>1. Len(s) \in Nat /\ \A i \in 1..Len(s) : s[i] \in S <=> s[i] \in R
  BY DEF ToSet
<1>2. PICK f : KeptSoFar(s, S, Len(s), f)
  BY <1>1, KeptExists
<1>3. KeptSoFar(s, R, Len(s), f)
  <2>1. \A i \in 0..Len(s) : f[i] = IF i = 0 THEN <<>>
                                     ELSE IF s[i] \in S THEN Append(f[i - 1], s[i]) ELSE f[i - 1]
    BY <1>2 DEF KeptSoFar
  <2>2. \A i \in 0..Len(s) : i = 0 \/ (s[i] \in S <=> s[i] \in R)
    BY <1>1
  <2>3. \A i \in 0..Len(s) : f[i] = IF i = 0 THEN <<>>
                                     ELSE IF s[i] \in R THEN Append(f[i - 1], s[i]) ELSE f[i - 1]
    BY <2>1, <2>2
  <2>4. f = [i \in 0..Len(s) |-> f[i]]
    BY <1>2 DEF KeptSoFar
  <2> QED
    BY <2>3, <2>4 DEF KeptSoFar
<1> QED
  BY <1>1, <1>2, <1>3, KeptIs

\* A sequence of which the first m entries are in the set, and no other is.
LEMMA KeptBeginning ==
    ASSUME NEW T, NEW s \in Seq(T), NEW S, NEW m \in 0..Len(s),
           \A i \in 1..Len(s) : s[i] \in S <=> i <= m
    PROVE  Kept(s, S) = SubSeq(s, 1, m)
<1> DEFINE f == [n \in 0..Len(s) |-> IF n <= m THEN SubSeq(s, 1, n) ELSE SubSeq(s, 1, m)]
           next == [n \in 0..Len(s) |-> IF n = 0 THEN <<>>
                        ELSE IF s[n] \in S THEN Append(f[n - 1], s[n])
                        ELSE f[n - 1]]
<1>1. Len(s) \in Nat /\ m \in Nat /\ m <= Len(s) /\ \A i \in 1..Len(s) : s[i] \in T
  OBVIOUS
<1>2. \A n \in 1..Len(s) : SubSeq(s, 1, n) = Append(SubSeq(s, 1, n - 1), s[n])
  BY BeginningGrows
<1>3. ASSUME NEW n \in 0..Len(s)
      PROVE  f[n] = next[n]
  <2>1. CASE n = 0
    <3>1. SubSeq(s, 1, 0) = <<>>
      BY SubSeqEmpty
    <3> QED
      BY <1>1, <2>1, <3>1
  <2>2. CASE n # 0 /\ n <= m
    <3>1. n \in 1..Len(s) /\ n - 1 \in 0..Len(s) /\ n - 1 <= m
      BY <1>1, <2>2
    <3>2. f[n - 1] = SubSeq(s, 1, n - 1) /\ f[n] = SubSeq(s, 1, n)
      BY <2>2, <3>1
    <3>3. next[n] = Append(f[n - 1], s[n])
      BY <2>2, <3>1
    <3> HIDE DEF f, next
    <3> QED
      BY <1>2, <3>1, <3>2, <3>3
  <2>3. CASE n # 0 /\ ~(n <= m)
    <3>1. n \in 1..Len(s) /\ n - 1 \in 0..Len(s) /\ (n - 1 <= m => n - 1 = m)
      BY <1>1, <2>3
    <3>2. f[n - 1] = SubSeq(s, 1, m) /\ f[n] = SubSeq(s, 1, m)
      BY <2>3, <3>1
    <3>3. next[n] = f[n - 1]
      BY <2>3, <3>1
    <3> HIDE DEF f, next
    <3> QED
      BY <3>2, <3>3
  <2> QED
    BY <2>1, <2>2, <2>3
<1>4. f = next
  <2>1. f = [n \in 0..Len(s) |-> f[n]] /\ next = [n \in 0..Len(s) |-> next[n]]
    OBVIOUS
  <2> HIDE DEF f, next
  <2> QED
    BY <1>3, <2>1
<1>5. KeptSoFar(s, S, Len(s), f)
  BY <1>4 DEF KeptSoFar
<1>6. f[Len(s)] = SubSeq(s, 1, m)
  BY <1>1
<1> HIDE DEF f
<1> QED
  BY <1>1, <1>5, <1>6, KeptIs

\* Nobody is named twice.
Distinct(entries) ==
    \A i, j \in DOMAIN entries : entries[i].voter = entries[j].voter => i = j

\* What is kept of a register that names nobody twice names nobody twice.
LEMMA KeptDistinct ==
    ASSUME NEW T, NEW s \in Seq(T), NEW S, Distinct(s)
    PROVE  Distinct(Kept(s, S))
<1>0. \A w \in Seq(T), e \in T :
         Kept(Append(w, e), S) = IF e \in S THEN Append(Kept(w, S), e) ELSE Kept(w, S)
  BY KeptOfAppend
<1> DEFINE Good(n) == Distinct(Kept(SubSeq(s, 1, n), S))
           Bad == {n \in 0..Len(s) : ~Good(n)}
<1>1. Len(s) \in Nat /\ DOMAIN s = 1..Len(s) /\ \A i \in 1..Len(s) : s[i] \in T
  OBVIOUS
<1> SUFFICES ASSUME Bad # {} PROVE FALSE
  <2>1. Len(s) \in 0..Len(s) /\ SubSeq(s, 1, Len(s)) = s
    BY <1>1, SubSeqFull
  <2> QED
    BY <2>1
<1>2. PICK n \in Bad : \A j \in Bad : n <= j
  <2>1. Bad \in SUBSET Nat
    OBVIOUS
  <2> HIDE DEF Bad
  <2> QED
    BY <2>1, LeastNatural
<1>3. n \in 0..Len(s) /\ ~Good(n)
  BY <1>2
<1>4. n # 0
  <2>1. SubSeq(s, 1, 0) = <<>> /\ <<>> \in Seq(T)
    BY SubSeqEmpty
  <2> DEFINE none == SubSeq(s, 1, 0)
  <2>2. none \in Seq(T) /\ ToSet(none) = {}
    BY <2>1 DEF ToSet
  <2> HIDE DEF none
  <2>3. ToSet(Kept(none, S)) = {}
    BY <2>2, KeptMeans
  <2>4. Distinct(Kept(none, S))
    BY <2>3 DEF Distinct, ToSet
  <2> QED
    BY <1>3, <2>4 DEF none
<1>5. n \in 1..Len(s) /\ Good(n - 1)
  <2>1. n \in 1..Len(s) /\ n - 1 \in 0..Len(s) /\ ~(n <= n - 1)
    BY <1>1, <1>3, <1>4
  <2> HIDE DEF Good
  <2> QED
    BY <1>2, <2>1
<1> DEFINE u == SubSeq(s, 1, n - 1)
           kept == Kept(u, S)
<1>6. u \in Seq(T) /\ ToSet(u) = {s[i] : i \in 1..(n - 1)}
  <2>1. \A i \in 1..(n - 1) : s[i] \in T
    BY <1>1, <1>5
  <2>2. /\ u \in Seq(T)
        /\ Len(u) = n - 1
        /\ \A i \in 1..(n - 1) : u[i] = s[i]
    BY <1>1, <1>5, <2>1
  <2>3. DOMAIN u = 1..(n - 1)
    BY <2>2, LenProperties
  <2> HIDE DEF u
  <2> QED
    BY <2>2, <2>3 DEF ToSet
<1>7. SubSeq(s, 1, n) = Append(u, s[n])
  BY <1>5, BeginningGrows
<1> HIDE DEF u
<1>8. kept \in Seq(T) /\ ToSet(kept) \subseteq ToSet(u)
  BY <1>6, KeptMeans
<1>9. Distinct(kept)
  BY <1>5 DEF u
<1>10. s[n] \in T
  BY <1>1, <1>5
<1> HIDE DEF kept
<1>11. Distinct(Append(kept, s[n]))
  <2>1. \A i \in DOMAIN kept : kept[i].voter # s[n].voter
    <3> TAKE i \in DOMAIN kept
    <3>1. kept[i] \in ToSet(u)
      BY <1>8 DEF ToSet
    <3>2. PICK k \in 1..(n - 1) : kept[i] = s[k]
      BY <1>6, <3>1
    <3>3. k # n /\ k \in DOMAIN s /\ n \in DOMAIN s
      BY <1>1, <1>5
    <3> QED
      BY <3>2, <3>3 DEF Distinct
  <2>2. /\ DOMAIN kept = 1..Len(kept) /\ Len(kept) \in Nat
        /\ DOMAIN Append(kept, s[n]) = 1..(Len(kept) + 1)
        /\ \A i \in 1..Len(kept) : Append(kept, s[n])[i] = kept[i]
        /\ Append(kept, s[n])[Len(kept) + 1] = s[n]
    BY <1>8, <1>10
  <2>3. \A i \in 1..(Len(kept) + 1) : i \in 1..Len(kept) \/ i = Len(kept) + 1
    BY <2>2
  <2> QED
    BY <1>9, <2>1, <2>2, <2>3 DEF Distinct
<1>12. Kept(SubSeq(s, 1, n), S) = IF s[n] \in S THEN Append(kept, s[n]) ELSE kept
  <2> HIDE DEF Good, Bad
  <2>1. Kept(Append(u, s[n]), S) = IF s[n] \in S THEN Append(Kept(u, S), s[n]) ELSE Kept(u, S)
    BY <1>0, <1>6, <1>10
  <2> QED
    BY <1>7, <2>1 DEF kept
<1>13. Good(n)
  BY <1>9, <1>11, <1>12
<1> QED
  BY <1>3, <1>13

-----------------------------------------------------------------------------
(* The order of the file.                                                  *)

\* A dictionary can be sorted by its keys, and has the same entries then.
LEMMA SortedMeans ==
    ASSUME NEW entries \in Seq(Commitments), Distinct(entries)
    PROVE  /\ Sorted(entries) \in Seq(Commitments)
           /\ ToSet(Sorted(entries)) = ToSet(entries)
           /\ Distinct(Sorted(entries))
<1> DEFINE S == ToSet(entries)
           n == Len(entries)
           Below(e) == {d \in S : Rank[d.voter] <= Rank[e.voter]}
           pos == [e \in S |-> Cardinality(Below(e))]
<1>1. n \in Nat /\ DOMAIN entries = 1..n /\ S \subseteq Commitments
  BY DEF ToSet
<1>2. \A e \in S : e.voter \in Citizens /\ Rank[e.voter] \in Nat
  BY <1>1, RegisterConstantsOK DEF Commitments
<1>3. \A d, e \in S : d.voter = e.voter => d = e
  BY DEF Distinct, ToSet
<1>4. IsFiniteSet(S) /\ Cardinality(S) = n
  <2>1. \A i, j \in DOMAIN entries : entries[i] = entries[j] => i = j
    BY DEF Distinct
  <2> QED
    BY <2>1, EntriesCounted
<1> HIDE DEF S, n
<1>5. ASSUME NEW e \in S
      PROVE  IsFiniteSet(Below(e)) /\ Cardinality(Below(e)) \in 1..n
  <2>1. Below(e) \subseteq S /\ e \in Below(e)
    BY <1>2
  <2> HIDE DEF Below
  <2>2. IsFiniteSet(Below(e)) /\ Cardinality(Below(e)) <= n
    BY <1>4, <2>1, FS_Subset
  <2>3. Cardinality(Below(e)) \in Nat
    BY <2>2, FS_CardinalityType
  <2>4. Cardinality(Below(e)) # 0
    BY <2>1, <2>2, FS_EmptySet
  <2> QED
    BY <1>1, <2>2, <2>3, <2>4
<1>6. ASSUME NEW d \in S, NEW e \in S, Rank[d.voter] < Rank[e.voter]
      PROVE  Cardinality(Below(d)) < Cardinality(Below(e))
  <2>1. Below(d) \subseteq Below(e)
    BY <1>2, <1>6
  <2>2. e \in Below(e) /\ e \notin Below(d)
    BY <1>2, <1>6
  <2> HIDE DEF Below
  <2>3. /\ IsFiniteSet(Below(e))
        /\ Cardinality(Below(e)) \in Nat
        /\ Cardinality(Below(d)) \in Nat
    BY <1>1, <1>5
  <2>4. Cardinality(Below(d)) <= Cardinality(Below(e))
    BY <2>1, <2>3, FS_Subset
  <2>5. Cardinality(Below(d)) # Cardinality(Below(e))
    BY <2>1, <2>2, <2>3, FS_Subset
  <2> QED
    BY <2>3, <2>4, <2>5
<1>7. pos \in Injection(S, 1..n)
  <2>1. pos \in [S -> 1..n]
    BY <1>5
  <2>2. ASSUME NEW d \in S, NEW e \in S, pos[d] = pos[e]
        PROVE  d = e
    <3>1. Cardinality(Below(d)) = Cardinality(Below(e))
      BY <2>2
    <3> HIDE DEF Below
    <3>2. Cardinality(Below(d)) \in Nat
      BY <1>1, <1>5
    <3>3. ~(Rank[d.voter] < Rank[e.voter]) /\ ~(Rank[e.voter] < Rank[d.voter])
      BY <1>6, <3>1, <3>2
    <3>4. Rank[d.voter] = Rank[e.voter]
      <4> HIDE DEF pos
      <4> QED
        BY <1>2, <3>3
    <3>5. d.voter = e.voter
      BY <1>2, <3>4, RegisterConstantsOK
    <3> QED
      BY <1>3, <3>5
  <2>3. DOMAIN pos = S
    OBVIOUS
  <2> HIDE DEF pos
  <2> QED
    BY <2>1, <2>2, <2>3 DEF Injection, IsInjective
<1>8. \A i \in 1..n : \E e \in S : pos[e] = i
  <2>1. IsFiniteSet(1..n) /\ Cardinality(1..n) = n
    <3>1. 1 \in Int /\ n \in Int
      BY <1>1
    <3> QED
      BY <1>1, <3>1, FS_Interval
  <2> HIDE DEF pos
  <2>2. pos \in Surjection(S, 1..n)
    BY <1>4, <1>7, <2>1, FS_Injection
  <2> QED
    BY <2>2 DEF Surjection
<1> DEFINE s == [i \in 1..n |-> CHOOSE e \in S : pos[e] = i]
<1>9. \A i \in 1..n : s[i] \in S /\ Cardinality(Below(s[i])) = i
  <2>1. \A i \in 1..n : s[i] \in S /\ pos[s[i]] = i
    <3> HIDE DEF pos
    <3> QED
      BY <1>8
  <2> HIDE DEF s
  <2> QED
    BY <2>1
<1>10. DOMAIN s = 1..n /\ s \in [1..n -> S]
  <2>1. DOMAIN s = 1..n /\ s = [i \in 1..n |-> s[i]]
    <3> HIDE DEF pos, Below
    <3> QED
      OBVIOUS
  <2> HIDE DEF s
  <2> QED
    BY <1>9, <2>1
<1> HIDE DEF s
<1>11. ToSet(s) = S
  <2>1. \A e \in S : \E i \in 1..n : s[i] = e
    <3> TAKE e \in S
    <3> DEFINE i == Cardinality(Below(e))
    <3>1. i \in 1..n
      BY <1>5
    <3>2. s[i] \in S /\ Cardinality(Below(s[i])) = i
      BY <1>9, <3>1
    <3>3. pos[s[i]] = pos[e]
      BY <3>2
    <3>4. s[i] = e
      <4> HIDE DEF pos, i, Below
      <4> QED
        BY <1>7, <3>2, <3>3 DEF Injection, IsInjective
    <3> QED
      BY <3>1, <3>4
  <2> QED
    BY <1>9, <1>10, <2>1 DEF ToSet
<1>12. \A i, j \in DOMAIN s : i < j => Rank[s[i].voter] < Rank[s[j].voter]
  <2> SUFFICES ASSUME NEW i \in 1..n, NEW j \in 1..n, i < j,
                      ~(Rank[s[i].voter] < Rank[s[j].voter])
               PROVE  FALSE
    BY <1>10
  <2>1. s[i] \in S /\ s[j] \in S /\ Cardinality(Below(s[i])) = i /\ Cardinality(Below(s[j])) = j
    BY <1>9
  <2>2. Rank[s[j].voter] < Rank[s[i].voter] \/ Rank[s[j].voter] = Rank[s[i].voter]
    BY <1>2, <2>1
  <2>3. CASE Rank[s[j].voter] < Rank[s[i].voter]
    <3>1. j < i
      BY <1>6, <2>1, <2>3
    <3> QED
      BY <3>1
  <2>4. CASE Rank[s[j].voter] = Rank[s[i].voter]
    <3>1. s[j] = s[i]
      BY <1>2, <1>3, <2>1, <2>4, RegisterConstantsOK
    <3> QED
      BY <2>1, <3>1
  <2> QED
    BY <2>2, <2>3, <2>4
<1> DEFINE t == Sorted(entries)
<1>13. /\ t \in [1..n -> S]
       /\ ToSet(t) = S
       /\ \A i, j \in DOMAIN t : i < j => Rank[t[i].voter] < Rank[t[j].voter]
  <2>1. DOMAIN entries = 1..n /\ S = ToSet(entries)
    BY <1>1 DEF S
  <2> HIDE DEF Below, pos
  <2> QED
    BY <1>10, <1>11, <1>12, <2>1 DEF Sorted
<1> HIDE DEF t
<1>14. t \in Seq(Commitments)
  <2>1. t \in [1..n -> Commitments]
    BY <1>1, <1>13
  <2> QED
    BY <1>1, <2>1, SeqDef
<1>15. Distinct(t)
  <2> SUFFICES ASSUME NEW i \in 1..n, NEW j \in 1..n, t[i].voter = t[j].voter, i # j
               PROVE  FALSE
    BY <1>13 DEF Distinct
  <2>1. Rank[t[i].voter] < Rank[t[j].voter] \/ Rank[t[j].voter] < Rank[t[i].voter]
    BY <1>13
  <2>2. Rank[t[i].voter] \in Nat
    BY <1>2, <1>13
  <2> QED
    BY <2>1, <2>2
<1> QED
  BY <1>13, <1>14, <1>15 DEF t, S

-----------------------------------------------------------------------------
(* The register rebuilt from the file.                                     *)

\* Those a register names are the citizens of its entries.
LEMMA NamesMean ==
    ASSUME NEW s
    PROVE  Names(s) = {e.voter : e \in ToSet(s)}
BY DEF Names, ToSet

\* A register with an entry more, for somebody it does not name.
LEMMA DistinctAppend ==
    ASSUME NEW T, NEW s \in Seq(T), NEW e \in T, Distinct(s), e.voter \notin Names(s)
    PROVE  Distinct(Append(s, e))
<1> DEFINE t == Append(s, e)
<1>1. /\ DOMAIN t = 1..(Len(s) + 1) /\ DOMAIN s = 1..Len(s) /\ Len(s) \in Nat
      /\ \A i \in 1..Len(s) : t[i] = s[i]
      /\ t[Len(s) + 1] = e
  BY AppendProperties, LenProperties
<1>2. \A i \in 1..(Len(s) + 1) : i \in 1..Len(s) \/ i = Len(s) + 1
  BY <1>1
<1>3. \A i \in 1..Len(s) : s[i].voter # e.voter
  BY <1>1 DEF Names
<1> HIDE DEF t
<1>4. Distinct(t)
  BY <1>1, <1>2, <1>3 DEF Distinct
<1> QED
  BY <1>4 DEF t

\* A register with an entry less.
LEMMA DistinctRemoved ==
    ASSUME NEW T, NEW s \in Seq(T), NEW i \in DOMAIN s, Distinct(s)
    PROVE  /\ RemoveAt(s, i) \in Seq(T)
           /\ Distinct(RemoveAt(s, i))
           /\ Names(RemoveAt(s, i)) \subseteq Names(s)
<1> DEFINE t == RemoveAt(s, i)
           At(j) == IF j < i THEN j ELSE j + 1
           n == Len(s)
<1>1. n \in Nat /\ DOMAIN s = 1..n /\ i \in 1..n
  BY LenProperties
<1>2. t \in Seq(T) /\ Len(t) = n - 1 /\ \A j \in 1..(n - 1) : t[j] = s[At(j)]
  BY <1>1, EntryRemoved
<1>3. DOMAIN t = 1..(n - 1)
  BY <1>2, LenProperties
<1> HIDE DEF t, n
<1>4. \A j, k \in 1..(n - 1) : At(j) \in 1..n /\ (At(j) = At(k) => j = k)
  BY <1>1
<1> HIDE DEF At
<1>5. Distinct(t)
  BY <1>1, <1>2, <1>3, <1>4 DEF Distinct
<1>6. Names(t) \subseteq Names(s)
  BY <1>1, <1>2, <1>3, <1>4 DEF Names
<1> QED
  BY <1>2, <1>5, <1>6 DEF t

\* `_in_chain_order` loses nobody and names nobody twice, whatever chain it is
\* given; and for the chain the register was made with, it is the chain.
LEMMA ChainOrderMeans ==
    ASSUME NEW log \in Seq(Commitments), NEW entries \in Seq(Commitments),
           Distinct(log), Distinct(entries)
    PROVE  /\ InChainOrder(log, entries) \in Seq(Commitments)
           /\ ToSet(InChainOrder(log, entries)) = ToSet(entries)
           /\ Distinct(InChainOrder(log, entries))
           /\ Kept(InChainOrder(log, entries), ToSet(log)) = Kept(log, ToSet(entries))
           /\ ToSet(log) = ToSet(entries) => InChainOrder(log, entries) = log
<1> DEFINE a == Kept(log, ToSet(entries))
           b == Kept(entries, ToSet(entries) \ ToSet(log))
           s == InChainOrder(log, entries)
           m == Len(a)
           n == Len(b)
<1>1. a \in Seq(Commitments) /\ ToSet(a) = ToSet(log) \intersect ToSet(entries) /\ Distinct(a)
  BY KeptMeans, KeptDistinct
<1>2. b \in Seq(Commitments) /\ ToSet(b) = ToSet(entries) \ ToSet(log) /\ Distinct(b)
  <2> DEFINE rest == ToSet(entries) \ ToSet(log)
  <2>1. Kept(entries, rest) \in Seq(Commitments)
        /\ ToSet(Kept(entries, rest)) = ToSet(entries) \intersect rest
        /\ Distinct(Kept(entries, rest))
    <3> HIDE DEF rest
    <3> QED
      BY KeptMeans, KeptDistinct
  <2> QED
    BY <2>1
<1>3. s = a \o b
  BY DEF InChainOrder
<1> HIDE DEF a, b, s
<1>4. s \in Seq(Commitments) /\ ToSet(s) = ToSet(entries)
  <2>1. s \in Seq(Commitments) /\ ToSet(s) = ToSet(a) \union ToSet(b)
    BY <1>1, <1>2, <1>3, EntriesOfConcat
  <2> QED
    BY <1>1, <1>2, <2>1
<1>5. /\ m \in Nat /\ n \in Nat
      /\ DOMAIN a = 1..m /\ DOMAIN b = 1..n /\ DOMAIN s = 1..(m + n)
      /\ Len(s) = m + n
      /\ \A i \in 1..m : s[i] = a[i]
      /\ \A i \in 1..(m + n) : ~(i <= m) => i - m \in 1..n /\ s[i] = b[i - m]
  BY <1>1, <1>2, <1>3, ConcatProperties, LenProperties
<1>6. /\ \A i \in 1..m : s[i] \in ToSet(log) /\ s[i] \in ToSet(entries)
      /\ \A i \in 1..(m + n) : ~(i <= m) => s[i] \notin ToSet(log) /\ s[i] \in ToSet(entries)
  <2>1. \A i \in 1..m : a[i] \in ToSet(a)
    BY <1>5 DEF ToSet
  <2>2. \A i \in 1..n : b[i] \in ToSet(b)
    BY <1>5 DEF ToSet
  <2> QED
    BY <1>1, <1>2, <1>5, <2>1, <2>2
<1> HIDE DEF m, n
<1>7. Distinct(s)
  <2>1. \A d, e \in ToSet(entries) : d.voter = e.voter => d = e
    BY DEF Distinct, ToSet
  <2> SUFFICES ASSUME NEW i \in 1..(m + n), NEW j \in 1..(m + n), s[i].voter = s[j].voter
               PROVE  i = j
    BY <1>5 DEF Distinct
  <2>2. s[i] = s[j]
    <3>1. \A k \in 1..(m + n) : s[k] \in ToSet(entries)
      BY <1>5, <1>6
    <3> QED
      BY <2>1, <3>1
  <2>3. CASE i <= m /\ j <= m
    <3>1. i \in DOMAIN a /\ j \in DOMAIN a /\ a[i].voter = a[j].voter
      BY <1>5, <2>3
    <3> QED
      BY <1>1, <3>1 DEF Distinct
  <2>4. CASE ~(i <= m) /\ ~(j <= m)
    <3>1. i - m \in DOMAIN b /\ j - m \in DOMAIN b /\ b[i - m].voter = b[j - m].voter
      BY <1>5, <2>4
    <3>2. i - m = j - m
      BY <1>2, <3>1 DEF Distinct
    <3> QED
      BY <1>5, <3>2
  <2>5. CASE i <= m /\ ~(j <= m)
    <3>1. i \in 1..m
      BY <1>5, <2>5
    <3> QED
      BY <1>6, <2>2, <2>5, <3>1
  <2>6. CASE ~(i <= m) /\ j <= m
    <3>1. j \in 1..m
      BY <1>5, <2>6
    <3> QED
      BY <1>6, <2>2, <2>6, <3>1
  <2> QED
    BY <2>3, <2>4, <2>5, <2>6
<1>8. Kept(s, ToSet(log)) = a
  <2>1. m \in 0..Len(s) /\ \A i \in 1..Len(s) : s[i] \in ToSet(log) <=> i <= m
    BY <1>5, <1>6
  <2>2. Kept(s, ToSet(log)) = SubSeq(s, 1, m)
    BY <1>4, <2>1, KeptBeginning
  <2>3. /\ SubSeq(s, 1, m) \in Seq(Commitments)
        /\ Len(SubSeq(s, 1, m)) = m
        /\ \A i \in 1..m : SubSeq(s, 1, m)[i] = s[i]
    <3>1. \A i \in 1..m : s[i] \in Commitments
      BY <1>4, <1>5
    <3> QED
      BY <1>4, <1>5, <3>1
  <2>4. SubSeq(s, 1, m) = a
    BY <1>1, <1>5, <2>3, SeqEqual DEF m
  <2> QED
    BY <2>2, <2>4
<1>9. ASSUME ToSet(log) = ToSet(entries)
      PROVE  s = log
  <2>1. a = log
    <3>1. Len(log) \in 0..Len(log) /\ \A i \in 1..Len(log) : log[i] \in ToSet(log) <=> i <= Len(log)
      BY DEF ToSet
    <3>2. Kept(log, ToSet(log)) = SubSeq(log, 1, Len(log))
      BY <3>1, KeptBeginning
    <3> QED
      BY <1>9, <3>2, SubSeqFull DEF a
  <2>2. b = <<>>
    <3>1. \A i \in 1..Len(b) : b[i] \in ToSet(b)
      BY <1>2 DEF ToSet
    <3>2. ToSet(b) = {}
      BY <1>2, <1>9
    <3>3. Len(b) = 0
      BY <1>2, <3>1, <3>2
    <3> QED
      BY <1>2, <3>3, EmptySeq
  <2> QED
    BY <1>3, <2>1, <2>2, ConcatEmptySeq
<1> QED
  BY <1>4, <1>7, <1>8, <1>9 DEF s, a

-----------------------------------------------------------------------------
(* The inductive invariant.                                                *)

\* The file names the same citizens three times, each once; and until it is
\* damaged its two orders are orders of the same entries.
FileStands ==
    file # NoFile =>
        /\ file \in Stored
        /\ Distinct(file.openings)
        /\ Distinct(file.releases)
        /\ file.released = Names(file.openings)
        /\ file.requests = file.released
        /\ Names(file.releases) \subseteq file.released
        /\ ~damaged => ToSet(file.openings) = ToSet(file.releases)

OfficeStands ==
    /\ Distinct(openings)
    /\ Distinct(releaseLog)
    /\ released = Names(openings)
    /\ requests = released
    /\ Names(releaseLog) \subseteq released
    /\ Kept(openings, ToSet(releaseLog)) = Kept(releaseLog, ToSet(openings))
    /\ ~damaged => openings = releaseLog

RegInv == TypeOK /\ OfficeStands /\ FileStands

\* The head in the file is a state the register was closed in, and every head
\* the office has signed is of the present register or, after a restart, goes
\* on beyond that one.
HeadKept ==
    /\ file = NoFile => restarts = 0
    /\ file # NoFile =>
          /\ closed
          /\ IsPrefix(file.head, releaseLog)
          /\ ~LateReleases => file.head = releaseLog
          /\ ~damaged => file.releases = file.head

Unforged == Rewritten => ~damaged

HeadInv == Unforged => HeadKept /\ OnlyLateReleasesLost

\* One more entry in both, for a citizen neither names.
LEMMA KeptOfBoth ==
    ASSUME NEW s \in Seq(Commitments), NEW t \in Seq(Commitments), NEW e \in Commitments,
           e \notin ToSet(s), e \notin ToSet(t),
           Kept(s, ToSet(t)) = Kept(t, ToSet(s))
    PROVE  Kept(Append(s, e), ToSet(Append(t, e))) = Kept(Append(t, e), ToSet(Append(s, e)))
<1> DEFINE S == ToSet(Append(s, e))
           R == ToSet(Append(t, e))
<1>1. S = ToSet(s) \union {e} /\ R = ToSet(t) \union {e}
  BY EntriesOfAppend
<1> HIDE DEF S, R
<1>2. Kept(Append(s, e), R) = Append(Kept(s, R), e)
  <2>1. Kept(Append(s, e), R) = IF e \in R THEN Append(Kept(s, R), e) ELSE Kept(s, R)
    BY KeptOfAppend
  <2> QED
    BY <1>1, <2>1
<1>3. Kept(Append(t, e), S) = Append(Kept(t, S), e)
  <2>1. Kept(Append(t, e), S) = IF e \in S THEN Append(Kept(t, S), e) ELSE Kept(t, S)
    BY KeptOfAppend
  <2> QED
    BY <1>1, <2>1
<1>4. Kept(s, R) = Kept(s, ToSet(t))
  <2>1. ToSet(s) \intersect R = ToSet(s) \intersect ToSet(t)
    BY <1>1
  <2> QED
    BY <2>1, KeptSame
<1>5. Kept(t, S) = Kept(t, ToSet(s))
  <2>1. ToSet(t) \intersect S = ToSet(t) \intersect ToSet(s)
    BY <1>1
  <2> QED
    BY <2>1, KeptSame
<1> QED
  BY <1>2, <1>3, <1>4, <1>5 DEF S, R

\* At the start nobody has a token, and there is no file.
LEMMA RegInit ==
    ASSUME Init
    PROVE  RegInv
<1>1. <<>> \in Seq(Commitments) /\ ToSet(<<>>) = {} /\ Names(<<>>) = {} /\ Distinct(<<>>)
  BY DEF ToSet, Names, Distinct
<1>2. MaxRestarts \in Nat
  BY RegisterConstantsOK
<1>3. TypeOK
  BY <1>1 DEF Init, TypeOK
<1>4. OfficeStands
  BY <1>1 DEF Init, OfficeStands
<1> QED
  BY <1>3, <1>4 DEF Init, RegInv, FileStands

\* A release names one citizen more, in the chain and among the openings.
LEMMA RegRelease ==
    ASSUME RegInv, NEW v \in Citizens, Release(v)
    PROVE  RegInv'
<1> DEFINE entry == Commit(v, Len(releaseLog) + 1)
<1>1. entry \in Commitments /\ entry.voter = v
  BY DEF RegInv, TypeOK, Commit, Commitments
<1> HIDE DEF entry
<1>2. /\ openings' = Append(openings, entry)
      /\ releaseLog' = Append(releaseLog, entry)
      /\ released' = released \union {v}
      /\ requests' = requests \union {v}
      /\ v \notin released
      /\ UNCHANGED <<downloads, closed, file, damaged, restarts, signed, handedOut>>
  BY DEF Release, entry
<1>3. openings \in Seq(Commitments) /\ releaseLog \in Seq(Commitments)
  BY DEF RegInv, TypeOK
<1>4. entry.voter \notin Names(openings) /\ entry.voter \notin Names(releaseLog)
  BY <1>1, <1>2 DEF RegInv, OfficeStands
<1>5. entry \notin ToSet(openings) /\ entry \notin ToSet(releaseLog)
  BY <1>4, NamesMean
<1>6. /\ openings' \in Seq(Commitments)
      /\ releaseLog' \in Seq(Commitments)
      /\ ToSet(openings') = ToSet(openings) \union {entry}
      /\ ToSet(releaseLog') = ToSet(releaseLog) \union {entry}
  BY <1>1, <1>2, <1>3, EntriesOfAppend
<1>7. Names(openings') = Names(openings) \union {v} /\ Names(releaseLog') = Names(releaseLog) \union {v}
  BY <1>1, <1>6, NamesMean
<1>8. Distinct(openings') /\ Distinct(releaseLog')
  BY <1>1, <1>2, <1>3, <1>4, DistinctAppend DEF RegInv, OfficeStands
<1>9. Kept(openings', ToSet(releaseLog')) = Kept(releaseLog', ToSet(openings'))
  BY <1>1, <1>2, <1>3, <1>5, KeptOfBoth DEF RegInv, OfficeStands
<1>10. ~damaged' => openings' = releaseLog'
  BY <1>2 DEF RegInv, OfficeStands
<1>11. released' = Names(openings') /\ requests' = released' /\ Names(releaseLog') \subseteq released'
  BY <1>2, <1>7 DEF RegInv, OfficeStands
<1>12. TypeOK'
  BY <1>2, <1>6 DEF RegInv, TypeOK
<1>13. OfficeStands'
  BY <1>8, <1>9, <1>10, <1>11 DEF OfficeStands
<1>14. FileStands'
  BY <1>2 DEF RegInv, FileStands
<1> QED
  BY <1>12, <1>13, <1>14 DEF RegInv

\* The close writes down what the office keeps, once.
LEMMA RegClose ==
    ASSUME RegInv, Close
    PROVE  RegInv'
<1> DEFINE stored == StoredState
<1>1. /\ closed' = TRUE
      /\ file' = IF file = NoFile THEN stored ELSE file
      /\ signed' = signed \union {releaseLog}
      /\ UNCHANGED <<releaseLog, openings, released, requests, downloads, damaged,
                     restarts, handedOut>>
  BY DEF Close, office, HeadHash
<1>2. /\ openings \in Seq(Commitments)
      /\ releaseLog \in Seq(Commitments)
      /\ Distinct(openings)
  BY DEF RegInv, TypeOK, OfficeStands
<1>3. /\ Sorted(openings) \in Seq(Commitments)
      /\ ToSet(Sorted(openings)) = ToSet(openings)
      /\ Distinct(Sorted(openings))
  BY <1>2, SortedMeans
<1>4. Names(Sorted(openings)) = Names(openings)
  BY <1>3, NamesMean
<1>5. stored = [releases |-> releaseLog, head |-> releaseLog, released |-> released,
                openings |-> Sorted(openings), requests |-> requests, downloads |-> downloads]
  BY DEF StoredState, HeadHash
<1> HIDE DEF stored
<1>6. stored \in Stored /\ stored # NoFile
  BY <1>2, <1>3, <1>5, RegisterMarkersOK DEF RegInv, TypeOK, Stored
<1>7. TypeOK'
  BY <1>1, <1>2, <1>6 DEF RegInv, TypeOK
<1>8. OfficeStands'
  BY <1>1 DEF RegInv, OfficeStands
<1>9. FileStands'
  BY <1>1, <1>2, <1>3, <1>4, <1>5, <1>6 DEF RegInv, OfficeStands, FileStands
<1> QED
  BY <1>7, <1>8, <1>9 DEF RegInv

\* Damage takes a commitment, or the opening of one, and nobody's name.
LEMMA RegDamage ==
    ASSUME RegInv, Damage
    PROVE  RegInv' /\ file' \in Stored
<1>1. /\ file # NoFile
      /\ damaged' = TRUE
      /\ UNCHANGED <<releaseLog, openings, released, requests, downloads, closed, restarts,
                     signed, handedOut>>
  BY DEF Damage, office
<1>2. file \in Stored
  BY <1>1 DEF RegInv, FileStands
<1>3. /\ file.releases \in Seq(Commitments) /\ file.openings \in Seq(Commitments)
      /\ Distinct(file.releases) /\ Distinct(file.openings)
  BY <1>1, <1>2 DEF RegInv, FileStands, Stored
<1>4. \/ \E i \in DOMAIN file.releases :
            file' = [file EXCEPT !.releases = RemoveAt(file.releases, i),
                                 !.head = IF Rewritten THEN RemoveAt(file.releases, i) ELSE @]
      \/ \E i \in DOMAIN file.openings :
            file' = [file EXCEPT !.openings[i].opening = NoOpening]
  BY DEF Damage
<1>5. ASSUME NEW i \in DOMAIN file.releases,
             file' = [file EXCEPT !.releases = RemoveAt(file.releases, i),
                                  !.head = IF Rewritten THEN RemoveAt(file.releases, i) ELSE @]
      PROVE  TypeOK' /\ FileStands' /\ file' \in Stored
  <2> DEFINE kept == RemoveAt(file.releases, i)
  <2>1. kept \in Seq(Commitments) /\ Distinct(kept) /\ Names(kept) \subseteq Names(file.releases)
    BY <1>3, DistinctRemoved
  <2>2. file' = [file EXCEPT !.releases = kept, !.head = IF Rewritten THEN kept ELSE @]
    BY <1>5
  <2> HIDE DEF kept
  <2>3. /\ file' \in Stored
        /\ file'.releases = kept
        /\ file'.openings = file.openings
        /\ file'.released = file.released
        /\ file'.requests = file.requests
    BY <1>2, <2>1, <2>2 DEF Stored
  <2>4. file' # NoFile
    BY <2>3, RegisterMarkersOK
  <2>5. TypeOK'
    BY <1>1, <2>3 DEF RegInv, TypeOK
  <2>6. FileStands'
    BY <1>1, <2>1, <2>3, <2>4 DEF RegInv, FileStands
  <2> QED
    BY <2>3, <2>5, <2>6
<1>6. ASSUME NEW i \in DOMAIN file.openings,
             file' = [file EXCEPT !.openings[i].opening = NoOpening]
      PROVE  TypeOK' /\ FileStands' /\ file' \in Stored
  <2> DEFINE s == file.openings
             t == [s EXCEPT ![i] = [s[i] EXCEPT !.opening = NoOpening]]
  <2>1. file' = [file EXCEPT !.openings = t]
    BY <1>6
  <2>2. Len(s) \in Nat /\ DOMAIN s = 1..Len(s) /\ s \in [1..Len(s) -> Commitments]
    BY <1>3, LenProperties
  <2>3. [s[i] EXCEPT !.opening = NoOpening] \in Commitments
        /\ [s[i] EXCEPT !.opening = NoOpening].voter = s[i].voter
    BY <2>2 DEF Commitments
  <2> DEFINE e == [s[i] EXCEPT !.opening = NoOpening]
  <2>4. /\ t = [s EXCEPT ![i] = e]
        /\ e \in Commitments /\ e.voter = s[i].voter
    BY <2>3
  <2> HIDE DEF s, t, e
  <2>5. /\ t \in [1..Len(s) -> Commitments]
        /\ DOMAIN t = DOMAIN s
        /\ \A j \in DOMAIN s : t[j].voter = s[j].voter
    BY <2>2, <2>4, <1>6 DEF s
  <2>6. t \in Seq(Commitments)
    BY <2>2, <2>5, SeqDef
  <2>7. Distinct(t)
    BY <1>3, <2>5 DEF Distinct, s
  <2>8. Names(t) = Names(s)
    BY <2>5 DEF Names
  <2>9. /\ file' \in Stored
        /\ file'.openings = t
        /\ file'.releases = file.releases
        /\ file'.released = file.released
        /\ file'.requests = file.requests
    BY <1>2, <2>1, <2>6 DEF Stored
  <2>10. file' # NoFile
    BY <2>9, RegisterMarkersOK
  <2>11. TypeOK'
    BY <1>1, <2>9 DEF RegInv, TypeOK
  <2>12. FileStands'
    BY <1>1, <2>7, <2>8, <2>9, <2>10 DEF RegInv, FileStands, s
  <2> QED
    BY <2>9, <2>11, <2>12
<1>7. TypeOK' /\ FileStands' /\ file' \in Stored
  BY <1>4, <1>5, <1>6
<1>8. OfficeStands'
  BY <1>1 DEF RegInv, OfficeStands
<1> QED
  BY <1>7, <1>8 DEF RegInv

\* A restart makes the register over from the file.
LEMMA RegRestart ==
    ASSUME RegInv, Restart
    PROVE  RegInv'
<1> DEFINE log == file.releases
           entries == file.openings
<1>1. /\ file # NoFile
      /\ restarts' = restarts + 1
      /\ releaseLog' = log
      /\ openings' = InChainOrder(log, entries)
      /\ released' = file.released
      /\ requests' = file.requests
      /\ downloads' = file.downloads
      /\ closed' = TRUE
      /\ UNCHANGED <<file, damaged, signed, handedOut>>
  BY DEF Restart, Reproducible
<1>2. /\ file \in Stored
      /\ Distinct(log) /\ Distinct(entries)
      /\ file.released = Names(entries)
      /\ file.requests = file.released
      /\ Names(log) \subseteq file.released
      /\ ~damaged => ToSet(entries) = ToSet(log)
  BY <1>1 DEF RegInv, FileStands
<1>3. /\ log \in Seq(Commitments) /\ entries \in Seq(Commitments)
      /\ file.released \in SUBSET Citizens /\ file.downloads \in Nat
  BY <1>2 DEF Stored
<1> HIDE DEF log, entries
<1> DEFINE order == InChainOrder(log, entries)
<1>4. /\ order \in Seq(Commitments)
      /\ ToSet(order) = ToSet(entries)
      /\ Distinct(order)
      /\ Kept(order, ToSet(log)) = Kept(log, ToSet(entries))
      /\ ToSet(log) = ToSet(entries) => order = log
  BY <1>2, <1>3, ChainOrderMeans
<1>5. Names(order) = Names(entries)
  BY <1>4, NamesMean
<1> HIDE DEF order
<1>6. openings' = order
  BY <1>1 DEF order
<1>7. TypeOK'
  BY <1>1, <1>2, <1>3, <1>4, <1>6 DEF RegInv, TypeOK
<1>8. OfficeStands'
  BY <1>1, <1>2, <1>4, <1>5, <1>6 DEF OfficeStands
<1>9. FileStands'
  BY <1>1 DEF RegInv, FileStands
<1> QED
  BY <1>7, <1>8, <1>9 DEF RegInv

\* No step of the office's, of its process or of its disk undoes it.
LEMMA RegStep ==
    ASSUME RegInv, [Next]_vars
    PROVE  RegInv'
<1>1. ASSUME NEW v \in Citizens, Release(v) PROVE RegInv'
  BY <1>1, RegRelease
<1>2. CASE Close
  BY <1>2, RegClose
<1>3. CASE Download
  <2>1. /\ downloads' = downloads + 1
        /\ handedOut' = handedOut + 1
        /\ signed' = signed \union {releaseLog}
        /\ UNCHANGED <<releaseLog, openings, released, requests, closed, file, damaged, restarts>>
    BY <1>3 DEF Download, HeadHash
  <2> QED
    BY <2>1 DEF RegInv, TypeOK, OfficeStands, FileStands
<1>4. CASE Publish
  <2>1. /\ signed' = signed \union {releaseLog}
        /\ UNCHANGED <<releaseLog, openings, released, requests, downloads, closed, file,
                       damaged, restarts, handedOut>>
    BY <1>4 DEF Publish, HeadHash, office
  <2> QED
    BY <2>1 DEF RegInv, TypeOK, OfficeStands, FileStands
<1>5. CASE Damage
  BY <1>5, RegDamage
<1>6. CASE Restart
  BY <1>6, RegRestart
<1>7. CASE UNCHANGED vars
  <2>1. UNCHANGED <<releaseLog, openings, released, requests, downloads, closed, file,
                    damaged, restarts, signed, handedOut>>
    BY <1>7 DEF vars, office
  <2> QED
    BY <2>1 DEF RegInv, TypeOK, OfficeStands, FileStands
<1> QED
  BY <1>1, <1>2, <1>3, <1>4, <1>5, <1>6, <1>7 DEF Next

\* In every state of the office's register.
THEOREM RegInvariant == Spec => []RegInv
<1>1. Init => RegInv
  BY RegInit
<1>2. RegInv /\ [Next]_vars => RegInv'
  BY RegStep
<1> QED
  BY <1>1, <1>2, PTL DEF Spec

\* The register and its file keep their types, whatever the file has lost.
THEOREM RegisterTypeCorrect == Spec => []TypeOK
<1>1. RegInv => TypeOK
  BY DEF RegInv
<1> QED
  BY <1>1, RegInvariant, PTL

\* RegisterStandsUp, for any citizens, any order of their identifiers, any
\* number of restarts and any damage to the file: a supervisor can chain what
\* is left of the openings to the published head, and nobody is lost
\* (`_in_chain_order`, `restore_releases`).
THEOREM RegisterStandsUpAlways == Spec => []RegisterStandsUp
<1>1. RegInv => RegisterStandsUp
  BY DEF RegInv, OfficeStands, RegisterStandsUp, Distinct
<1> QED
  BY <1>1, RegInvariant, PTL

-----------------------------------------------------------------------------
(* What restarting the office may cost.                                    *)

\* The office signs the register it has.
LEMMA HeadSigned ==
    ASSUME RegInv, OnlyLateReleasesLost, signed' = signed \union {releaseLog},
           UNCHANGED <<releaseLog, restarts>>,
           file # NoFile => file' = file,
           file = NoFile => restarts = 0
    PROVE  OnlyLateReleasesLost'
<1>1. IsPrefix(releaseLog, releaseLog)
  BY PrefixSelf DEF RegInv, TypeOK
<1>2. restarts \in Nat /\ (restarts > 0 => file # NoFile)
  BY DEF RegInv, TypeOK
<1> QED
  BY <1>1, <1>2 DEF OnlyLateReleasesLost

\* From one state to the next.
LEMMA HeadStep ==
    ASSUME RegInv, HeadInv, [Next]_vars
    PROVE  HeadInv'
<1>0. RegInv'
  BY RegStep
<1>1. /\ releaseLog \in Seq(Commitments)
      /\ restarts \in Nat
      /\ signed \in SUBSET Seq(Commitments)
      /\ file # NoFile => file \in Stored
  BY DEF RegInv, TypeOK, FileStands
<1>2. damaged \in BOOLEAN /\ (damaged => damaged')
  <2>1. damaged \in BOOLEAN
    BY DEF RegInv, TypeOK
  <2>2. damaged' = damaged \/ damaged' = TRUE
    BY DEF Next, Release, Close, Download, Publish, Damage, Restart, vars
  <2> QED
    BY <2>1, <2>2
<1> SUFFICES ASSUME Unforged'
             PROVE  HeadKept' /\ OnlyLateReleasesLost'
  BY DEF HeadInv
<1>3. Unforged
  BY <1>2 DEF Unforged
<1>4. HeadKept /\ OnlyLateReleasesLost
  BY <1>3 DEF HeadInv
<1>5. ASSUME NEW v \in Citizens, Release(v)
      PROVE  HeadKept' /\ OnlyLateReleasesLost'
  <2> DEFINE entry == Commit(v, Len(releaseLog) + 1)
  <2>1. entry \in Commitments
    BY <1>1 DEF Commit, Commitments
  <2> HIDE DEF entry
  <2>2. /\ releaseLog' = Append(releaseLog, entry)
        /\ closed => LateReleases
        /\ UNCHANGED <<closed, file, damaged, restarts, signed>>
    BY <1>5 DEF Release, entry
  <2>3. \A h \in Seq(Commitments) : IsPrefix(h, releaseLog) => IsPrefix(h, releaseLog')
    BY <1>1, <2>1, <2>2, PrefixOfAppend
  <2>4. HeadKept'
    <3>1. file # NoFile => file.head \in Seq(Commitments)
      BY <1>1 DEF Stored
    <3> QED
      BY <1>4, <2>2, <2>3, <3>1 DEF HeadKept
  <2>5. OnlyLateReleasesLost'
    BY <1>1, <1>4, <2>2, <2>3 DEF OnlyLateReleasesLost
  <2> QED
    BY <2>4, <2>5
<1>6. CASE Close
  <2>1. /\ closed' = TRUE
        /\ file' = IF file = NoFile THEN StoredState ELSE file
        /\ signed' = signed \union {releaseLog}
        /\ UNCHANGED <<releaseLog, damaged, restarts>>
    BY <1>6 DEF Close, office, HeadHash
  <2>2. StoredState.head = releaseLog /\ StoredState.releases = releaseLog
    BY DEF StoredState, HeadHash
  <2>3. IsPrefix(releaseLog, releaseLog)
    BY <1>1, PrefixSelf
  <2>4. HeadKept'
    <3>1. CASE file = NoFile
      <4>1. file' = StoredState /\ restarts' = 0
        BY <1>4, <2>1, <3>1 DEF HeadKept
      <4> HIDE DEF StoredState
      <4> QED
        BY <2>1, <2>2, <2>3, <4>1 DEF HeadKept
    <3>2. CASE file # NoFile
      BY <1>4, <2>1, <3>2 DEF HeadKept
    <3> QED
      BY <3>1, <3>2
  <2>5. OnlyLateReleasesLost'
    BY <1>4, <2>1, HeadSigned DEF HeadKept
  <2> QED
    BY <2>4, <2>5
<1>7. CASE Download
  <2>1. /\ signed' = signed \union {releaseLog}
        /\ UNCHANGED <<releaseLog, closed, file, damaged, restarts>>
    BY <1>7 DEF Download, HeadHash
  <2>2. HeadKept'
    BY <1>4, <2>1 DEF HeadKept
  <2>3. OnlyLateReleasesLost'
    BY <1>4, <2>1, HeadSigned DEF HeadKept
  <2> QED
    BY <2>2, <2>3
<1>8. CASE Publish
  <2>1. /\ signed' = signed \union {releaseLog}
        /\ UNCHANGED <<releaseLog, closed, file, damaged, restarts>>
    BY <1>8 DEF Publish, HeadHash, office
  <2>2. HeadKept'
    BY <1>4, <2>1 DEF HeadKept
  <2>3. OnlyLateReleasesLost'
    BY <1>4, <2>1, HeadSigned DEF HeadKept
  <2> QED
    BY <2>2, <2>3
<1>9. CASE Damage
  <2>1. /\ file # NoFile
        /\ damaged' = TRUE
        /\ UNCHANGED <<releaseLog, closed, restarts, signed>>
    BY <1>9 DEF Damage, office
  <2>2. ~Rewritten
    BY <2>1 DEF Unforged
  <2>3. file'.head = file.head /\ file' # NoFile
    <3>1. file \in Stored
      BY <1>1, <2>1
    <3>2. file'.head = file.head
      BY <1>9, <2>2, <3>1 DEF Damage, Stored
    <3>3. file' # NoFile
      BY <1>9, RegDamage, RegisterMarkersOK
    <3> QED
      BY <3>2, <3>3
  <2>4. HeadKept'
    BY <1>4, <2>1, <2>3 DEF HeadKept
  <2>5. OnlyLateReleasesLost'
    BY <1>4, <2>1, <2>3 DEF OnlyLateReleasesLost
  <2> QED
    BY <2>4, <2>5
<1>10. CASE Restart
  <2>1. /\ file # NoFile
        /\ file.head = file.releases
        /\ restarts' = restarts + 1
        /\ releaseLog' = file.releases
        /\ closed' = TRUE
        /\ UNCHANGED <<file, damaged, signed>>
    BY <1>10 DEF Restart, Reproducible, HeadHash
  <2>2. file.head \in Seq(Commitments) /\ releaseLog' = file.head
    BY <1>1, <2>1 DEF Stored
  <2>3. IsPrefix(file.head, releaseLog) /\ (~LateReleases => file.head = releaseLog)
    BY <1>4, <2>1 DEF HeadKept
  <2>4. HeadKept'
    <3>1. IsPrefix(file.head, file.head)
      BY <2>2, PrefixSelf
    <3>2. restarts' # 0
      BY <1>1, <2>1
    <3> QED
      BY <1>4, <2>1, <2>2, <3>1 DEF HeadKept
  <2>5. ASSUME NEW head \in signed
        PROVE  \/ IsPrefix(head, releaseLog')
               \/ restarts' > 0 /\ LateReleases /\ IsStrictPrefix(file'.head, head)
    <3>1. head \in Seq(Commitments) /\ restarts' > 0
      BY <1>1, <2>1
    <3>2. CASE IsPrefix(head, releaseLog)
      <4>1. IsPrefix(head, file.head) \/ IsStrictPrefix(file.head, head)
        BY <1>1, <2>2, <2>3, <3>1, <3>2, PrefixesCompare
      <4>2. LateReleases \in BOOLEAN
        BY RegisterConstantsOK
      <4>3. CASE ~LateReleases
        BY <2>2, <2>3, <3>2, <4>3
      <4>4. CASE LateReleases
        BY <2>1, <2>2, <3>1, <4>1, <4>4
      <4> QED
        BY <4>2, <4>3, <4>4
    <3>3. CASE ~IsPrefix(head, releaseLog)
      BY <1>4, <2>1, <3>1, <3>3 DEF OnlyLateReleasesLost
    <3> QED
      BY <3>2, <3>3
  <2>6. OnlyLateReleasesLost'
    BY <2>1, <2>5 DEF OnlyLateReleasesLost
  <2> QED
    BY <2>4, <2>6
<1>11. CASE UNCHANGED vars
  <2>1. UNCHANGED <<releaseLog, closed, file, damaged, restarts, signed>>
    BY <1>11 DEF vars, office
  <2> QED
    BY <1>4, <2>1 DEF HeadKept, OnlyLateReleasesLost
<1> QED
  BY <1>5, <1>6, <1>7, <1>8, <1>9, <1>10, <1>11 DEF Next

\* In every state in which nobody has rewritten the file and the head in it.
THEOREM HeadInvariant == Spec => [](RegInv /\ HeadInv)
<1>1. Init => RegInv /\ HeadInv
  <2>1. Init => HeadInv
    BY DEF Init, HeadInv, HeadKept, OnlyLateReleasesLost
  <2> QED
    BY <2>1, RegInit
<1>2. RegInv /\ HeadInv /\ [Next]_vars => RegInv' /\ HeadInv'
  BY RegStep, HeadStep
<1> QED
  BY <1>1, <1>2, PTL DEF Spec

\* OnlyLateReleasesLost, for any citizens, releases at any time and any number
\* of restarts: of the heads the office has signed, a restart can undo only
\* those of releases after the close, and the file as it stood then it keeps
\* (`restore_releases`, which compares the head).  Whoever can rewrite the
\* file and the head in it can undo more: hence the hypothesis.
THEOREM OnlyLateReleasesLostAlways ==
    ASSUME ~Rewritten
    PROVE  Spec => []OnlyLateReleasesLost
<1>1. HeadInv => OnlyLateReleasesLost
  BY DEF HeadInv, Unforged
<1> QED
  BY <1>1, HeadInvariant, PTL
=============================================================================

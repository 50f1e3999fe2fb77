---------------------------- MODULE SubListProof ----------------------------
(***************************************************************************)
(* Facts about SubList for any capacity and width: what push, pop and      *)
(* compaction of an array do to its entries, and what the iterator of the  *)
(* list returns.  SubDBProof uses them.                                    *)
(***************************************************************************)
EXTENDS SubList, FiniteSets, SequenceTheorems, FiniteSetTheorems, TLAPS

(* an entry or a hole *)
Entry == [seqno : Nat, hash : Nat, pat : BOOLEAN]

Sorted(q) == \A i, j \in 1 .. Len(q) : i < j => q[i].seqno < q[j].seqno

(* A set of numbers that is not empty has a smallest one. *)
LEMMA Least ==
    ASSUME NEW S, S \subseteq Nat, S # {}
    PROVE  \E m \in S : \A n \in S : m <= n
<1>1. PICK m \in S : \A n \in S : ~(<<n, m>> \in OpToRel(<, Nat))
  BY NatLessThanWellFounded, WFMin, Zenon
<1>2. ASSUME NEW n \in S PROVE m <= n
  <2>1. m \in Nat /\ n \in Nat /\ ~(n < m)
    BY <1>1 DEF OpToRel
  <2> QED
    BY <2>1
<1> QED
  BY <1>2

(* If it is bounded it has a largest one. *)
LEMMA Greatest ==
    ASSUME NEW K \in Nat, NEW S, S \subseteq 0 .. K, S # {}
    PROVE  \E m \in S : \A n \in S : n <= m
<1> DEFINE D == {K - n : n \in S}
<1>1. D \subseteq Nat /\ D # {}
  OBVIOUS
<1>2. PICK d \in D : \A e \in D : d <= e
  <2> HIDE DEF D
  <2> QED
    BY <1>1, Least
<1>3. PICK m \in S : d = K - m
  BY <1>2
<1>4. ASSUME NEW n \in S PROVE n <= m
  <2>1. K - m <= K - n
    BY <1>2, <1>3
  <2>2. n \in Nat /\ m \in Nat
    OBVIOUS
  <2> QED
    BY <2>1, <2>2
<1> QED
  BY <1>4

-----------------------------------------------------------------------------
(* Picked                                                                  *)

(* P is the recursion of Picked up to K *)
PickSteps(P, s, I, K) ==
    P = [i \in 0 .. K |-> IF i = 0 THEN << >>
                          ELSE IF i \in I THEN Append(P[i - 1], s[i]) ELSE P[i - 1]]

(* The recursion has a solution. *)
LEMMA PickRecursion ==
    ASSUME NEW s, NEW I, NEW K \in Nat
    PROVE  \E P : PickSteps(P, s, I, K)
<1> DEFINE Bad == {n \in Nat : ~ \E P : PickSteps(P, s, I, n)}
<1> SUFFICES ASSUME Bad # {} PROVE FALSE
  OBVIOUS
<1>1. PICK n \in Bad : \A m \in Bad : n <= m
  <2>1. Bad \subseteq Nat
    OBVIOUS
  <2> HIDE DEF Bad
  <2> QED
    BY <2>1, Least
<1>2. n \in Nat /\ ~ \E P : PickSteps(P, s, I, n)
  BY <1>1
<1>3. CASE n = 0
  <2>1. PickSteps([k \in 0 .. 0 |-> << >>], s, I, 0)
    BY DEF PickSteps
  <2> QED
    BY <1>2, <1>3, <2>1
<1>4. CASE n # 0
  <2>1. n - 1 \in Nat /\ n - 1 \notin Bad
    BY <1>1, <1>2, <1>4
  <2>2. PICK P : PickSteps(P, s, I, n - 1)
    BY <2>1
  <2> DEFINE On(q, k) == IF k \in I THEN Append(q, s[k]) ELSE q
             C == [k \in 0 .. n |-> IF k = n THEN On(P[n - 1], n) ELSE P[k]]
  <2>3. \A k \in 0 .. n - 1 : P[k] = IF k = 0 THEN << >> ELSE On(P[k - 1], k)
    BY <2>2 DEF PickSteps
  <2>4. \A k \in 0 .. n : C[k] = IF k = 0 THEN << >> ELSE On(C[k - 1], k)
    <3> TAKE k \in 0 .. n
    <3>1. C[n] = On(P[n - 1], n) /\ \A i \in 0 .. n - 1 : C[i] = P[i]
      BY <1>2, <1>4
    <3> HIDE DEF C, On
    <3>2. CASE k = n
      <4>1. n - 1 \in 0 .. n - 1
        BY <1>2, <1>4
      <4> QED
        BY <3>1, <3>2, <4>1, <1>4
    <3>3. CASE k # n
      <4>1. k \in 0 .. n - 1 /\ (k # 0 => k - 1 \in 0 .. n - 1)
        BY <1>2, <3>3
      <4> QED
        BY <2>3, <3>1, <4>1
    <3> QED
      BY <3>2, <3>3
  <2>5. C = [k \in 0 .. n |-> IF k = 0 THEN << >> ELSE On(C[k - 1], k)]
    <3>1. C = [k \in 0 .. n |-> C[k]]
      OBVIOUS
    <3> HIDE DEF C, On
    <3> QED
      BY <2>4, <3>1
  <2>6. PickSteps(C, s, I, n)
    <3> HIDE DEF C
    <3> QED
      BY <2>5 DEF PickSteps
  <2> QED
    BY <1>2, <2>6
<1> QED
  BY <1>3, <1>4

(* q has the elements of s that I picks among the first k, in their order *)
Picks(q, s, I, k) ==
    /\ q \in Seq(Entry)
    /\ Len(q) = Cardinality(I \intersect 1 .. k)
    /\ \A i \in I \intersect 1 .. k : \E j \in 1 .. Len(q) : q[j] = s[i]
    /\ \A j \in 1 .. Len(q) : \E i \in I \intersect 1 .. k : q[j] = s[i]
    /\ (\A i, j \in I : i < j => s[i].seqno < s[j].seqno) => Sorted(q)

(* An entry is appended. *)
LEMMA AppendEntry ==
    ASSUME NEW q \in Seq(Entry), NEW e \in Entry
    PROVE  /\ Append(q, e) \in Seq(Entry) /\ Len(Append(q, e)) = Len(q) + 1
           /\ \A i \in 1 .. Len(q) : Append(q, e)[i] = q[i]
           /\ Append(q, e)[Len(q) + 1] = e
  BY AppendProperties

(* One element more. *)
LEMMA PickNext ==
    ASSUME NEW s \in Seq(Entry), NEW I, NEW k \in 1 .. Len(s), NEW q,
           Picks(q, s, I, k - 1)
    PROVE  Picks(IF k \in I THEN Append(q, s[k]) ELSE q, s, I, k)
<1>1. k \in Nat /\ s[k] \in Entry /\ Len(s) \in Nat
  BY LenProperties, ElementOfSeq
<1> DEFINE A == I \intersect 1 .. (k - 1)
           B == I \intersect 1 .. k
<1>2. CASE k \notin I
  <2>1. A = B
    BY <1>1, <1>2
  <2> QED
    BY <1>2, <2>1 DEF Picks
<1>3. CASE k \in I
  <2> DEFINE r == Append(q, s[k])
             n == Len(q)
  <2>1. q \in Seq(Entry) /\ n \in Nat /\ n = Cardinality(A)
    BY LenProperties DEF Picks
  <2>2. /\ r \in Seq(Entry) /\ Len(r) = n + 1 /\ r[n + 1] = s[k]
        /\ \A j \in 1 .. n : r[j] = q[j]
    BY <1>1, <2>1, AppendEntry
  <2>3. B = A \union {k} /\ k \notin A
    BY <1>1, <1>3
  <2>4. IsFiniteSet(A)
    <3>1. IsFiniteSet(1 .. (k - 1)) /\ A \in SUBSET (1 .. (k - 1))
      BY <1>1, FS_Interval
    <3> HIDE DEF A
    <3> QED
      BY <3>1, FS_Subset
  <2>5. Len(r) = Cardinality(B)
    <3> HIDE DEF A, B, r, n
    <3> QED
      BY <2>1, <2>2, <2>3, <2>4, FS_AddElement
  <2>6. /\ \A i \in A : \E j \in 1 .. n : q[j] = s[i]
        /\ \A j \in 1 .. n : \E i \in A : q[j] = s[i]
        /\ (\A i, j \in I : i < j => s[i].seqno < s[j].seqno) => Sorted(q)
    BY DEF Picks
  <2>7. \A i \in A : i < k /\ i \in I
    BY <1>1
  <2> HIDE DEF A, B, r
  <2>8. ASSUME NEW i \in B PROVE \E j \in 1 .. Len(r) : r[j] = s[i]
    <3>1. CASE i = k
      BY <2>1, <2>2, <3>1
    <3>2. CASE i # k
      <4>1. PICK j \in 1 .. n : q[j] = s[i]
        BY <2>3, <2>6, <3>2
      <4>2. j \in 1 .. Len(r) /\ r[j] = s[i]
        BY <2>1, <2>2, <4>1
      <4> QED
        BY <4>2
    <3> QED
      BY <3>1, <3>2
  <2>9. ASSUME NEW j \in 1 .. Len(r) PROVE \E i \in B : r[j] = s[i]
    <3>1. CASE j = n + 1
      BY <2>2, <2>3, <3>1
    <3>2. CASE j # n + 1
      <4>1. j \in 1 .. n
        BY <2>1, <2>2, <3>2
      <4> QED
        BY <2>2, <2>3, <2>6, <4>1
    <3> QED
      BY <3>1, <3>2
  <2>10. ASSUME \A i, j \in I : i < j => s[i].seqno < s[j].seqno PROVE Sorted(r)
    <3>1. Sorted(q)
      BY <2>6, <2>10
    <3> SUFFICES ASSUME NEW i \in 1 .. Len(r), NEW j \in 1 .. Len(r), i < j
                 PROVE  r[i].seqno < r[j].seqno
      BY DEF Sorted
    <3>2. i \in 1 .. n /\ r[i] = q[i]
      BY <2>1, <2>2
    <3>3. CASE j = n + 1
      <4>1. PICK m \in A : q[i] = s[m]
        BY <2>6, <3>2
      <4> QED
        BY <1>3, <2>2, <2>7, <2>10, <3>2, <3>3, <4>1
    <3>4. CASE j # n + 1
      <4>1. j \in 1 .. n /\ r[j] = q[j]
        BY <2>1, <2>2, <3>4
      <4> QED
        BY <3>1, <3>2, <4>1 DEF Sorted
    <3> QED
      BY <3>3, <3>4
  <2>11. Picks(r, s, I, k)
    BY <2>2, <2>5, <2>8, <2>9, <2>10 DEF Picks, B
  <2> QED
    BY <1>3, <2>11 DEF r
<1> QED
  BY <1>2, <1>3

(* Picked takes the elements of s that I picks. *)
LEMMA PickedIs ==
    ASSUME NEW s \in Seq(Entry), NEW I
    PROVE  Picks(Picked(s, I), s, I, Len(s))
<1> DEFINE L == Len(s)
           P == CHOOSE P : P = [i \in 0 .. L |->
                    IF i = 0 THEN << >>
                    ELSE IF i \in I THEN Append(P[i - 1], s[i]) ELSE P[i - 1]]
<1>1. Picked(s, I) = P[L]
  BY DEF Picked
<1>2. L \in Nat
  BY LenProperties
<1>3. PickSteps(P, s, I, L)
  <2>1. \E Q : PickSteps(Q, s, I, L)
    BY <1>2, PickRecursion
  <2> QED
    BY <2>1 DEF PickSteps
<1> HIDE DEF P
<1>4. \A i \in 0 .. L : P[i] = IF i = 0 THEN << >>
                               ELSE IF i \in I THEN Append(P[i - 1], s[i]) ELSE P[i - 1]
  BY <1>3 DEF PickSteps
<1> DEFINE Bad == {i \in 0 .. L : ~Picks(P[i], s, I, i)}
<1>5. Bad = {}
  <2> SUFFICES ASSUME Bad # {} PROVE FALSE
    OBVIOUS
  <2>1. PICK n \in Bad : \A m \in Bad : n <= m
    <3>1. Bad \subseteq Nat
      BY <1>2
    <3> HIDE DEF Bad
    <3> QED
      BY <3>1, Least
  <2>2. n \in 0 .. L /\ ~Picks(P[n], s, I, n)
    BY <2>1
  <2>3. n # 0
    <3>1. I \intersect 1 .. 0 = {} /\ Cardinality({}) = 0
      BY FS_EmptySet
    <3>2. << >> \in Seq(Entry) /\ Len(<< >>) = 0 /\ Sorted(<< >>)
      BY DEF Sorted
    <3>3. Picks(<< >>, s, I, 0)
      BY <3>1, <3>2 DEF Picks
    <3>4. P[0] = << >>
      BY <1>2, <1>4
    <3> QED
      BY <2>2, <3>3, <3>4
  <2>4. n - 1 \in 0 .. L /\ n - 1 \notin Bad /\ n \in 1 .. L
    BY <1>2, <2>1, <2>2, <2>3
  <2>5. Picks(P[n - 1], s, I, n - 1)
    BY <2>4
  <2>6. P[n] = IF n \in I THEN Append(P[n - 1], s[n]) ELSE P[n - 1]
    BY <1>4, <2>2, <2>3
  <2>7. Picks(P[n], s, I, n)
    BY <2>4, <2>5, <2>6, PickNext
  <2> QED
    BY <2>2, <2>7
<1>6. L \in 0 .. L
  BY <1>2
<1>7. Picks(P[L], s, I, L)
  BY <1>5, <1>6
<1> QED
  BY <1>1, <1>7

-----------------------------------------------------------------------------
(* FlattenSeq                                                              *)

(* F is the recursion of FlattenSeq up to K *)
FlatSteps(F, seqs, K) ==
    F = [i \in 1 .. K |-> IF i = 1 THEN seqs[i] ELSE F[i - 1] \o seqs[i]]

(* The recursion has a solution. *)
LEMMA FlatRecursion ==
    ASSUME NEW seqs, NEW K \in Nat
    PROVE  \E F : FlatSteps(F, seqs, K)
<1> DEFINE Bad == {n \in Nat : ~ \E F : FlatSteps(F, seqs, n)}
<1> SUFFICES ASSUME Bad # {} PROVE FALSE
  OBVIOUS
<1>1. PICK n \in Bad : \A m \in Bad : n <= m
  <2>1. Bad \subseteq Nat
    OBVIOUS
  <2> HIDE DEF Bad
  <2> QED
    BY <2>1, Least
<1>2. n \in Nat /\ ~ \E F : FlatSteps(F, seqs, n)
  BY <1>1
<1>3. CASE n = 0
  <2>1. FlatSteps([k \in 1 .. 0 |-> << >>], seqs, 0)
    BY DEF FlatSteps
  <2> QED
    BY <1>2, <1>3, <2>1
<1>4. CASE n # 0
  <2>1. n - 1 \in Nat /\ n - 1 \notin Bad
    BY <1>1, <1>2, <1>4
  <2>2. PICK F : FlatSteps(F, seqs, n - 1)
    BY <2>1
  <2> DEFINE On(q, k) == q \o seqs[k]
             C == [k \in 1 .. n |-> IF k = n THEN (IF n = 1 THEN seqs[n] ELSE On(F[n - 1], n))
                                    ELSE F[k]]
  <2>3. \A k \in 1 .. n - 1 : F[k] = IF k = 1 THEN seqs[k] ELSE On(F[k - 1], k)
    BY <2>2 DEF FlatSteps
  <2>4. \A k \in 1 .. n : C[k] = IF k = 1 THEN seqs[k] ELSE On(C[k - 1], k)
    <3> TAKE k \in 1 .. n
    <3>1. /\ C[n] = IF n = 1 THEN seqs[n] ELSE On(F[n - 1], n)
          /\ \A i \in 1 .. n - 1 : C[i] = F[i]
      <4> DEFINE top == IF n = 1 THEN seqs[n] ELSE On(F[n - 1], n)
      <4> HIDE DEF top
      <4>1. C = [i \in 1 .. n |-> IF i = n THEN top ELSE F[i]]
        BY DEF top
      <4> HIDE DEF C
      <4>2. C[n] = top
        BY <1>2, <1>4, <4>1
      <4>3. \A i \in 1 .. n - 1 : C[i] = F[i]
        BY <1>2, <1>4, <4>1
      <4> QED
        BY <4>2, <4>3 DEF top
    <3> HIDE DEF C, On
    <3>2. CASE k = n
      <4>1. n # 1 => n - 1 \in 1 .. n - 1
        BY <1>2, <1>4
      <4> QED
        BY <3>1, <3>2, <4>1
    <3>3. CASE k # n
      <4>1. k \in 1 .. n - 1 /\ (k # 1 => k - 1 \in 1 .. n - 1)
        BY <1>2, <3>3
      <4> QED
        BY <2>3, <3>1, <4>1
    <3> QED
      BY <3>2, <3>3
  <2>5. C = [k \in 1 .. n |-> IF k = 1 THEN seqs[k] ELSE On(C[k - 1], k)]
    <3>1. C = [k \in 1 .. n |-> C[k]]
      OBVIOUS
    <3> HIDE DEF C, On
    <3> QED
      BY <2>4, <3>1
  <2>6. FlatSteps(C, seqs, n)
    <3> HIDE DEF C
    <3> QED
      BY <2>5 DEF FlatSteps
  <2> QED
    BY <1>2, <2>6
<1> QED
  BY <1>3, <1>4

(* the elements of a sequence *)
Elems(q) == {q[i] : i \in 1 .. Len(q)}

(* sorted sequences, one before the other *)
Ordered(seqs) ==
    /\ \A n \in 1 .. Len(seqs) : Sorted(seqs[n])
    /\ \A n, m \in 1 .. Len(seqs) : n < m =>
          \A x \in Elems(seqs[n]), y \in Elems(seqs[m]) : x.seqno < y.seqno

(* q is the first k of the sequences, one after the other *)
Flat(q, seqs, k) ==
    /\ q \in Seq(Entry)
    /\ Elems(q) = UNION {Elems(seqs[n]) : n \in 1 .. k}
    /\ Ordered(seqs) => Sorted(q)

(* The parts of two sequences put together. *)
LEMMA JoinSeqs ==
    ASSUME NEW q \in Seq(Entry), NEW t \in Seq(Entry)
    PROVE  /\ q \o t \in Seq(Entry)
           /\ Len(q) \in Nat /\ Len(t) \in Nat /\ Len(q \o t) = Len(q) + Len(t)
           /\ \A i \in 1 .. Len(q) : (q \o t)[i] = q[i]
           /\ \A i \in 1 .. Len(t) : (q \o t)[Len(q) + i] = t[i]
<1>1. Len(q) \in Nat /\ Len(t) \in Nat
  BY LenProperties
<1>2. /\ q \o t \in Seq(Entry) /\ Len(q \o t) = Len(q) + Len(t)
      /\ \A i \in 1 .. Len(q) + Len(t) :
            (q \o t)[i] = IF i <= Len(q) THEN q[i] ELSE t[i - Len(q)]
  BY ConcatProperties
<1> QED
  BY <1>1, <1>2

(* One sequence more. *)
LEMMA FlatNext ==
    ASSUME NEW seqs \in Seq(Seq(Entry)), NEW k \in 2 .. Len(seqs), NEW q,
           Flat(q, seqs, k - 1)
    PROVE  Flat(q \o seqs[k], seqs, k)
<1> DEFINE t == seqs[k]
           r == q \o t
           a == Len(q)
           b == Len(t)
<1>1. k \in Nat /\ t \in Seq(Entry) /\ Len(seqs) \in Nat /\ q \in Seq(Entry)
  BY LenProperties, ElementOfSeq DEF Flat
<1>2. /\ r \in Seq(Entry) /\ a \in Nat /\ b \in Nat /\ Len(r) = a + b
      /\ \A i \in 1 .. a : r[i] = q[i]
      /\ \A i \in 1 .. b : r[a + i] = t[i]
  BY <1>1, JoinSeqs
<1>3. /\ Elems(q) = UNION {Elems(seqs[n]) : n \in 1 .. (k - 1)}
      /\ Ordered(seqs) => Sorted(q)
  BY DEF Flat
<1>4. Elems(q) = {q[i] : i \in 1 .. a} /\ Elems(t) = {t[i] : i \in 1 .. b}
  BY DEF Elems
<1> HIDE DEF r, a, b
(* an element is one of q, or the one of t at its place less a *)
<1>5. ASSUME NEW i \in 1 .. Len(r)
      PROVE  \/ i \in 1 .. a /\ r[i] = q[i]
             \/ /\ i - a \in 1 .. b /\ i > a /\ r[i] = t[i - a]
  <2>1. CASE i <= a
    BY <1>2, <2>1
  <2>2. CASE ~(i <= a)
    <3>1. i - a \in 1 .. b /\ a + (i - a) = i /\ i > a
      BY <1>2, <2>2
    <3> QED
      BY <1>2, <3>1
  <2> QED
    BY <2>1, <2>2
<1>6. Elems(r) = Elems(q) \union Elems(t)
  <2>1. Elems(r) \subseteq Elems(q) \union Elems(t)
    <3> SUFFICES ASSUME NEW i \in 1 .. Len(r) PROVE r[i] \in Elems(q) \union Elems(t)
      BY DEF Elems
    <3> QED
      BY <1>4, <1>5
  <2>2. ASSUME NEW i \in 1 .. a PROVE q[i] \in Elems(r)
    <3>1. i \in 1 .. Len(r) /\ r[i] = q[i]
      BY <1>2
    <3> QED
      BY <3>1 DEF Elems
  <2>3. ASSUME NEW i \in 1 .. b PROVE t[i] \in Elems(r)
    <3>1. a + i \in 1 .. Len(r) /\ r[a + i] = t[i]
      BY <1>2
    <3> QED
      BY <3>1 DEF Elems
  <2> HIDE DEF t
  <2> QED
    BY <1>4, <2>1, <2>2, <2>3
<1>7. Elems(r) = UNION {Elems(seqs[n]) : n \in 1 .. k}
  <2>1. 1 .. k = 1 .. (k - 1) \union {k}
    BY <1>1
  <2> QED
    BY <1>3, <1>6, <2>1
<1>8. ASSUME Ordered(seqs) PROVE Sorted(r)
  <2>1. Sorted(q) /\ Sorted(t)
    BY <1>1, <1>3, <1>8 DEF Ordered
  <2>2. \A x \in Elems(q), y \in Elems(t) : x.seqno < y.seqno
    <3> SUFFICES ASSUME NEW x \in Elems(q), NEW y \in Elems(t) PROVE x.seqno < y.seqno
      OBVIOUS
    <3>1. PICK n \in 1 .. (k - 1) : x \in Elems(seqs[n])
      BY <1>3
    <3>2. n \in 1 .. Len(seqs) /\ k \in 1 .. Len(seqs) /\ n < k
      BY <1>1
    <3> QED
      BY <1>8, <3>1, <3>2 DEF Ordered
  <2> HIDE DEF t
  <2> SUFFICES ASSUME NEW i \in 1 .. Len(r), NEW j \in 1 .. Len(r), i < j
               PROVE  r[i].seqno < r[j].seqno
    BY DEF Sorted
  <2>3. CASE j \in 1 .. a
    <3>1. i \in 1 .. a
      BY <1>2, <2>3
    <3> QED
      BY <1>2, <2>1, <2>3, <3>1 DEF Sorted, a
  <2>4. CASE i \in 1 .. a /\ j \notin 1 .. a
    BY <1>2, <1>4, <1>5, <2>2, <2>4
  <2>5. CASE i \notin 1 .. a
    <3>1. i > a /\ j > a
      BY <1>2, <1>5, <2>5
    <3>2. /\ i - a \in 1 .. b /\ r[i] = t[i - a]
          /\ j - a \in 1 .. b /\ r[j] = t[j - a]
      BY <1>2, <1>5, <3>1
    <3>3. i - a < j - a
      BY <1>2
    <3> QED
      BY <2>1, <3>2, <3>3 DEF Sorted, b
  <2> QED
    BY <2>3, <2>4, <2>5
<1>9. Flat(r, seqs, k)
  BY <1>2, <1>7, <1>8 DEF Flat
<1> QED
  BY <1>9 DEF r

(* FlattenSeq puts the sequences one after the other. *)
LEMMA FlattenIs ==
    ASSUME NEW seqs \in Seq(Seq(Entry))
    PROVE  Flat(FlattenSeq(seqs), seqs, Len(seqs))
<1> DEFINE L == Len(seqs)
           F == CHOOSE F : F = [i \in 1 .. L |->
                                   IF i = 1 THEN seqs[i] ELSE F[i - 1] \o seqs[i]]
<1>1. L \in Nat
  BY LenProperties
<1>2. CASE L = 0
  <2>1. FlattenSeq(seqs) = seqs /\ seqs = << >>
    BY <1>2, EmptySeq DEF FlattenSeq
  <2>2. << >> \in Seq(Entry) /\ Elems(<< >>) = {} /\ Sorted(<< >>)
    BY DEF Elems, Sorted
  <2>3. UNION {Elems(seqs[n]) : n \in 1 .. L} = {}
    BY <1>2
  <2> QED
    BY <2>1, <2>2, <2>3 DEF Flat
<1>3. CASE L # 0
  <2>1. FlattenSeq(seqs) = F[L]
    BY <1>3 DEF FlattenSeq
  <2>2. FlatSteps(F, seqs, L)
    <3>1. \E G : FlatSteps(G, seqs, L)
      BY <1>1, FlatRecursion
    <3> QED
      BY <3>1 DEF FlatSteps
  <2> HIDE DEF F
  <2>3. \A i \in 1 .. L : F[i] = IF i = 1 THEN seqs[i] ELSE F[i - 1] \o seqs[i]
    BY <2>2 DEF FlatSteps
  <2> DEFINE Bad == {i \in 1 .. L : ~Flat(F[i], seqs, i)}
  <2>4. Bad = {}
    <3> SUFFICES ASSUME Bad # {} PROVE FALSE
      OBVIOUS
    <3>1. PICK n \in Bad : \A m \in Bad : n <= m
      <4>1. Bad \subseteq Nat
        BY <1>1
      <4> HIDE DEF Bad
      <4> QED
        BY <4>1, Least
    <3>2. n \in 1 .. L /\ ~Flat(F[n], seqs, n)
      BY <3>1
    <3>3. n # 1
      <4> SUFFICES ASSUME n = 1 PROVE FALSE
        OBVIOUS
      <4>1. F[1] = seqs[1] /\ seqs[1] \in Seq(Entry) /\ 1 \in 1 .. L
        BY <2>3, <3>2, ElementOfSeq
      <4>2. Ordered(seqs) => Sorted(seqs[1])
        BY <4>1 DEF Ordered
      <4>3. UNION {Elems(seqs[m]) : m \in 1 .. 1} = Elems(seqs[1])
        <5>1. 1 .. 1 = {1}
          OBVIOUS
        <5> QED
          BY <5>1
      <4>4. Flat(F[1], seqs, 1)
        BY <4>1, <4>2, <4>3 DEF Flat
      <4> QED
        BY <3>2, <4>4
    <3>4. n - 1 \in 1 .. L /\ n - 1 \notin Bad /\ n \in 2 .. L
      BY <1>1, <3>1, <3>2, <3>3
    <3>5. Flat(F[n - 1], seqs, n - 1)
      BY <3>4
    <3>6. F[n] = F[n - 1] \o seqs[n]
      BY <2>3, <3>2, <3>3
    <3>7. Flat(F[n], seqs, n)
      BY <3>4, <3>5, <3>6, FlatNext
    <3> QED
      BY <3>2, <3>7
  <2>5. L \in 1 .. L
    BY <1>1, <1>3
  <2>6. Flat(F[L], seqs, L)
    BY <2>4, <2>5
  <2> QED
    BY <2>1, <2>6
<1> QED
  BY <1>2, <1>3

-----------------------------------------------------------------------------
(* One array                                                               *)

Elem == [slot : [0 .. Cap - 1 -> Entry], drop : Nat, count : Nat, first : Nat, last : Nat]

(* the slots that hold an entry, and the entries *)
LiveAt(el) == {i \in el.first .. el.last - 1 : el.slot[i].seqno # 0}
Items(el)  == {el.slot[i] : i \in LiveAt(el)}

Ascending(el) ==
    \A i, j \in LiveAt(el) : i < j => el.slot[i].seqno < el.slot[j].seqno

(* An array of the list: it begins and ends with an entry, the entries     *)
(* ascend, and count less drop is their number                             *)
ElemOK(el) ==
    /\ el \in Elem
    /\ el.last <= Cap /\ el.first < el.last
    /\ el.first \in LiveAt(el) /\ el.last - 1 \in LiveAt(el)
    /\ Ascending(el)
    /\ el.count = el.drop + Cardinality(LiveAt(el))

(* There are as many entries as slots at most. *)
LEMMA LiveFinite ==
    ASSUME NEW el, el \in Elem, el.last <= Cap
    PROVE  /\ LiveAt(el) \subseteq 0 .. Cap - 1
           /\ IsFiniteSet(LiveAt(el)) /\ Cardinality(LiveAt(el)) \in Nat
           /\ Cardinality(LiveAt(el)) <= Cap
<1>1. Cap \in Nat /\ Cap > 0 /\ el.first \in Nat /\ el.last \in Nat
  BY SubListAssumption DEF Elem
<1>2. LiveAt(el) \in SUBSET (0 .. Cap - 1)
  BY <1>1 DEF LiveAt
<1>3. IsFiniteSet(0 .. Cap - 1) /\ Cardinality(0 .. Cap - 1) = Cap
  <2> DEFINE K == Cap - 1
  <2>1. K \in Int /\ 0 \in Int /\ K >= 0 /\ K - 0 + 1 = Cap
    BY <1>1
  <2> HIDE DEF K
  <2>2. IsFiniteSet(0 .. K) /\ Cardinality(0 .. K) = K - 0 + 1
    BY <2>1, FS_Interval
  <2> QED
    BY <2>1, <2>2 DEF K
<1> QED
  BY <1>2, <1>3, FS_Subset, FS_CardinalityType

(* Entries are those that LiveAt finds, in their order. *)
LEMMA EntriesAre ==
    ASSUME NEW el, ElemOK(el)
    PROVE  /\ Entries(el) \in Seq(Entry)
           /\ Len(Entries(el)) = Cardinality(LiveAt(el))
           /\ Elems(Entries(el)) = Items(el)
           /\ Sorted(Entries(el))
<1> DEFINE s == Slots(el)
           f == el.first
           L == el.last - el.first
           I == {j \in DOMAIN s : s[j].seqno # 0}
           q == Picked(s, I)
           A == LiveAt(el)
<1>1. /\ Cap \in Nat /\ f \in Nat /\ el.last \in Nat /\ f < el.last /\ el.last <= Cap
      /\ el.slot \in [0 .. Cap - 1 -> Entry] /\ L \in Nat
  BY SubListAssumption DEF ElemOK, Elem
<1>2. s = [j \in 1 .. L |-> el.slot[f + j - 1]]
  BY DEF Slots
<1> HIDE DEF f, L
<1>3. ASSUME NEW j \in 1 .. L PROVE f + j - 1 \in f .. el.last - 1 /\ f + j - 1 \in 0 .. Cap - 1
  BY <1>1 DEF L, f
<1>4. s \in Seq(Entry) /\ Len(s) = L /\ DOMAIN s = 1 .. L
  <2>1. s \in [1 .. L -> Entry]
    BY <1>1, <1>2, <1>3
  <2> HIDE DEF s
  <2> QED
    BY <1>1, <2>1, SeqDef, LenProperties
<1>5. \A j \in 1 .. L : s[j] = el.slot[f + j - 1]
  BY <1>2
<1> HIDE DEF s
(* the places in s and in the array *)
<1>6. I = {j \in 1 .. L : el.slot[f + j - 1].seqno # 0}
  BY <1>4, <1>5
<1>7. ASSUME NEW j \in I PROVE f + j - 1 \in A /\ s[j] = el.slot[f + j - 1] /\ j \in Nat
  BY <1>1, <1>3, <1>5, <1>6 DEF LiveAt, f
<1>8. ASSUME NEW i \in A PROVE i - f + 1 \in I /\ f + (i - f + 1) - 1 = i
  <2>1. i \in f .. el.last - 1 /\ el.slot[i].seqno # 0
    BY DEF LiveAt, f
  <2>2. i - f + 1 \in 1 .. L /\ f + (i - f + 1) - 1 = i
    BY <1>1, <2>1 DEF L, f
  <2> QED
    BY <1>6, <2>1, <2>2
<1>9. Cardinality(I) = Cardinality(A)
  <2> DEFINE g == [j \in I |-> f + j - 1]
  <2>1. IsFiniteSet(I)
    <3>1. I \in SUBSET (1 .. L)
      BY <1>6
    <3>2. IsFiniteSet(1 .. L)
      BY <1>1, FS_Interval
    <3> HIDE DEF I
    <3> QED
      BY <3>1, <3>2, FS_Subset
  <2> HIDE DEF I, A
  <2>2. g \in [I -> A]
    BY <1>7
  <2>3. \A i, j \in I : g[i] = g[j] => i = j
    <3> SUFFICES ASSUME NEW i \in I, NEW j \in I, f + i - 1 = f + j - 1 PROVE i = j
      OBVIOUS
    <3>1. i \in Nat /\ j \in Nat
      BY <1>7
    <3> QED
      BY <1>1, <3>1
  <2>4. \A i \in A : \E j \in I : g[j] = i
    BY <1>8
  <2> HIDE DEF g
  <2>5. g \in Bijection(I, A)
    BY <2>2, <2>3, <2>4 DEF Bijection, Injection, Surjection, IsInjective
  <2> QED
    BY <2>1, <2>5, FS_Bijection DEF ExistsBijection
<1>10. I \intersect 1 .. L = I
  BY <1>6
<1>11. Picks(q, s, I, L)
  <2> HIDE DEF I
  <2> QED
    BY <1>4, PickedIs
<1>12. Entries(el) = q
  BY DEF Entries, s
<1>13. \A i, j \in I : i < j => s[i].seqno < s[j].seqno
  <2> SUFFICES ASSUME NEW i \in I, NEW j \in I, i < j PROVE s[i].seqno < s[j].seqno
    OBVIOUS
  <2>1. f + i - 1 < f + j - 1
    <3>1. i \in Nat /\ j \in Nat
      BY <1>7
    <3> QED
      BY <1>1, <3>1
  <2> QED
    BY <1>7, <2>1 DEF ElemOK, Ascending
<1>14. /\ q \in Seq(Entry) /\ Len(q) = Cardinality(I) /\ Sorted(q)
       /\ \A i \in I : \E j \in 1 .. Len(q) : q[j] = s[i]
       /\ \A j \in 1 .. Len(q) : \E i \in I : q[j] = s[i]
  <2> HIDE DEF I, q
  <2> QED
    BY <1>10, <1>11, <1>13 DEF Picks
<1>15. Elems(q) = Items(el)
  <2> HIDE DEF q, I, A
  <2>1. ASSUME NEW j \in 1 .. Len(q) PROVE q[j] \in Items(el)
    <3>1. PICK i \in I : q[j] = s[i]
      BY <1>14
    <3> QED
      BY <1>7, <3>1 DEF Items, A
  <2>2. ASSUME NEW i \in A PROVE el.slot[i] \in Elems(q)
    <3>1. s[i - f + 1] = el.slot[i] /\ i - f + 1 \in I
      BY <1>7, <1>8
    <3> QED
      BY <1>14, <3>1 DEF Elems
  <2> QED
    BY <2>1, <2>2 DEF Elems, Items, A
<1> HIDE DEF q
<1> QED
  BY <1>9, <1>12, <1>14, <1>15

(* All of them are within bounds that all of them keep. *)
LEMMA WithinAll ==
    ASSUME NEW el, ElemOK(el), NEW lo, NEW hi, \A x \in Items(el) : x.seqno \in lo .. hi
    PROVE  Within(el, lo, hi) = Entries(el)
<1> DEFINE s == Slots(el)
<1>1. /\ el.first \in Nat /\ el.last \in Nat
      /\ s = [j \in 1 .. el.last - el.first |-> el.slot[el.first + j - 1]]
  BY DEF ElemOK, Elem, Slots
<1>2. ASSUME NEW j \in DOMAIN s, s[j].seqno # 0 PROVE s[j].seqno \in lo .. hi
  <2>1. j \in 1 .. el.last - el.first /\ s[j] = el.slot[el.first + j - 1]
    BY <1>1
  <2>2. el.first + j - 1 \in el.first .. el.last - 1
    BY <1>1, <2>1
  <2>3. s[j] \in Items(el)
    BY <1>2, <2>1, <2>2 DEF Items, LiveAt
  <2> QED
    BY <2>3
<1>3. {j \in DOMAIN s : s[j].seqno # 0 /\ s[j].seqno \in lo .. hi}
        = {j \in DOMAIN s : s[j].seqno # 0}
  <2> HIDE DEF s
  <2> QED
    BY <1>2
<1> QED
  BY <1>3 DEF Within, Entries

-----------------------------------------------------------------------------
(* SubElem::push                                                           *)

(* The second half of push *)
Pushed(c, e) == [c EXCEPT !.slot[c.last] = e, !.last = @ + 1, !.count = (@ + 1) % Width]

(* An array that has room at its end *)
Fits(c) ==
    /\ c \in Elem
    /\ c.first <= c.last /\ c.last < Cap
    /\ c.first \in LiveAt(c) \/ c.first = c.last
    /\ Ascending(c)
    /\ c.count = c.drop + Cardinality(LiveAt(c))

(* A counter below the width does not wrap. *)
LEMMA SmallMod ==
    ASSUME NEW n \in Nat, NEW k \in Nat, n < k
    PROVE  n % k = n
  OBVIOUS

(* What push assigns. *)
LEMMA PushedFields ==
    ASSUME NEW c \in Elem, NEW e \in Entry, c.last < Cap, c.count + 1 < Width
    PROVE  /\ Pushed(c, e) \in Elem
           /\ Pushed(c, e).slot = [c.slot EXCEPT ![c.last] = e]
           /\ Pushed(c, e).last = c.last + 1 /\ Pushed(c, e).count = c.count + 1
           /\ Pushed(c, e).first = c.first /\ Pushed(c, e).drop = c.drop
<1> DEFINE z == Pushed(c, e)
           S == [c.slot EXCEPT ![c.last] = e]
<1>1. /\ c.count \in Nat /\ c.last \in Nat /\ c.first \in Nat /\ c.drop \in Nat
      /\ c.slot \in [0 .. Cap - 1 -> Entry] /\ Cap \in Nat /\ Width \in Nat
  BY SubListAssumption DEF Elem
<1>2. (c.count + 1) % Width = c.count + 1
  <2> DEFINE n == c.count + 1
  <2>1. n \in Nat /\ n < Width
    BY <1>1
  <2> HIDE DEF n
  <2>2. n % Width = n
    BY <1>1, <2>1, SmallMod
  <2> QED
    BY <2>2 DEF n
<1>3. S \in [0 .. Cap - 1 -> Entry]
  BY <1>1
<1> HIDE DEF S
<1>4. z = [slot |-> S, drop |-> c.drop, count |-> c.count + 1, first |-> c.first,
           last |-> c.last + 1]
  <2>1. c = [slot |-> c.slot, drop |-> c.drop, count |-> c.count, first |-> c.first,
             last |-> c.last]
    BY DEF Elem
  <2>2. z = [c EXCEPT !.slot = S, !.last = c.last + 1, !.count = c.count + 1]
    BY <1>2 DEF Pushed, S
  <2> QED
    BY <2>1, <2>2
<1> HIDE DEF z
<1>5. /\ z.slot = S /\ z.drop = c.drop /\ z.count = c.count + 1 /\ z.first = c.first
      /\ z.last = c.last + 1
  BY <1>4
<1>6. z \in Elem
  BY <1>1, <1>3, <1>4 DEF Elem
<1> QED
  BY <1>5, <1>6 DEF z, S

(* An entry that is newer than those of an array with room is added. *)
LEMMA PushRoom ==
    ASSUME NEW c, Fits(c), NEW e \in Entry, e.seqno # 0, c.count + 1 < Width,
           \A x \in Items(c) : x.seqno < e.seqno
    PROVE  /\ ElemOK(Pushed(c, e)) /\ Items(Pushed(c, e)) = Items(c) \union {e}
           /\ Pushed(c, e).count = c.count + 1
<1> DEFINE z == Pushed(c, e)
           A == LiveAt(c)
           n == c.last
<1>1. /\ c \in Elem /\ Cap \in Nat /\ n \in Nat /\ n < Cap /\ c.first \in Nat /\ c.first <= n
      /\ c.slot \in [0 .. Cap - 1 -> Entry] /\ c.count \in Nat /\ c.drop \in Nat
  BY SubListAssumption DEF Fits, Elem
<1>2. /\ z \in Elem /\ z.slot = [c.slot EXCEPT ![n] = e] /\ z.last = n + 1
      /\ z.count = c.count + 1 /\ z.first = c.first /\ z.drop = c.drop
  BY <1>1, PushedFields
<1> HIDE DEF z
<1>3. \A i \in A : i \in Nat /\ i < n /\ c.slot[i].seqno # 0 /\ i \in 0 .. Cap - 1 /\ i >= c.first
  BY <1>1 DEF LiveAt
<1>4. z.slot[n] = e /\ \A i \in A : z.slot[i] = c.slot[i]
  <2>1. n \in 0 .. Cap - 1
    BY <1>1
  <2>2. \A i \in 0 .. Cap - 1 : i # n => z.slot[i] = c.slot[i]
    BY <1>1, <1>2
  <2>3. z.slot[n] = e
    BY <1>1, <1>2, <2>1
  <2> QED
    BY <1>1, <1>3, <2>2, <2>3
<1>5. LiveAt(z) = A \union {n}
  <2>1. ASSUME NEW i \in LiveAt(z) PROVE i \in A \union {n}
    <3>1. i \in c.first .. n /\ z.slot[i].seqno # 0
      BY <1>1, <1>2 DEF LiveAt
    <3>2. CASE i # n
      <4>1. i \in 0 .. Cap - 1 /\ i \in c.first .. n - 1
        BY <1>1, <3>1, <3>2
      <4>2. z.slot[i] = c.slot[i]
        BY <1>1, <1>2, <3>2, <4>1
      <4> QED
        BY <3>1, <4>1, <4>2 DEF LiveAt
    <3> QED
      BY <3>2
  <2>2. ASSUME NEW i \in A \union {n} PROVE i \in LiveAt(z)
    <3>1. z.slot[i].seqno # 0
      BY <1>3, <1>4
    <3>2. i \in z.first .. z.last - 1
      BY <1>1, <1>2, <1>3
    <3> QED
      BY <3>1, <3>2 DEF LiveAt
  <2> QED
    BY <2>1, <2>2
<1>6. Items(z) = Items(c) \union {e}
  <2> HIDE DEF A
  <2> QED
    BY <1>4, <1>5 DEF Items, A
<1>7. Ascending(z)
  <2> SUFFICES ASSUME NEW i \in LiveAt(z), NEW j \in LiveAt(z), i < j
               PROVE  z.slot[i].seqno < z.slot[j].seqno
    BY DEF Ascending
  <2>1. i \in A
    BY <1>1, <1>3, <1>5
  <2>2. CASE j = n
    <3>1. c.slot[i] \in Items(c)
      BY <2>1 DEF Items
    <3> QED
      BY <1>4, <2>1, <2>2, <3>1
  <2>3. CASE j # n
    BY <1>4, <1>5, <2>1, <2>3 DEF Fits, Ascending
  <2> QED
    BY <2>2, <2>3
<1>8. Cardinality(LiveAt(z)) = Cardinality(A) + 1 /\ Cardinality(A) \in Nat
  <2>1. IsFiniteSet(A) /\ Cardinality(A) \in Nat
    BY <1>1, LiveFinite
  <2>2. n \notin A
    BY <1>1, <1>3
  <2> HIDE DEF A
  <2> QED
    BY <1>5, <2>1, <2>2, FS_AddElement
<1>9. z.count = z.drop + Cardinality(LiveAt(z))
  <2>1. c.count = c.drop + Cardinality(A)
    BY DEF Fits
  <2> HIDE DEF A
  <2> QED
    BY <1>1, <1>2, <1>8, <2>1
<1>10. z.first \in LiveAt(z) /\ z.last - 1 \in LiveAt(z)
  <2>1. z.last - 1 = n
    BY <1>1, <1>2
  <2>2. c.first \in A \/ c.first = n
    BY DEF Fits
  <2> QED
    BY <1>2, <1>5, <2>1, <2>2
<1>11. z.last <= Cap /\ z.first < z.last
  BY <1>1, <1>2
<1> QED
  BY <1>2, <1>6, <1>7, <1>9, <1>10, <1>11 DEF ElemOK, z

(* Compaction makes room in an array that is not full, and keeps what it has. *)
LEMMA CompactRoom ==
    ASSUME NEW el, ElemOK(el), Cardinality(LiveAt(el)) < Cap
    PROVE  /\ Fits(Compact(el)) /\ Items(Compact(el)) = Items(el)
           /\ Compact(el).count <= el.count
<1> DEFINE q == Entries(el)
           n == Len(q)
           S == [i \in 0 .. Cap - 1 |-> IF i < n THEN q[i + 1] ELSE el.slot[i]]
           z == Compact(el)
<1>1. /\ q \in Seq(Entry) /\ n = Cardinality(LiveAt(el)) /\ Elems(q) = Items(el) /\ Sorted(q)
  BY EntriesAre
<1>2. /\ Cap \in Nat /\ n \in Nat /\ n < Cap /\ el.slot \in [0 .. Cap - 1 -> Entry]
      /\ el.count \in Nat /\ el.drop \in Nat /\ el.count = el.drop + n
  BY <1>1, SubListAssumption, LenProperties DEF ElemOK, Elem
<1>3. z = [slot |-> S, drop |-> 0, count |-> n, first |-> 0, last |-> n]
  BY DEF Compact
<1> HIDE DEF z, q, n
<1>4. \A j \in 1 .. n : q[j] \in Entry /\ q[j] \in Items(el)
  BY <1>1, ElementOfSeq DEF Elems, n
<1>5. \A x \in Items(el) : x.seqno # 0
  BY DEF Items, LiveAt
<1>6. S \in [0 .. Cap - 1 -> Entry]
  BY <1>2, <1>4
<1>7. \A i \in 0 .. n - 1 : S[i] = q[i + 1] /\ i + 1 \in 1 .. n
  BY <1>2
<1> HIDE DEF S
<1>8. /\ z.slot = S /\ z.drop = 0 /\ z.count = n /\ z.first = 0 /\ z.last = n
      /\ z \in Elem
  BY <1>2, <1>3, <1>6 DEF Elem
<1>9. LiveAt(z) = 0 .. n - 1
  BY <1>2, <1>4, <1>5, <1>7, <1>8 DEF LiveAt
<1>10. Cardinality(0 .. n - 1) = n
  <2> DEFINE K == n - 1
  <2>1. K \in Int /\ (0 <= K => K - 0 + 1 = n) /\ (~(0 <= K) => n = 0)
    BY <1>2
  <2> HIDE DEF K
  <2>2. Cardinality(0 .. K) = IF 0 > K THEN 0 ELSE K - 0 + 1
    BY <2>1, FS_Interval
  <2> QED
    BY <2>1, <2>2 DEF K
<1>11. Ascending(z)
  <2> SUFFICES ASSUME NEW i \in 0 .. n - 1, NEW j \in 0 .. n - 1, i < j
               PROVE  S[i].seqno < S[j].seqno
    BY <1>8, <1>9 DEF Ascending
  <2>1. i + 1 < j + 1
    BY <1>2
  <2> QED
    BY <1>1, <1>7, <2>1 DEF Sorted, n
<1>12. Items(z) = Items(el)
  <2>1. ASSUME NEW x \in Items(z) PROVE x \in Items(el)
    <3>1. PICK i \in 0 .. n - 1 : x = S[i]
      BY <1>8, <1>9 DEF Items
    <3> QED
      BY <1>4, <1>7, <3>1
  <2>2. ASSUME NEW x \in Items(el) PROVE x \in Items(z)
    <3>1. PICK j \in 1 .. n : q[j] = x
      BY <1>1 DEF Elems, n
    <3>2. j - 1 \in 0 .. n - 1 /\ j - 1 + 1 = j
      BY <1>2
    <3> QED
      BY <1>7, <1>8, <1>9, <3>1, <3>2 DEF Items
  <2> QED
    BY <2>1, <2>2
<1>13. z.first \in LiveAt(z) \/ z.first = z.last
  BY <1>2, <1>8, <1>9
<1>14. z.count = z.drop + Cardinality(LiveAt(z))
  BY <1>2, <1>8, <1>9, <1>10
<1>15. z.first <= z.last /\ z.last < Cap /\ z.count <= el.count
  BY <1>2, <1>8
<1> QED
  BY <1>8, <1>11, <1>12, <1>13, <1>14, <1>15 DEF Fits, z

(* A push on an array of the list that is not full adds the entry. *)
LEMMA PushElem ==
    ASSUME NEW el, ElemOK(el), ~is_full(el), NEW e \in Entry, e.seqno # 0,
           el.count + 1 < Width, \A x \in Items(el) : x.seqno < e.seqno
    PROVE  /\ ElemOK(ElemPush(el, e)) /\ Items(ElemPush(el, e)) = Items(el) \union {e}
           /\ ElemPush(el, e).count <= el.count + 1
<1>1. /\ el \in Elem /\ el.last <= Cap /\ el.count \in Nat /\ el.drop \in Nat
      /\ el.count = el.drop + Cardinality(LiveAt(el)) /\ el.last \in Nat
      /\ Cap \in Nat /\ Width \in Nat /\ el.first \in Nat
  BY SubListAssumption DEF ElemOK, Elem
<1>2. Cardinality(LiveAt(el)) \in Nat /\ Cardinality(LiveAt(el)) <= Cap
  BY <1>1, LiveFinite
<1>3. CASE el.last = Cap
  <2> DEFINE c == Compact(el)
  <2>1. Cardinality(LiveAt(el)) < Cap
    BY <1>1, <1>2 DEF is_full
  <2>2. Fits(c) /\ Items(c) = Items(el) /\ c.count <= el.count
    BY <2>1, CompactRoom
  <2>3. ElemPush(el, e) = Pushed(c, e)
    BY <1>3 DEF ElemPush, Pushed
  <2> HIDE DEF c
  <2>4. c.count \in Nat
    BY <2>2 DEF Fits, Elem
  <2>5. c.count + 1 < Width /\ c.count + 1 <= el.count + 1
    BY <1>1, <2>2, <2>4
  <2>6. /\ ElemOK(Pushed(c, e)) /\ Items(Pushed(c, e)) = Items(c) \union {e}
        /\ Pushed(c, e).count = c.count + 1
    BY <2>2, <2>5, PushRoom
  <2> QED
    BY <2>2, <2>3, <2>5, <2>6
<1>4. CASE el.last # Cap
  <2>1. Fits(el)
    BY <1>1, <1>4 DEF Fits, ElemOK
  <2>2. ElemPush(el, e) = Pushed(el, e)
    BY <1>4 DEF ElemPush, Pushed
  <2>3. /\ ElemOK(Pushed(el, e)) /\ Items(Pushed(el, e)) = Items(el) \union {e}
        /\ Pushed(el, e).count = el.count + 1
    BY <2>1, PushRoom
  <2> QED
    BY <1>1, <2>2, <2>3
<1> QED
  BY <1>3, <1>4

(* So does one on a new array. *)
LEMMA PushFresh ==
    ASSUME NEW e \in Entry, e.seqno # 0, 1 < Width
    PROVE  /\ ElemOK(ElemPush(SubElem, e)) /\ Items(ElemPush(SubElem, e)) = {e}
           /\ ElemPush(SubElem, e).count = 1
<1>1. Cap \in Nat /\ Cap > 0 /\ Hole \in Entry
  BY SubListAssumption DEF Hole, Entry
<1>2. /\ SubElem \in Elem /\ SubElem.first = 0 /\ SubElem.last = 0 /\ SubElem.count = 0
      /\ SubElem.drop = 0
  BY <1>1 DEF SubElem, Elem
<1>3. LiveAt(SubElem) = {}
  BY <1>2 DEF LiveAt
<1>4. Items(SubElem) = {} /\ Ascending(SubElem) /\ Cardinality(LiveAt(SubElem)) = 0
  BY <1>3, FS_EmptySet DEF Items, Ascending
<1>5. Fits(SubElem)
  BY <1>1, <1>2, <1>4 DEF Fits
<1>6. ElemPush(SubElem, e) = Pushed(SubElem, e)
  <2>1. SubElem.last # Cap
    BY <1>1, <1>2
  <2> QED
    BY <2>1 DEF ElemPush, Pushed
<1>7. SubElem.count + 1 < Width /\ SubElem.count + 1 = 1
  BY <1>2
<1> QED
  BY <1>4, <1>5, <1>6, <1>7, PushRoom

-----------------------------------------------------------------------------
(* SubElem::exists and SubElem::pop                                        *)

(* exists finds the entry of a number. *)
LEMMA FoundIs ==
    ASSUME NEW el, ElemOK(el), NEW sno \in Nat, sno # 0
    PROVE  Found(el, sno) = {i \in LiveAt(el) : el.slot[i].seqno = sno}
<1> DEFINE A == LiveAt(el)
<1>1. /\ el \in Elem /\ el.last <= Cap /\ el.count \in Nat /\ el.drop \in Nat
      /\ el.count = el.drop + Cardinality(A) /\ el.last \in Nat
      /\ Cap \in Nat /\ el.first \in Nat /\ el.last - 1 \in A
      /\ el.slot \in [0 .. Cap - 1 -> Entry]
  BY SubListAssumption DEF ElemOK, Elem
<1>2. ~is_empty(el)
  <2>1. IsFiniteSet(A) /\ Cardinality(A) \in Nat
    BY <1>1, LiveFinite
  <2> HIDE DEF A
  <2>2. Cardinality(A) # 0
    BY <1>1, <2>1, FS_EmptySet
  <2> QED
    BY <1>1, <2>1, <2>2 DEF is_empty
<1>3. ASSUME NEW j \in el.first .. el.last - 1 PROVE el.slot[j].seqno \in Nat
  BY <1>1 DEF Entry
<1>4. ASSUME NEW i \in A, el.slot[i].seqno = sno PROVE i \in Found(el, sno)
  <2>1. i \in el.first .. el.last - 1
    BY DEF LiveAt
  <2>2. el.slot[el.last - 1].seqno >= sno
    <3>1. CASE i = el.last - 1
      BY <1>4, <3>1
    <3>2. CASE i # el.last - 1
      <4>1. i < el.last - 1
        BY <1>1, <2>1, <3>2
      <4>2. el.slot[i].seqno < el.slot[el.last - 1].seqno
        BY <1>1, <4>1 DEF ElemOK, Ascending
      <4>3. el.last - 1 \in el.first .. el.last - 1
        BY <1>1 DEF LiveAt
      <4> QED
        BY <1>3, <1>4, <4>2, <4>3
    <3> QED
      BY <3>1, <3>2
  <2>3. ASSUME NEW j \in el.first .. i - 1 PROVE el.slot[j].seqno < sno
    <3>1. j \in el.first .. el.last - 1 /\ j < i
      BY <1>1, <2>1
    <3>2. CASE el.slot[j].seqno = 0
      BY <3>2
    <3>3. CASE el.slot[j].seqno # 0
      <4>1. j \in A
        BY <3>1, <3>3 DEF LiveAt
      <4> QED
        BY <1>4, <3>1, <4>1 DEF ElemOK, Ascending
    <3> QED
      BY <3>2, <3>3
  <2> QED
    BY <1>2, <1>4, <2>1, <2>2, <2>3 DEF Found
<1>5. ASSUME NEW i \in Found(el, sno) PROVE i \in A /\ el.slot[i].seqno = sno
  BY DEF Found, LiveAt
<1> QED
  BY <1>4, <1>5

(* The first half of pop *)
Cleared(el, i) == [el EXCEPT !.slot[i].seqno = 0, !.drop = (@ + 1) % Width]

(* What it assigns. *)
LEMMA ClearedFields ==
    ASSUME NEW el \in Elem, NEW i \in 0 .. Cap - 1, el.drop + 1 < Width
    PROVE  /\ Cleared(el, i) \in Elem
           /\ Cleared(el, i).slot[i].seqno = 0
           /\ \A j \in 0 .. Cap - 1 : j # i => Cleared(el, i).slot[j] = el.slot[j]
           /\ Cleared(el, i).drop = el.drop + 1 /\ Cleared(el, i).count = el.count
           /\ Cleared(el, i).first = el.first /\ Cleared(el, i).last = el.last
<1> DEFINE z == Cleared(el, i)
           h == [el.slot[i] EXCEPT !.seqno = 0]
           S == [el.slot EXCEPT ![i] = h]
<1>1. /\ el.count \in Nat /\ el.last \in Nat /\ el.first \in Nat /\ el.drop \in Nat
      /\ el.slot \in [0 .. Cap - 1 -> Entry] /\ Cap \in Nat /\ Width \in Nat
      /\ el.slot[i] \in Entry
  BY SubListAssumption DEF Elem
<1>2. (el.drop + 1) % Width = el.drop + 1
  <2> DEFINE n == el.drop + 1
  <2>1. n \in Nat /\ n < Width
    BY <1>1
  <2> HIDE DEF n
  <2>2. n % Width = n
    BY <1>1, <2>1, SmallMod
  <2> QED
    BY <2>2 DEF n
<1>3. h \in Entry /\ h.seqno = 0
  BY <1>1 DEF Entry
<1>4. z = [el EXCEPT !.slot = S, !.drop = el.drop + 1]
  BY <1>2 DEF Cleared
<1> HIDE DEF h
<1>5. S \in [0 .. Cap - 1 -> Entry] /\ S[i] = h /\ \A j \in 0 .. Cap - 1 : j # i => S[j] = el.slot[j]
  BY <1>1, <1>3
<1> HIDE DEF S, z
<1>6. z = [slot |-> S, drop |-> el.drop + 1, count |-> el.count, first |-> el.first,
           last |-> el.last]
  <2>1. el = [slot |-> el.slot, drop |-> el.drop, count |-> el.count, first |-> el.first,
              last |-> el.last]
    BY DEF Elem
  <2> QED
    BY <1>4, <2>1
<1>7. /\ z.slot = S /\ z.drop = el.drop + 1 /\ z.count = el.count /\ z.first = el.first
      /\ z.last = el.last
  BY <1>6
<1>8. z \in Elem
  BY <1>1, <1>5, <1>6 DEF Elem
<1> QED
  BY <1>3, <1>5, <1>7, <1>8 DEF z

(* The second half moves the ends of the array to entries: r is e with     *)
(* other ends                                                              *)
LEMMA Trim ==
    ASSUME NEW e \in Elem, e.last <= Cap, Ascending(e),
           e.count = e.drop + Cardinality(LiveAt(e)),
           NEW r \in Elem, r.slot = e.slot, r.count = e.count, r.drop = e.drop,
           r.first \in LiveAt(e), r.last - 1 \in LiveAt(e),
           \A k \in LiveAt(e) : r.first <= k /\ k <= r.last - 1
    PROVE  ElemOK(r) /\ Items(r) = Items(e)
<1>1. /\ Cap \in Nat /\ e.first \in Nat /\ e.last \in Nat /\ r.first \in Nat /\ r.last \in Nat
  BY SubListAssumption DEF Elem
<1>2. r.first \in e.first .. e.last - 1 /\ r.last - 1 \in e.first .. e.last - 1
  BY DEF LiveAt
<1>3. r.last <= Cap /\ r.first < r.last
  BY <1>1, <1>2
<1>4. LiveAt(r) = LiveAt(e)
  <2>1. ASSUME NEW k \in LiveAt(r) PROVE k \in LiveAt(e)
    <3>1. k \in r.first .. r.last - 1 /\ e.slot[k].seqno # 0
      BY DEF LiveAt
    <3>2. k \in e.first .. e.last - 1
      BY <1>1, <1>2, <3>1
    <3> QED
      BY <3>1, <3>2 DEF LiveAt
  <2>2. ASSUME NEW k \in LiveAt(e) PROVE k \in LiveAt(r)
    <3>1. k \in e.first .. e.last - 1 /\ e.slot[k].seqno # 0
      BY DEF LiveAt
    <3>2. k \in r.first .. r.last - 1
      BY <1>1, <3>1
    <3> QED
      BY <3>1, <3>2 DEF LiveAt
  <2> QED
    BY <2>1, <2>2
<1> QED
  BY <1>3, <1>4 DEF ElemOK, Items, Ascending

(* A pop takes the entry out of the array: its last one, and the array is  *)
(* empty, or one of several.                                               *)
LEMMA PopElem ==
    ASSUME NEW el, ElemOK(el), NEW i \in LiveAt(el), el.count < Width
    PROVE  /\ ElemPop(el, i).count = el.count
           /\ \/ is_empty(ElemPop(el, i)) /\ Items(el) = {el.slot[i]}
              \/ /\ ~is_empty(ElemPop(el, i)) /\ ElemOK(ElemPop(el, i))
                 /\ Items(ElemPop(el, i)) = Items(el) \ {el.slot[i]}
<1> DEFINE A == LiveAt(el)
           e == Cleared(el, i)
           U == LiveAt(e)
           r == ElemPop(el, i)
<1>1. /\ el \in Elem /\ el.last <= Cap /\ el.count \in Nat /\ el.drop \in Nat
      /\ el.count = el.drop + Cardinality(A) /\ el.last \in Nat /\ el.first \in Nat
      /\ Cap \in Nat /\ Width \in Nat /\ el.first \in A /\ el.last - 1 \in A
      /\ el.slot \in [0 .. Cap - 1 -> Entry]
  BY SubListAssumption DEF ElemOK, Elem
<1>2. IsFiniteSet(A) /\ Cardinality(A) \in Nat /\ A \subseteq 0 .. Cap - 1
  BY <1>1, LiveFinite
<1>3. \A k \in A : k \in el.first .. el.last - 1 /\ k \in 0 .. Cap - 1 /\ el.slot[k].seqno # 0
  BY <1>2 DEF LiveAt
<1> HIDE DEF A
<1>4. i \in A /\ i \in 0 .. Cap - 1
  BY <1>3 DEF A
<1>5. /\ IsFiniteSet(A \ {i}) /\ Cardinality(A \ {i}) = Cardinality(A) - 1
      /\ Cardinality(A \ {i}) \in Nat
  BY <1>2, <1>4, FS_RemoveElement, FS_CardinalityType
<1>6. el.drop + 1 < Width
  BY <1>1, <1>2, <1>5
<1>7. /\ e \in Elem /\ e.slot[i].seqno = 0
      /\ \A j \in 0 .. Cap - 1 : j # i => e.slot[j] = el.slot[j]
      /\ e.drop = el.drop + 1 /\ e.count = el.count
      /\ e.first = el.first /\ e.last = el.last
  BY <1>1, <1>4, <1>6, ClearedFields
<1>8. r = IF e.drop = e.count THEN [e EXCEPT !.first = 0, !.last = 0]
          ELSE IF i = e.first THEN [e EXCEPT !.first = CHOOSE j \in U : \A k \in U : j <= k]
          ELSE IF i = e.last - 1 THEN [e EXCEPT !.last = 1 + CHOOSE j \in U : \A k \in U : j >= k]
          ELSE e
  BY DEF ElemPop, Cleared, LiveAt
<1> HIDE DEF e, r
<1>9. U = A \ {i}
  <2>1. ASSUME NEW k \in U PROVE k \in A \ {i}
    <3>1. k \in el.first .. el.last - 1 /\ e.slot[k].seqno # 0
      BY <1>7 DEF LiveAt
    <3>2. k # i /\ k \in 0 .. Cap - 1
      BY <1>1, <1>7, <3>1
    <3>3. e.slot[k] = el.slot[k]
      BY <1>7, <3>2
    <3> QED
      BY <3>1, <3>2, <3>3 DEF A, LiveAt
  <2>2. ASSUME NEW k \in A \ {i} PROVE k \in U
    BY <1>3, <1>7 DEF LiveAt
  <2> QED
    BY <2>1, <2>2
<1> HIDE DEF U
<1>10. \A k \in U : e.slot[k] = el.slot[k] /\ k # i /\ k \in A /\ k \in Nat
  BY <1>3, <1>7, <1>9
<1>11. e.count = e.drop + Cardinality(U) /\ Cardinality(U) \in Nat /\ IsFiniteSet(U)
  BY <1>1, <1>2, <1>5, <1>7, <1>9
<1>12. Items(e) = Items(el) \ {el.slot[i]}
  <2>1. Items(e) = {el.slot[k] : k \in U}
    BY <1>10 DEF Items, U
  <2>2. Items(el) = {el.slot[k] : k \in A}
    BY DEF Items, A
  <2>3. ASSUME NEW k \in U PROVE el.slot[k] # el.slot[i]
    <3>1. k \in A /\ k \in Nat /\ i \in Nat /\ k # i
      BY <1>3, <1>4, <1>10
    <3>2. k < i \/ i < k
      BY <3>1
    <3>3. \A m \in A : el.slot[m].seqno \in Nat
      BY <1>1, <1>3 DEF Entry
    <3>4. el.slot[k].seqno < el.slot[i].seqno \/ el.slot[i].seqno < el.slot[k].seqno
      BY <1>4, <3>1, <3>2 DEF ElemOK, Ascending, A
    <3> QED
      BY <1>4, <3>1, <3>3, <3>4
  <2> QED
    BY <1>9, <2>1, <2>2, <2>3
<1>13. Ascending(e)
  <2> SUFFICES ASSUME NEW m \in U, NEW k \in U, m < k PROVE e.slot[m].seqno < e.slot[k].seqno
    BY DEF Ascending, U
  <2> QED
    BY <1>10 DEF ElemOK, Ascending, A
<1>14. e = [slot |-> e.slot, drop |-> e.drop, count |-> e.count, first |-> e.first,
            last |-> e.last]
  BY <1>7 DEF Elem
<1>15. CASE U = {}
  <2>1. e.drop = e.count
    BY <1>1, <1>7, <1>11, <1>15, FS_EmptySet
  <2>2. r.count = e.count /\ r.drop = e.drop
    BY <1>8, <1>14, <2>1
  <2>3. is_empty(r)
    BY <1>1, <1>7, <2>1, <2>2 DEF is_empty
  <2>4. A = {i}
    BY <1>4, <1>9, <1>15
  <2>5. Items(el) = {el.slot[i]}
    BY <2>4 DEF Items, A
  <2> QED
    BY <1>7, <2>2, <2>3, <2>5 DEF r
<1>16. CASE U # {}
  <2>1. Cardinality(U) # 0
    BY <1>11, <1>16, FS_EmptySet
  <2>2. e.drop # e.count /\ e.count - e.drop # 0
    BY <1>1, <1>7, <1>11, <2>1
  <2> SUFFICES /\ r \in Elem /\ r.slot = e.slot /\ r.count = e.count /\ r.drop = e.drop
               /\ r.first \in U /\ r.last - 1 \in U
               /\ \A k \in U : r.first <= k /\ k <= r.last - 1
    <3>1. ElemOK(r) /\ Items(r) = Items(e)
      BY <1>1, <1>7, <1>11, <1>13, Trim DEF U
    <3>2. ~is_empty(r)
      BY <2>2 DEF is_empty
    <3> QED
      BY <1>7, <1>12, <3>1, <3>2 DEF r
  <2>3. \A k \in U : el.first <= k /\ k <= el.last - 1 /\ k \in 0 .. Cap - 1
    BY <1>1, <1>3, <1>10
  <2>4. CASE i = e.first
    <3> DEFINE f == CHOOSE j \in U : \A k \in U : j <= k
    <3>1. f \in U /\ \A k \in U : f <= k
      <4>1. \E j \in U : \A k \in U : j <= k
        BY <1>10, <1>16, Least
      <4> QED
        BY <4>1
    <3>2. r = [e EXCEPT !.first = f]
      BY <1>8, <2>2, <2>4
    <3> HIDE DEF f
    <3>3. r = [slot |-> e.slot, drop |-> e.drop, count |-> e.count, first |-> f,
               last |-> e.last]
      BY <1>14, <3>2
    <3>4. /\ r.slot = e.slot /\ r.drop = e.drop /\ r.count = e.count /\ r.first = f
          /\ r.last = e.last
      BY <3>3
    <3>5. f \in Nat
      BY <1>10, <3>1
    <3>6. r \in Elem
      BY <1>7, <3>3, <3>5 DEF Elem
    <3>7. el.last - 1 # i
      BY <1>1, <1>7, <1>10, <1>16, <2>3, <2>4
    <3> QED
      BY <1>1, <1>7, <1>9, <2>3, <3>1, <3>4, <3>6, <3>7
  <2>5. CASE i # e.first /\ i = e.last - 1
    <3> DEFINE f == CHOOSE j \in U : \A k \in U : j >= k
    <3>1. f \in U /\ \A k \in U : f >= k
      <4>1. \E j \in U : \A k \in U : k <= j
        <5>1. Cap - 1 \in Nat
          BY SubListAssumption
        <5>2. U \subseteq 0 .. Cap - 1
          BY <2>3
        <5> DEFINE K == Cap - 1
        <5> HIDE DEF K
        <5>3. K \in Nat /\ U \subseteq 0 .. K
          BY <5>1, <5>2 DEF K
        <5> QED
          BY <1>16, <5>3, Greatest
      <4>2. \E j \in U : \A k \in U : j >= k
        BY <1>10, <4>1
      <4> QED
        BY <4>2
    <3>2. r = [e EXCEPT !.last = 1 + f]
      BY <1>8, <2>2, <2>5
    <3> HIDE DEF f
    <3>3. r = [slot |-> e.slot, drop |-> e.drop, count |-> e.count, first |-> e.first,
               last |-> 1 + f]
      BY <1>14, <3>2
    <3>4. /\ r.slot = e.slot /\ r.drop = e.drop /\ r.count = e.count /\ r.first = e.first
          /\ r.last = 1 + f
      BY <3>3
    <3>5. f \in Nat /\ 1 + f \in Nat /\ (1 + f) - 1 = f
      BY <1>10, <3>1
    <3>6. r \in Elem
      BY <1>7, <3>3, <3>5 DEF Elem
    <3>7. r.first \in U /\ r.last - 1 \in U
      BY <1>1, <1>7, <1>9, <2>5, <3>1, <3>4, <3>5
    <3>8. \A k \in U : r.first <= k /\ k <= r.last - 1
      BY <1>7, <1>10, <2>3, <3>1, <3>4, <3>5
    <3> QED
      BY <3>4, <3>6, <3>7, <3>8
  <2>6. CASE i # e.first /\ i # e.last - 1
    <3>1. r = e
      BY <1>8, <2>2, <2>6
    <3> QED
      BY <1>1, <1>7, <1>9, <2>3, <2>6, <3>1
  <2> QED
    BY <2>4, <2>5, <2>6
<1> QED
  BY <1>15, <1>16 DEF r

-----------------------------------------------------------------------------
(* The list                                                                *)

(* Arrays of the list, one before the other *)
Before(A, B) == \A x \in A, y \in B : x.seqno < y.seqno

ListOK(q) ==
    /\ q \in Seq(Elem)
    /\ \A n \in 1 .. Len(q) : ElemOK(q[n])
    /\ \A n, m \in 1 .. Len(q) : n < m => Before(Items(q[n]), Items(q[m]))

(* what the list has *)
AllItems(q) == UNION {Items(q[n]) : n \in 1 .. Len(q)}

(* no array has counted more than K entries *)
Counted(q, K) == \A n \in 1 .. Len(q) : q[n].count <= K

(* An array is appended to the list. *)
LEMMA AppendElem ==
    ASSUME NEW q \in Seq(Elem), NEW z \in Elem
    PROVE  /\ Append(q, z) \in Seq(Elem) /\ Len(Append(q, z)) = Len(q) + 1
           /\ \A i \in 1 .. Len(q) : Append(q, z)[i] = q[i]
           /\ Append(q, z)[Len(q) + 1] = z
  BY AppendProperties

(* A new array at the end, newer than the others. *)
LEMMA AppendArray ==
    ASSUME NEW q, ListOK(q), NEW z, ElemOK(z), Before(AllItems(q), Items(z))
    PROVE  ListOK(Append(q, z)) /\ AllItems(Append(q, z)) = AllItems(q) \union Items(z)
<1> DEFINE L == Len(q)
           r == Append(q, z)
<1>1. q \in Seq(Elem) /\ z \in Elem /\ L \in Nat
  BY LenProperties DEF ListOK, ElemOK
<1>2. /\ r \in Seq(Elem) /\ Len(r) = L + 1 /\ r[L + 1] = z
      /\ \A i \in 1 .. L : r[i] = q[i]
  BY <1>1, AppendElem
<1>3. /\ \A n \in 1 .. L : ElemOK(q[n]) /\ Items(q[n]) \subseteq AllItems(q)
      /\ \A n, m \in 1 .. L : n < m => Before(Items(q[n]), Items(q[m]))
      /\ AllItems(q) = UNION {Items(q[n]) : n \in 1 .. L}
  BY DEF ListOK, AllItems
<1> HIDE DEF r, L
<1>4. \A n \in 1 .. L + 1 : n \in 1 .. L \/ n = L + 1
  BY <1>1
<1>5. 1 .. L \subseteq 1 .. L + 1 /\ L + 1 \in 1 .. L + 1
  BY <1>1
<1>6. \A n \in 1 .. L + 1 : ElemOK(r[n])
  BY <1>2, <1>3, <1>4
<1>7. ASSUME NEW n \in 1 .. L + 1, NEW m \in 1 .. L + 1, n < m
      PROVE  Before(Items(r[n]), Items(r[m]))
  <2>1. n \in 1 .. L
    BY <1>1, <1>7
  <2>2. CASE m \in 1 .. L
    BY <1>2, <1>3, <1>7, <2>1, <2>2
  <2>3. CASE m = L + 1
    BY <1>2, <1>3, <2>1, <2>3 DEF Before
  <2> QED
    BY <1>4, <2>2, <2>3
<1>8. AllItems(r) = AllItems(q) \union Items(z)
  <2>1. ASSUME NEW x \in AllItems(r) PROVE x \in AllItems(q) \union Items(z)
    <3>1. PICK n \in 1 .. L + 1 : x \in Items(r[n])
      BY <1>2 DEF AllItems
    <3> QED
      BY <1>2, <1>3, <1>4, <3>1
  <2>2. ASSUME NEW x \in AllItems(q) PROVE x \in AllItems(r)
    BY <1>2, <1>3, <1>5 DEF AllItems
  <2>3. ASSUME NEW x \in Items(z) PROVE x \in AllItems(r)
    BY <1>2, <1>5 DEF AllItems
  <2> QED
    BY <2>1, <2>2, <2>3
<1> QED
  BY <1>2, <1>6, <1>7, <1>8 DEF ListOK, r

(* r is q with z in place of array k, as old as that was *)
Replaces(r, q, k, z) ==
    /\ k \in 1 .. Len(q) /\ r = [q EXCEPT ![k] = z]
    /\ \A n \in 1 .. Len(q) : n < k => Before(Items(q[n]), Items(z))
    /\ \A n \in 1 .. Len(q) : k < n => Before(Items(z), Items(q[n]))

(* Another array in place of one. *)
LEMMA ReplaceArray ==
    ASSUME NEW q, ListOK(q), NEW z, ElemOK(z), NEW k, NEW r, Replaces(r, q, k, z)
    PROVE  /\ ListOK(r) /\ Len(r) = Len(q)
           /\ \A n \in 1 .. Len(q) : r[n] = IF n = k THEN z ELSE q[n]
<1> DEFINE L == Len(q)
<1>1. /\ q \in Seq(Elem) /\ z \in Elem /\ L \in Nat /\ k \in Nat /\ k \in 1 .. L
      /\ r = [q EXCEPT ![k] = z]
  BY LenProperties DEF ListOK, ElemOK, Replaces
<1>2. /\ r \in Seq(Elem) /\ Len(r) = L
      /\ \A n \in 1 .. L : r[n] = IF n = k THEN z ELSE q[n]
  BY <1>1, ExceptSeq
<1>3. /\ \A n \in 1 .. L : ElemOK(q[n])
      /\ \A n, m \in 1 .. L : n < m => Before(Items(q[n]), Items(q[m]))
  BY DEF ListOK
<1>4. /\ \A n \in 1 .. L : n < k => Before(Items(q[n]), Items(z))
      /\ \A n \in 1 .. L : k < n => Before(Items(z), Items(q[n]))
  BY DEF Replaces
<1> HIDE DEF L
<1>5. \A n \in 1 .. L : ElemOK(r[n])
  BY <1>2, <1>3
<1>6. ASSUME NEW n \in 1 .. L, NEW m \in 1 .. L, n < m
      PROVE  Before(Items(r[n]), Items(r[m]))
  <2>1. CASE n = k
    <3>1. m # k
      BY <1>1, <1>6, <2>1
    <3> QED
      BY <1>2, <1>4, <1>6, <2>1, <3>1
  <2>2. CASE n # k
    BY <1>2, <1>3, <1>4, <1>6, <2>2
  <2> QED
    BY <2>1, <2>2
<1> QED
  BY <1>2, <1>5, <1>6 DEF ListOK, L

(* SubList::push adds an entry that is newer than all. *)
LEMMA PushList ==
    ASSUME NEW q, ListOK(q), NEW K \in Nat, Counted(q, K), K + 1 < Width,
           NEW e \in Entry, e.seqno # 0, \A x \in AllItems(q) : x.seqno < e.seqno
    PROVE  /\ ListOK(ListPush(q, e)) /\ Counted(ListPush(q, e), K + 1)
           /\ AllItems(ListPush(q, e)) = AllItems(q) \union {e}
<1> DEFINE L == Len(q)
<1>1. q \in Seq(Elem) /\ L \in Nat /\ Width \in Nat /\ (q # << >> => L # 0)
  BY LenProperties, EmptySeq, SubListAssumption DEF ListOK
<1>2. \A n \in 1 .. L : q[n].count \in Nat /\ q[n].count <= K /\ ElemOK(q[n])
  BY DEF ListOK, Counted, ElemOK, Elem
<1>3. CASE q = << >> \/ is_full(q[L])
  <2> DEFINE z == ElemPush(SubElem, e)
  <2>1. ElemOK(z) /\ Items(z) = {e} /\ z.count = 1
    BY <1>1, PushFresh
  <2>2. ListPush(q, e) = Append(q, z)
    BY <1>3 DEF ListPush
  <2> HIDE DEF z
  <2>3. Before(AllItems(q), Items(z))
    BY <2>1 DEF Before
  <2>4. ListOK(Append(q, z)) /\ AllItems(Append(q, z)) = AllItems(q) \union Items(z)
    BY <2>1, <2>3, AppendArray
  <2>5. Counted(Append(q, z), K + 1)
    <3>1. /\ Len(Append(q, z)) = L + 1 /\ Append(q, z)[L + 1] = z
          /\ \A i \in 1 .. L : Append(q, z)[i] = q[i]
      BY <1>1, <2>1, AppendElem DEF ElemOK
    <3> DEFINE r == Append(q, z)
    <3> HIDE DEF r, L
    <3> SUFFICES ASSUME NEW n \in 1 .. L + 1 PROVE r[n].count <= K + 1
      BY <3>1 DEF Counted, r
    <3>2. CASE n = L + 1
      <4>1. 1 <= K + 1
        OBVIOUS
      <4> QED
        BY <2>1, <3>1, <3>2, <4>1 DEF r
    <3>3. CASE n # L + 1
      <4>1. n \in 1 .. L
        BY <1>1, <3>3
      <4>2. r[n] = q[n]
        BY <3>1, <4>1 DEF r
      <4> QED
        BY <1>2, <4>1, <4>2
    <3> QED
      BY <3>2, <3>3
  <2> QED
    BY <2>1, <2>2, <2>4, <2>5
<1>4. CASE q # << >> /\ ~is_full(q[L])
  <2> DEFINE el == q[L]
             z  == ElemPush(el, e)
             r  == [q EXCEPT ![L] = z]
  <2>1. L \in 1 .. L
    BY <1>1, <1>4
  <2>2. ElemOK(el) /\ el.count + 1 < Width /\ el.count + 1 <= K + 1 /\ el.count \in Nat
    <3>1. ElemOK(el) /\ el.count \in Nat /\ el.count <= K
      BY <1>2, <2>1
    <3> HIDE DEF el
    <3> QED
      BY <1>1, <3>1
  <2>3. \A n \in 1 .. L : Items(q[n]) \subseteq AllItems(q)
    BY DEF AllItems
  <2>4. \A x \in Items(el) : x.seqno < e.seqno
    BY <2>1, <2>3
  <2>5. ElemOK(z) /\ Items(z) = Items(el) \union {e} /\ z.count <= el.count + 1
    BY <1>4, <2>2, <2>4, PushElem
  <2>6. ListPush(q, e) = r
    BY <1>4 DEF ListPush
  <2> HIDE DEF z
  <2>7. \A n \in 1 .. L : n < L => Before(Items(q[n]), Items(z))
    BY <2>1, <2>3, <2>5 DEF ListOK, Before
  <2>8. \A n \in 1 .. L : ~(L < n)
    BY <1>1
  <2>9. /\ ListOK(r) /\ Len(r) = L
        /\ \A n \in 1 .. L : r[n] = IF n = L THEN z ELSE q[n]
    <3>1. Replaces(r, q, L, z)
      BY <2>1, <2>7, <2>8 DEF Replaces
    <3> HIDE DEF r
    <3> QED
      BY <2>5, <3>1, ReplaceArray
  <2> HIDE DEF r
  <2>10. AllItems(r) = AllItems(q) \union {e}
    <3>1. ASSUME NEW x \in AllItems(r) PROVE x \in AllItems(q) \union {e}
      <4>1. PICK n \in 1 .. L : x \in Items(r[n])
        BY <2>9 DEF AllItems
      <4> QED
        BY <2>1, <2>3, <2>5, <2>9, <4>1
    <3>2. ASSUME NEW x \in AllItems(q) PROVE x \in AllItems(r)
      <4>1. PICK n \in 1 .. L : x \in Items(q[n])
        BY DEF AllItems
      <4>2. x \in Items(r[n])
        BY <2>5, <2>9, <4>1
      <4> QED
        BY <2>9, <4>1, <4>2 DEF AllItems
    <3>3. e \in AllItems(r)
      BY <2>1, <2>5, <2>9 DEF AllItems
    <3> QED
      BY <3>1, <3>2, <3>3
  <2>11. Counted(r, K + 1)
    <3> SUFFICES ASSUME NEW n \in 1 .. L PROVE r[n].count <= K + 1
      BY <2>9 DEF Counted
    <3>1. CASE n = L
      <4>1. z.count \in Nat
        BY <2>5 DEF ElemOK, Elem
      <4>2. z.count <= K + 1
        <5> HIDE DEF el
        <5> QED
          BY <2>2, <2>5, <4>1
      <4> QED
        BY <2>9, <3>1, <4>2
    <3>2. CASE n # L
      BY <1>2, <2>9, <3>2
    <3> QED
      BY <3>1, <3>2
  <2> QED
    BY <2>6, <2>9, <2>10, <2>11
<1> QED
  BY <1>3, <1>4

(* What RemoveAt leaves. *)
LEMMA RemoveIs ==
    ASSUME NEW q \in Seq(Elem), NEW k \in 1 .. Len(q)
    PROVE  /\ RemoveAt(q, k) \in Seq(Elem) /\ Len(RemoveAt(q, k)) = Len(q) - 1
           /\ \A n \in 1 .. Len(q) - 1 :
                 RemoveAt(q, k)[n] = IF n < k THEN q[n] ELSE q[n + 1]
<1> DEFINE L == Len(q)
           a == SubSeq(q, 1, k - 1)
           b == SubSeq(q, k + 1, L)
<1>1. L \in Nat /\ k \in Nat /\ k \in 1 .. L /\ \A n \in 1 .. L : q[n] \in Elem
  BY LenProperties, ElementOfSeq
<1> HIDE DEF L
<1>2. a \in Seq(Elem) /\ Len(a) = k - 1 /\ \A n \in 1 .. k - 1 : a[n] = q[n]
  <2> DEFINE N == k - 1
             c == SubSeq(q, 1, N)
  <2>1. N \in Int /\ \A n \in 1 .. N : q[n] \in Elem
    BY <1>1
  <2> HIDE DEF N
  <2>2. /\ c \in Seq(Elem) /\ Len(c) = (IF 1 <= N THEN N - 1 + 1 ELSE 0)
        /\ \A n \in 1 .. N - 1 + 1 : c[n] = q[1 + n - 1]
    BY <2>1, SubSeqProperties
  <2> HIDE DEF c
  <2>3. N = k - 1
    BY DEF N
  <2>4. Len(c) = N /\ \A n \in 1 .. N : c[n] = q[n]
    <3>1. N \in Nat /\ N - 1 + 1 = N
      BY <1>1, <2>3
    <3>2. Len(c) = N
      BY <2>2, <3>1
    <3>3. \A n \in 1 .. N : 1 + n - 1 = n
      BY <3>1
    <3> QED
      BY <2>2, <3>1, <3>2, <3>3
  <2> QED
    BY <2>2, <2>3, <2>4 DEF c
<1>3. b \in Seq(Elem) /\ Len(b) = L - k /\ \A n \in 1 .. L - k : b[n] = q[k + n]
  <2> DEFINE M == k + 1
             c == SubSeq(q, M, L)
  <2>1. M \in Int /\ L \in Int /\ \A n \in M .. L : q[n] \in Elem
    BY <1>1
  <2>2. M = k + 1
    OBVIOUS
  <2> HIDE DEF M
  <2>3. /\ c \in Seq(Elem) /\ Len(c) = (IF M <= L THEN L - M + 1 ELSE 0)
        /\ \A n \in 1 .. L - M + 1 : c[n] = q[M + n - 1]
    BY <2>1, SubSeqProperties
  <2> HIDE DEF c
  <2>4. L - M + 1 = L - k /\ \A n \in 1 .. L - k : M + n - 1 = k + n
    BY <1>1, <2>2
  <2>5. Len(c) = L - k
    BY <1>1, <2>2, <2>3, <2>4
  <2>6. \A n \in 1 .. L - k : c[n] = q[k + n]
    BY <2>3, <2>4
  <2> QED
    BY <2>2, <2>3, <2>5, <2>6 DEF c
<1> HIDE DEF a, b
<1>4. /\ a \o b \in Seq(Elem) /\ Len(a \o b) = Len(a) + Len(b)
      /\ \A n \in 1 .. Len(a) + Len(b) :
            (a \o b)[n] = IF n <= Len(a) THEN a[n] ELSE b[n - Len(a)]
  BY <1>2, <1>3, ConcatProperties
<1>5. RemoveAt(q, k) = a \o b
  BY DEF RemoveAt, a, b, L
<1> DEFINE r == a \o b
<1> HIDE DEF r
<1>6. /\ r \in Seq(Elem) /\ Len(r) = (k - 1) + (L - k)
      /\ \A n \in 1 .. (k - 1) + (L - k) :
            r[n] = IF n <= k - 1 THEN a[n] ELSE b[n - (k - 1)]
  BY <1>2, <1>3, <1>4 DEF r
<1>7. (k - 1) + (L - k) = L - 1
  BY <1>1
<1>8. ASSUME NEW n \in 1 .. L - 1 PROVE r[n] = IF n < k THEN q[n] ELSE q[n + 1]
  <2>1. CASE n < k
    <3>1. n \in 1 .. k - 1 /\ n <= k - 1
      BY <1>1, <2>1
    <3> QED
      BY <1>2, <1>6, <1>7, <2>1, <3>1
  <2>2. CASE ~(n < k)
    <3>1. ~(n <= k - 1) /\ n - (k - 1) \in 1 .. L - k /\ k + (n - (k - 1)) = n + 1
      BY <1>1, <2>2
    <3>2. r[n] = b[n - (k - 1)]
      BY <1>6, <1>7, <3>1
    <3>3. b[n - (k - 1)] = q[k + (n - (k - 1))]
      BY <1>3, <3>1
    <3> QED
      BY <2>2, <3>1, <3>2, <3>3
  <2> QED
    BY <2>1, <2>2
<1> QED
  BY <1>5, <1>6, <1>7, <1>8 DEF L, r

(* SubList::pop takes the entry of a number out of the list. *)
LEMMA PopList ==
    ASSUME NEW q, ListOK(q), NEW K \in Nat, Counted(q, K), K < Width, NEW x \in AllItems(q)
    PROVE  /\ ListOK(ListPop(q, x.seqno)) /\ Counted(ListPop(q, x.seqno), K)
           /\ AllItems(ListPop(q, x.seqno)) = AllItems(q) \ {x}
<1> DEFINE L   == Len(q)
           sno == x.seqno
           Has == {n \in DOMAIN q : Found(q[n], sno) # {}}
<1>1. q \in Seq(Elem) /\ L \in Nat /\ DOMAIN q = 1 .. L /\ Width \in Nat
  BY LenProperties, SubListAssumption DEF ListOK
<1>2. \A n \in 1 .. L : q[n].count \in Nat /\ q[n].count <= K /\ ElemOK(q[n])
  BY DEF ListOK, Counted, ElemOK, Elem
<1>3. PICK at \in 1 .. L : x \in Items(q[at])
  BY DEF AllItems
<1>4. ASSUME NEW n \in 1 .. L, NEW y \in Items(q[n])
      PROVE  y \in Entry /\ y.seqno \in Nat /\ y.seqno # 0
  <2>1. PICK i \in LiveAt(q[n]) : y = q[n].slot[i]
    BY DEF Items
  <2>2. q[n].slot \in [0 .. Cap - 1 -> Entry] /\ i \in 0 .. Cap - 1
    BY <1>2, LiveFinite DEF ElemOK, Elem
  <2> QED
    BY <2>1, <2>2 DEF LiveAt, Entry
<1>5. sno \in Nat /\ sno # 0
  BY <1>3, <1>4
<1>6. ASSUME NEW n \in 1 .. L, NEW y \in Items(q[n]), y.seqno = sno PROVE n = at
  <2>1. CASE n < at
    <3>1. y.seqno < x.seqno
      BY <1>3, <2>1 DEF ListOK, Before
    <3> QED
      BY <1>5, <1>6, <3>1
  <2>2. CASE at < n
    <3>1. x.seqno < y.seqno
      BY <1>3, <2>2 DEF ListOK, Before
    <3> QED
      BY <1>5, <1>6, <3>1
  <2> QED
    BY <1>1, <2>1, <2>2
<1> DEFINE el == q[at]
           F == Found(el, sno)
           i == CHOOSE k \in F : TRUE
           z == ElemPop(el, i)
<1>7. F = {k \in LiveAt(el) : el.slot[k].seqno = sno}
  BY <1>2, <1>5, FoundIs
<1>8. F # {}
  BY <1>3, <1>7 DEF Items
<1>9. i \in LiveAt(el) /\ el.slot[i].seqno = sno
  <2> HIDE DEF F
  <2>1. i \in F
    BY <1>8
  <2> HIDE DEF i
  <2> QED
    BY <1>7, <2>1
<1>10. Has = {at}
  <2>1. at \in Has
    BY <1>1, <1>8
  <2>2. ASSUME NEW n \in Has PROVE n = at
    <3>1. n \in 1 .. L /\ Found(q[n], sno) = {k \in LiveAt(q[n]) : q[n].slot[k].seqno = sno}
      BY <1>1, <1>2, <1>5, FoundIs
    <3>2. PICK k \in LiveAt(q[n]) : q[n].slot[k].seqno = sno
      BY <3>1
    <3>3. q[n].slot[k] \in Items(q[n])
      BY DEF Items
    <3> QED
      BY <1>6, <3>1, <3>2, <3>3
  <2> QED
    BY <2>1, <2>2
<1>11. el.slot[i] = x
  <2>1. PICK k \in LiveAt(el) : x = el.slot[k]
    BY <1>3 DEF Items
  <2> HIDE DEF i
  <2>2. i \in Nat /\ k \in Nat
    <3>1. LiveAt(el) \subseteq 0 .. Cap - 1
      BY <1>2, LiveFinite DEF ElemOK
    <3> QED
      BY <1>9, <3>1
  <2>3. \A j, m \in LiveAt(el) : j < m => el.slot[j].seqno < el.slot[m].seqno
    BY <1>2 DEF ElemOK, Ascending
  <2>4. ~(i < k) /\ ~(k < i)
    BY <1>5, <1>9, <2>1, <2>3
  <2> QED
    BY <2>1, <2>2, <2>4
<1>12. /\ z.count = el.count
       /\ \/ is_empty(z) /\ Items(el) = {x}
          \/ ~is_empty(z) /\ ElemOK(z) /\ Items(z) = Items(el) \ {x}
  <2>1. ElemOK(el) /\ el.count < Width
    <3>1. ElemOK(el) /\ el.count \in Nat /\ el.count <= K
      BY <1>2
    <3> HIDE DEF el
    <3> QED
      BY <1>1, <3>1
  <2> HIDE DEF i, el
  <2> QED
    BY <1>9, <1>11, <2>1, PopElem
<1>13. ListPop(q, sno) = IF is_empty(z) THEN RemoveAt(q, at) ELSE [q EXCEPT ![at] = z]
  <2>1. (CHOOSE n \in Has : \A m \in Has : n <= m) = at
    <3> HIDE DEF Has
    <3>1. at \in Has /\ \A m \in Has : at <= m
      BY <1>1, <1>10
    <3>2. \A n \in Has : n = at
      BY <1>10
    <3> QED
      BY <3>1, <3>2
  <2>2. ListPop(q, sno) =
          LET k == CHOOSE n \in Has : \A m \in Has : n <= m
              y == ElemPop(q[k], CHOOSE j \in Found(q[k], sno) : TRUE)
          IN  IF Has = {} THEN q
              ELSE IF is_empty(y) THEN RemoveAt(q, k) ELSE [q EXCEPT ![k] = y]
    BY DEF ListPop
  <2>3. Has # {}
    BY <1>10
  <2> HIDE DEF Has
  <2> QED
    BY <2>1, <2>2, <2>3
<1> HIDE DEF z, i, F, Has
<1>14. \A n \in 1 .. L : n # at => x \notin Items(q[n])
  BY <1>6
<1>15. AllItems(q) = UNION {Items(q[n]) : n \in 1 .. L}
  BY DEF AllItems
<1>16. CASE is_empty(z)
  <2> DEFINE r == RemoveAt(q, at)
  <2>1. /\ r \in Seq(Elem) /\ Len(r) = L - 1
        /\ \A n \in 1 .. L - 1 : r[n] = IF n < at THEN q[n] ELSE q[n + 1]
    BY <1>1, RemoveIs
  <2>2. Items(el) = {x}
    BY <1>12, <1>16
  <2> DEFINE pos(n) == IF n < at THEN n ELSE n + 1
  <2> HIDE DEF r, L, el
  <2>3. \A n \in 1 .. L - 1 : pos(n) \in 1 .. L /\ pos(n) # at
    BY <1>1
  <2>4. \A n, m \in 1 .. L - 1 : n < m => pos(n) < pos(m)
    BY <1>1
  <2>5. \A n \in 1 .. L : n # at => \E m \in 1 .. L - 1 : pos(m) = n
    <3> TAKE n \in 1 .. L
    <3> HAVE n # at
    <3>1. CASE n < at
      <4>1. n \in 1 .. L - 1
        BY <1>1, <3>1
      <4> QED
        BY <3>1, <4>1
    <3>2. CASE ~(n < at)
      <4>1. n - 1 \in 1 .. L - 1 /\ ~(n - 1 < at) /\ n - 1 + 1 = n
        BY <1>1, <3>2
      <4> QED
        BY <4>1
    <3> QED
      BY <3>1, <3>2
  <2>6. \A n \in 1 .. L - 1 : r[n] = q[pos(n)]
    BY <2>1
  <2> HIDE DEF pos
  <2>7. \A n \in 1 .. L - 1 : ElemOK(r[n]) /\ r[n].count <= K
    BY <1>2, <2>3, <2>6
  <2>8. \A n, m \in 1 .. L - 1 : n < m => Before(Items(r[n]), Items(r[m]))
    <3>1. \A n, m \in 1 .. L : n < m => Before(Items(q[n]), Items(q[m]))
      BY DEF ListOK, L
    <3> QED
      BY <2>3, <2>4, <2>6, <3>1
  <2>9. AllItems(r) = UNION {Items(r[n]) : n \in 1 .. L - 1}
    BY <2>1 DEF AllItems
  <2>10. ASSUME NEW y \in AllItems(r) PROVE y \in AllItems(q) \ {x}
    <3>1. PICK n \in 1 .. L - 1 : y \in Items(r[n])
      BY <2>9
    <3> QED
      BY <1>14, <1>15, <2>3, <2>6, <3>1
  <2>11. ASSUME NEW y \in AllItems(q) \ {x} PROVE y \in AllItems(r)
    <3>1. PICK n \in 1 .. L : y \in Items(q[n])
      BY <1>15
    <3>2. n # at
      BY <2>2, <3>1 DEF el
    <3>3. PICK m \in 1 .. L - 1 : pos(m) = n
      BY <2>5, <3>2
    <3> QED
      BY <2>6, <2>9, <3>1, <3>3
  <2>12. AllItems(r) = AllItems(q) \ {x}
    BY <2>10, <2>11
  <2>13. ListOK(r) /\ Counted(r, K)
    BY <2>1, <2>7, <2>8 DEF ListOK, Counted
  <2>14. ListPop(q, sno) = r
    BY <1>13, <1>16 DEF r
  <2> QED
    BY <2>12, <2>13, <2>14
<1>17. CASE ~is_empty(z)
  <2> DEFINE r == [q EXCEPT ![at] = z]
  <2>1. ElemOK(z) /\ Items(z) = Items(el) \ {x}
    BY <1>12, <1>17
  <2>2. /\ \A n \in 1 .. L : n < at => Before(Items(q[n]), Items(z))
        /\ \A n \in 1 .. L : at < n => Before(Items(z), Items(q[n]))
    BY <2>1 DEF ListOK, Before
  <2>3. /\ ListOK(r) /\ Len(r) = L
        /\ \A n \in 1 .. L : r[n] = IF n = at THEN z ELSE q[n]
    <3>1. Replaces(r, q, at, z)
      BY <2>2 DEF Replaces
    <3> HIDE DEF r
    <3> QED
      BY <2>1, <3>1, ReplaceArray
  <2> HIDE DEF r, L
  <2>4. AllItems(r) = UNION {Items(r[n]) : n \in 1 .. L}
    BY <2>3 DEF AllItems
  <2>5. ASSUME NEW y \in AllItems(r) PROVE y \in AllItems(q) \ {x}
    <3>1. PICK n \in 1 .. L : y \in Items(r[n])
      BY <2>4
    <3>2. CASE n = at
      BY <1>15, <2>1, <2>3, <3>1, <3>2
    <3>3. CASE n # at
      BY <1>14, <1>15, <2>3, <3>1, <3>3
    <3> QED
      BY <3>2, <3>3
  <2>6. ASSUME NEW y \in AllItems(q) \ {x} PROVE y \in AllItems(r)
    <3>1. PICK n \in 1 .. L : y \in Items(q[n])
      BY <1>15
    <3>2. y \in Items(r[n])
      BY <2>1, <2>3, <3>1
    <3> QED
      BY <2>4, <3>2
  <2>7. Counted(r, K)
    BY <1>2, <1>12, <2>3 DEF Counted
  <2>8. AllItems(r) = AllItems(q) \ {x}
    BY <2>5, <2>6
  <2>9. ListPop(q, sno) = r
    BY <1>13, <1>17 DEF r
  <2> QED
    BY <2>3, <2>7, <2>8, <2>9
<1> QED
  BY <1>16, <1>17

(* SubListIter returns all, in order, if their numbers are in its range. *)
LEMMA ReplayIs ==
    ASSUME NEW q, ListOK(q), NEW lo, NEW hi, \A x \in AllItems(q) : x.seqno \in lo .. hi
    PROVE  /\ Replay(q, lo, hi) \in Seq(Entry)
           /\ Elems(Replay(q, lo, hi)) = AllItems(q)
           /\ Sorted(Replay(q, lo, hi))
<1> DEFINE L == Len(q)
           parts == [n \in DOMAIN q |-> Within(q[n], lo, hi)]
<1>1. q \in Seq(Elem) /\ L \in Nat /\ DOMAIN q = 1 .. L
  BY LenProperties DEF ListOK
<1>2. ASSUME NEW n \in 1 .. L
      PROVE  /\ Within(q[n], lo, hi) \in Seq(Entry)
             /\ Elems(Within(q[n], lo, hi)) = Items(q[n])
             /\ Sorted(Within(q[n], lo, hi))
  <2>1. ElemOK(q[n]) /\ \A x \in Items(q[n]) : x.seqno \in lo .. hi
    BY DEF ListOK, AllItems
  <2> QED
    BY <2>1, EntriesAre, WithinAll
<1>3. \A n \in 1 .. L : /\ parts[n] \in Seq(Entry) /\ Elems(parts[n]) = Items(q[n])
                        /\ Sorted(parts[n])
  BY <1>1, <1>2
<1>4. parts \in [1 .. L -> Seq(Entry)]
  BY <1>1, <1>2
<1>5. Replay(q, lo, hi) = FlattenSeq(parts)
  BY DEF Replay
<1> HIDE DEF parts
<1>6. parts \in Seq(Seq(Entry)) /\ Len(parts) = L
  BY <1>1, <1>4, SeqDef, LenProperties
<1>7. Flat(FlattenSeq(parts), parts, L)
  BY <1>6, FlattenIs
<1>8. Ordered(parts)
  <2>1. \A n, m \in 1 .. L : n < m => Before(Items(q[n]), Items(q[m]))
    BY DEF ListOK
  <2> QED
    BY <1>3, <1>6, <2>1 DEF Ordered, Before
<1>9. UNION {Elems(parts[n]) : n \in 1 .. L} = AllItems(q)
  BY <1>3 DEF AllItems
<1> QED
  BY <1>5, <1>7, <1>8, <1>9 DEF Flat
=============================================================================

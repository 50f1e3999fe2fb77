----------------------------- MODULE SubDBProof -----------------------------
(***************************************************************************)
(* Proofs about SubDB for any subjects, patterns, hashes, holders, peers   *)
(* and bounds: the type invariant, NoneMissed and CopyExact, from the      *)
(* inductive invariant IndInv, and ListExact, from ListAt.                 *)
(***************************************************************************)
EXTENDS SubDB, SubListProof

(* A filter suits the routes R: it has what they need, and no more where   *)
(* no two subjects share a hash                                            *)
Suits(f, R) ==
    /\ f \in Filter
    /\ \A x \in Hashes : f[x] >= Need(R, x) /\ (~Shared(x) => f[x] = Need(R, x))

(* A start or a stop leads from the routes R to the routes Q; it says to   *)
(* leave the filter alone only if another subject keeps the hash           *)
Sharing(r, R) == r \in Subs /\ \E q \in R \intersect Subs : q # r /\ Hash[q] = Hash[r]

Leads(m, R, Q) ==
    /\ m.join  => m.sub \notin R /\ Q = R \union {m.sub} /\ (~m.upd => Sharing(m.sub, R))
    /\ ~m.join => m.sub \in R /\ Q = R \ {m.sub} /\ (m.upd <=> ~Sharing(m.sub, R))

(* the routes that have a holder *)
Holding(rf) == {r \in Routes : rf[r] # {}}

(* What the owner has given out suits the routes of its number *)
History ==
    /\ active[0] = {}
    /\ active[sub_seqno] = Active
    /\ \A s \in 1 .. sub_seqno : Leads(sent[s], active[s - 1], active[s])

Floods  == \A k \in 1 .. Len(blm) : Suits(blm[k].bloom, active[blm[k].seqno])
Copies  == \A p \in Peers : Suits(copy[p], active[seen[p]])
Answers == \A m \in rpys : m.full => Suits(m.bloom, active[m.seqno])

IndInv ==
    /\ TypeOK
    /\ Suits(filter.bloom, Active)
    /\ History
    /\ Floods
    /\ Copies
    /\ Answers

-----------------------------------------------------------------------------
(* What a filter needs                                                     *)

PatsOf(R, x) == {r \in R \intersect Pats : Hash[r] = x}
SubBit(R, x) == IF \E r \in R \intersect Subs : Hash[r] = x THEN 1 ELSE 0

(* The sets of routes are finite. *)
LEMMA RoutesFinite ==
    /\ IsFiniteSet(Routes)
    /\ \A R : R \subseteq Routes => IsFiniteSet(R) /\ Cardinality(R) \in Nat
<1>1. IsFiniteSet(Routes)
  BY SubDBAssumption, FS_Union DEF Routes
<1>2. ASSUME NEW R, R \subseteq Routes
      PROVE  IsFiniteSet(R) /\ Cardinality(R) \in Nat
  BY <1>1, <1>2, FS_Subset, FS_CardinalityType
<1> QED
  BY <1>1, <1>2

(* Need is a number, the sum of its two parts. *)
LEMMA NeedParts ==
    ASSUME NEW R, R \subseteq Routes, NEW x
    PROVE  /\ Need(R, x) = SubBit(R, x) + Cardinality(PatsOf(R, x))
           /\ SubBit(R, x) \in {0, 1}
           /\ IsFiniteSet(PatsOf(R, x))
           /\ Cardinality(PatsOf(R, x)) \in Nat
           /\ Need(R, x) \in Nat
<1>1. PatsOf(R, x) \subseteq Routes
  BY DEF PatsOf
<1>2. IsFiniteSet(PatsOf(R, x)) /\ Cardinality(PatsOf(R, x)) \in Nat
  BY <1>1, RoutesFinite
<1>3. Need(R, x) = SubBit(R, x) + Cardinality(PatsOf(R, x))
  BY DEF Need, SubBit, PatsOf
<1>4. SubBit(R, x) \in {0, 1}
  BY DEF SubBit
<1> QED
  BY <1>2, <1>3, <1>4

(* A route that starts adds at most one to the need of its hash, exactly   *)
(* one if the hash is not shared, nothing if another subject has it.       *)
LEMMA NeedAdd ==
    ASSUME NEW R, R \subseteq Routes, NEW r \in Routes, r \notin R, NEW x \in Hashes
    PROVE  /\ x # Hash[r] => Need(R \union {r}, x) = Need(R, x)
           /\ Need(R \union {r}, x) <= Need(R, x) + 1
           /\ Sharing(r, R) => Need(R \union {r}, x) = Need(R, x)
           /\ x = Hash[r] /\ ~Shared(x) => Need(R \union {r}, x) = Need(R, x) + 1
<1> DEFINE Q == R \union {r}
<1>1. R \subseteq Routes /\ Q \subseteq Routes
  OBVIOUS
<1>2. /\ Need(R, x) = SubBit(R, x) + Cardinality(PatsOf(R, x))
      /\ Need(Q, x) = SubBit(Q, x) + Cardinality(PatsOf(Q, x))
      /\ SubBit(R, x) \in {0, 1} /\ SubBit(Q, x) \in {0, 1}
      /\ IsFiniteSet(PatsOf(R, x))
      /\ Cardinality(PatsOf(R, x)) \in Nat
  BY <1>1, NeedParts
<1>3. ASSUME x # Hash[r]
      PROVE  SubBit(Q, x) = SubBit(R, x) /\ PatsOf(Q, x) = PatsOf(R, x)
  BY <1>3 DEF SubBit, PatsOf
<1>4. ASSUME x = Hash[r], r \in Pats
      PROVE  SubBit(Q, x) = SubBit(R, x) /\ Cardinality(PatsOf(Q, x)) = Cardinality(PatsOf(R, x)) + 1
  <2>1. r \notin Subs
    BY <1>4, SubDBAssumption
  <2>2. PatsOf(Q, x) = PatsOf(R, x) \union {r} /\ r \notin PatsOf(R, x)
    BY <1>4 DEF PatsOf
  <2>3. SubBit(Q, x) = SubBit(R, x)
    BY <2>1 DEF SubBit
  <2> QED
    BY <1>2, <2>2, <2>3, FS_AddElement
<1>5. ASSUME x = Hash[r], r \in Subs
      PROVE  /\ PatsOf(Q, x) = PatsOf(R, x)
             /\ SubBit(Q, x) = 1
             /\ Sharing(r, R) => SubBit(R, x) = 1
             /\ ~Shared(x) => SubBit(R, x) = 0
  <2>1. r \notin Pats
    BY <1>5, SubDBAssumption
  <2>2. PatsOf(Q, x) = PatsOf(R, x)
    BY <2>1 DEF PatsOf
  <2>3. SubBit(Q, x) = 1
    BY <1>5 DEF SubBit
  <2>4. Sharing(r, R) => SubBit(R, x) = 1
    BY <1>5 DEF SubBit, Sharing
  <2>5. ~Shared(x) => SubBit(R, x) = 0
    BY <1>5 DEF SubBit, Shared
  <2> QED
    BY <2>2, <2>3, <2>4, <2>5
<1>6. r \in Subs \/ r \in Pats
  BY DEF Routes
<1>7. Sharing(r, R) => r \in Subs
  BY DEF Sharing
<1>8. r \in Pats => r \notin Subs
  BY SubDBAssumption
<1> HIDE DEF Q
<1>9. /\ x # Hash[r] => Need(Q, x) = Need(R, x)
      /\ Need(Q, x) <= Need(R, x) + 1
      /\ Sharing(r, R) => Need(Q, x) = Need(R, x)
      /\ x = Hash[r] /\ ~Shared(x) => Need(Q, x) = Need(R, x) + 1
  <2>1. CASE x # Hash[r]
    BY <2>1, <1>2, <1>3
  <2>2. CASE x = Hash[r] /\ r \in Pats
    BY <2>2, <1>2, <1>4, <1>7, <1>8
  <2>3. CASE x = Hash[r] /\ r \in Subs
    BY <2>3, <1>2, <1>5
  <2> QED
    BY <2>1, <2>2, <2>3, <1>6
<1> QED
  BY <1>9 DEF Q

(* A route that stops takes one off the need of its hash, nothing if       *)
(* another subject keeps it.                                               *)
LEMMA NeedDel ==
    ASSUME NEW R, R \subseteq Routes, NEW r \in R, NEW x \in Hashes
    PROVE  /\ x # Hash[r] => Need(R \ {r}, x) = Need(R, x)
           /\ Sharing(r, R) => Need(R \ {r}, x) = Need(R, x)
           /\ x = Hash[r] /\ ~Sharing(r, R) => Need(R, x) = Need(R \ {r}, x) + 1
<1> DEFINE Q == R \ {r}
<1>0. R = Q \union {r} /\ r \notin Q /\ Q \subseteq Routes /\ r \in Routes
  OBVIOUS
<1>1. Sharing(r, Q) <=> Sharing(r, R)
  BY DEF Sharing
<1>2. /\ Need(R, x) = SubBit(R, x) + Cardinality(PatsOf(R, x))
      /\ Need(Q, x) = SubBit(Q, x) + Cardinality(PatsOf(Q, x))
      /\ SubBit(R, x) \in {0, 1} /\ SubBit(Q, x) \in {0, 1}
      /\ IsFiniteSet(PatsOf(Q, x))
      /\ Cardinality(PatsOf(Q, x)) \in Nat
  BY <1>0, NeedParts
<1>3. ASSUME x = Hash[r], ~Sharing(r, R)
      PROVE  Need(R, x) = Need(Q, x) + 1
  <2>1. CASE r \in Pats
    <3>1. r \notin Subs
      BY <2>1, SubDBAssumption
    <3>2. PatsOf(R, x) = PatsOf(Q, x) \union {r} /\ r \notin PatsOf(Q, x)
      BY <1>3, <2>1 DEF PatsOf
    <3>3. SubBit(Q, x) = SubBit(R, x)
      BY <3>1 DEF SubBit
    <3>4. Cardinality(PatsOf(R, x)) = Cardinality(PatsOf(Q, x)) + 1
      BY <1>2, <3>2, FS_AddElement
    <3> HIDE DEF Q
    <3> QED
      BY <1>2, <3>3, <3>4
  <2>2. CASE r \in Subs
    <3>1. r \notin Pats
      BY <2>2, SubDBAssumption
    <3>2. PatsOf(R, x) = PatsOf(Q, x)
      BY <3>1 DEF PatsOf
    <3>3. SubBit(R, x) = 1
      BY <1>3, <2>2 DEF SubBit
    <3>4. SubBit(Q, x) = 0
      BY <1>3, <2>2 DEF SubBit, Sharing
    <3> HIDE DEF Q
    <3> QED
      BY <1>2, <3>2, <3>3, <3>4
  <2> QED
    BY <2>1, <2>2, <1>0 DEF Routes
<1>4. x # Hash[r] => Need(R, x) = Need(Q, x)
  BY <1>0, NeedAdd
<1>5. Sharing(r, R) => Need(R, x) = Need(Q, x)
  BY <1>0, <1>1, NeedAdd
<1> QED
  BY <1>3, <1>4, <1>5

(* A hash that is not shared is needed by every route that has it. *)
LEMMA NeedCount ==
    ASSUME NEW R, R \subseteq Routes, NEW x \in Hashes
    PROVE  /\ Cardinality({r \in R : Hash[r] = x}) \in Nat
           /\ Need(R, x) <= Cardinality({r \in R : Hash[r] = x})
           /\ ~Shared(x) => Need(R, x) = Cardinality({r \in R : Hash[r] = x})
<1> DEFINE A == {r \in R : Hash[r] = x}
<1>1. /\ Need(R, x) = SubBit(R, x) + Cardinality(PatsOf(R, x))
      /\ SubBit(R, x) \in {0, 1}
      /\ IsFiniteSet(PatsOf(R, x))
      /\ Cardinality(PatsOf(R, x)) \in Nat
  BY NeedParts
<1>2. IsFiniteSet(A) /\ Cardinality(A) \in Nat
  BY RoutesFinite
<1>3. CASE \E r \in R \intersect Subs : Hash[r] = x
  <2>1. PICK r \in R \intersect Subs : Hash[r] = x
    BY <1>3
  <2>2. SubBit(R, x) = 1
    BY <1>3 DEF SubBit
  <2>3. r \notin PatsOf(R, x)
    BY SubDBAssumption DEF PatsOf
  <2>4. /\ IsFiniteSet(PatsOf(R, x) \union {r})
        /\ Cardinality(PatsOf(R, x) \union {r}) = Cardinality(PatsOf(R, x)) + 1
    BY <1>1, <2>3, FS_AddElement
  <2>5. PatsOf(R, x) \union {r} \subseteq A
    BY <2>1 DEF PatsOf
  <2>6. Cardinality(PatsOf(R, x) \union {r}) <= Cardinality(A)
    BY <1>2, <2>5, FS_Subset
  <2>7. ~Shared(x) => A = PatsOf(R, x) \union {r}
    BY <2>1 DEF PatsOf, Shared, Routes
  <2> HIDE DEF A
  <2>8. Need(R, x) <= Cardinality(A) /\ (~Shared(x) => Need(R, x) = Cardinality(A))
    <3>1. Need(R, x) = Cardinality(PatsOf(R, x) \union {r})
      BY <1>1, <2>2, <2>4
    <3>2. Need(R, x) <= Cardinality(A)
      BY <3>1, <2>6
    <3>3. ~Shared(x) => Need(R, x) = Cardinality(A)
      BY <3>1, <2>7
    <3> QED
      BY <3>2, <3>3
  <2> QED
    BY <1>2, <2>8 DEF A
<1>4. CASE ~ \E r \in R \intersect Subs : Hash[r] = x
  <2>1. A = PatsOf(R, x)
    BY <1>4 DEF PatsOf, Routes
  <2>2. SubBit(R, x) = 0
    BY <1>4 DEF SubBit
  <2> HIDE DEF A
  <2>3. Need(R, x) = Cardinality(A)
    BY <1>1, <2>1, <2>2
  <2>4. Need(R, x) <= Cardinality(A)
    BY <2>3, <1>2
  <2> QED
    BY <1>2, <2>3, <2>4 DEF A
<1> QED
  BY <1>3, <1>4

-----------------------------------------------------------------------------
(* Filters that suit                                                       *)

(* An add, and a delete of what is there, change one hash; whatever a      *)
(* delete takes, the counts stay numbers.                                  *)
LEMMA AddDel ==
    ASSUME NEW f \in Filter, NEW y \in Hashes, NEW lost
    PROVE  /\ Add(f, y) \in Filter /\ Del(f, y, lost) \in Filter
           /\ \A x \in Hashes : /\ x # y => Add(f, y)[x] = f[x]
                                /\ Add(f, y)[y] = f[y] + 1
           /\ f[y] > 0 => /\ Del(f, y, lost)[y] = f[y] - 1
                          /\ \A x \in Hashes : x # y => Del(f, y, lost)[x] = f[x]
BY DEF Add, Del, Filter

(* A start or a stop that is applied to a filter that suits the routes     *)
(* before it gives one that suits the routes after it.                     *)
LEMMA ApplySuits ==
    ASSUME NEW m \in [sub : Routes, join : BOOLEAN, upd : BOOLEAN],
           NEW R \in SUBSET Routes, NEW Q \in SUBSET Routes, Leads(m, R, Q),
           NEW f, Suits(f, R), NEW lost
    PROVE  Suits(Apply(f, m, lost), Q)
<1> DEFINE r == m.sub
           y == Hash[m.sub]
<1>1. r \in Routes /\ y \in Hashes /\ f \in Filter
  BY DEF Suits, Hashes
<1>2. \A x \in Hashes : /\ f[x] \in Nat /\ Need(R, x) \in Nat /\ Need(Q, x) \in Nat
                        /\ f[x] >= Need(R, x)
                        /\ ~Shared(x) => f[x] = Need(R, x)
  BY NeedParts DEF Suits, Filter
<1>3. Sharing(r, R) => Shared(y)
  BY DEF Sharing, Shared
<1>4. /\ Add(f, y) \in Filter /\ Del(f, y, lost) \in Filter
      /\ \A x \in Hashes : /\ x # y => Add(f, y)[x] = f[x]
                           /\ Add(f, y)[y] = f[y] + 1
      /\ f[y] > 0 => /\ Del(f, y, lost)[y] = f[y] - 1
                     /\ \A x \in Hashes : x # y => Del(f, y, lost)[x] = f[x]
  BY <1>1, AddDel
<1>5. CASE m.join
  <2>1. r \notin R /\ Q = R \union {r} /\ (~m.upd => Sharing(r, R))
    BY <1>5 DEF Leads
  <2>2. \A x \in Hashes : /\ x # y => Need(Q, x) = Need(R, x)
                          /\ Need(Q, x) <= Need(R, x) + 1
                          /\ Sharing(r, R) => Need(Q, x) = Need(R, x)
                          /\ x = y /\ ~Shared(x) => Need(Q, x) = Need(R, x) + 1
    BY <1>1, <2>1, NeedAdd
  <2>3. CASE m.upd
    <3>1. Apply(f, m, lost) = Add(f, y)
      BY <1>5, <2>3 DEF Apply, AddIf
    <3>2. ASSUME NEW x \in Hashes
          PROVE  /\ Add(f, y)[x] >= Need(Q, x)
                 /\ ~Shared(x) => Add(f, y)[x] = Need(Q, x)
      <4>0. f[x] \in Nat /\ Need(R, x) \in Nat /\ Need(Q, x) \in Nat
            /\ f[x] >= Need(R, x) /\ (~Shared(x) => f[x] = Need(R, x))
        BY <1>2
      <4>1. CASE x = y
        <5>1. Add(f, y)[x] = f[x] + 1
          BY <4>1, <1>4
        <5>2. Need(Q, x) <= Need(R, x) + 1 /\ (~Shared(x) => Need(Q, x) = Need(R, x) + 1)
          BY <4>1, <2>2
        <5> QED
          BY <4>0, <5>1, <5>2
      <4>2. CASE x # y
        <5>1. Add(f, y)[x] = f[x]
          BY <4>2, <1>4
        <5>2. Need(Q, x) = Need(R, x)
          BY <4>2, <2>2
        <5> QED
          BY <4>0, <5>1, <5>2
      <4> QED
        BY <4>1, <4>2
    <3> QED
      BY <1>4, <3>1, <3>2 DEF Suits
  <2>4. CASE ~m.upd
    <3>1. Apply(f, m, lost) = f
      BY <1>5, <2>4 DEF Apply, AddIf
    <3>2. \A x \in Hashes : Need(Q, x) = Need(R, x)
      BY <2>1, <2>2, <2>4
    <3> QED
      BY <1>1, <1>2, <3>1, <3>2 DEF Suits
  <2> QED
    BY <2>3, <2>4
<1>6. CASE ~m.join
  <2>1. r \in R /\ Q = R \ {r} /\ (m.upd <=> ~Sharing(r, R))
    BY <1>6 DEF Leads
  <2>2. \A x \in Hashes : /\ x # y => Need(Q, x) = Need(R, x)
                          /\ Sharing(r, R) => Need(Q, x) = Need(R, x)
                          /\ x = y /\ ~Sharing(r, R) => Need(R, x) = Need(Q, x) + 1
    BY <1>1, <2>1, NeedDel
  <2>3. CASE m.upd
    <3>1. Apply(f, m, lost) = Del(f, y, lost)
      BY <1>6, <2>3 DEF Apply, DelIf
    <3>3. ~Sharing(r, R)
      BY <2>1, <2>3
    <3>4. f[y] > 0
      <4>1. Need(R, y) = Need(Q, y) + 1
        BY <1>1, <2>2, <3>3
      <4> QED
        BY <1>1, <1>2, <4>1
    <3>2. ASSUME NEW x \in Hashes
          PROVE  /\ Del(f, y, lost)[x] >= Need(Q, x)
                 /\ ~Shared(x) => Del(f, y, lost)[x] = Need(Q, x)
      <4>1. CASE x = y
        <5>1. Need(R, x) = Need(Q, x) + 1
          BY <4>1, <2>2, <3>3
        <5>3. Del(f, y, lost)[x] = f[x] - 1
          BY <3>4, <4>1, <1>4
        <5> QED
          BY <5>1, <5>3, <1>2
      <4>2. CASE x # y
        <5>1. Del(f, y, lost)[x] = f[x]
          BY <3>4, <4>2, <1>4
        <5>2. Need(Q, x) = Need(R, x)
          BY <4>2, <2>2
        <5> QED
          BY <1>2, <5>1, <5>2
      <4> QED
        BY <4>1, <4>2
    <3> QED
      BY <1>4, <3>1, <3>2 DEF Suits
  <2>4. CASE ~m.upd
    <3>1. Apply(f, m, lost) = f
      BY <1>6, <2>4 DEF Apply, DelIf
    <3>2. \A x \in Hashes : Need(Q, x) = Need(R, x)
      BY <2>1, <2>2, <2>4
    <3> QED
      BY <1>1, <1>2, <3>1, <3>2 DEF Suits
  <2> QED
    BY <2>3, <2>4
<1> QED
  BY <1>5, <1>6

(* A filter of some of the holders is one. *)
LEMMA IndexType ==
    ASSUME NEW rf, NEW H
    PROVE  index_bloom(rf, H) \in Filter
<1>1. ASSUME NEW x \in Hashes
      PROVE  Cardinality({r \in Routes : Hash[r] = x /\ rf[r] \intersect H # {}}) \in Nat
  BY RoutesFinite
<1> QED
  BY <1>1 DEF index_bloom, Filter

(* A filter that is built again suits the routes it is built from. *)
LEMMA IndexSuits ==
    ASSUME NEW rf \in [Routes -> SUBSET Holders]
    PROVE  Suits(index_bloom(rf, Holders), Holding(rf))
<1> DEFINE R == Holding(rf)
<1>1. R \subseteq Routes
  BY DEF Holding
<1>2. ASSUME NEW x \in Hashes
      PROVE  index_bloom(rf, Holders)[x] = Cardinality({r \in R : Hash[r] = x})
  <2>1. {r \in Routes : Hash[r] = x /\ rf[r] \intersect Holders # {}} = {r \in R : Hash[r] = x}
    BY DEF Holding
  <2> QED
    BY <2>1 DEF index_bloom
<1>3. ASSUME NEW x \in Hashes
      PROVE  /\ index_bloom(rf, Holders)[x] >= Need(R, x)
             /\ ~Shared(x) => index_bloom(rf, Holders)[x] = Need(R, x)
  <2>1. /\ Cardinality({r \in R : Hash[r] = x}) \in Nat
        /\ Need(R, x) <= Cardinality({r \in R : Hash[r] = x})
        /\ ~Shared(x) => Need(R, x) = Cardinality({r \in R : Hash[r] = x})
    BY <1>1, NeedCount
  <2>2. Need(R, x) \in Nat
    BY <1>1, NeedParts
  <2>3. index_bloom(rf, Holders)[x] = Cardinality({r \in R : Hash[r] = x})
    BY <1>2
  <2> DEFINE c == Cardinality({r \in R : Hash[r] = x})
  <2>4. c \in Nat /\ Need(R, x) <= c /\ (~Shared(x) => Need(R, x) = c)
    BY <2>1
  <2> HIDE DEF c, R
  <2>5. c >= Need(R, x) /\ (~Shared(x) => c = Need(R, x))
    BY <2>4, <2>2
  <2> QED
    BY <2>3, <2>5 DEF c
<1> QED
  BY <1>3, IndexType DEF Suits

(* An empty filter suits no routes. *)
LEMMA EmptySuits == Suits(Empty, {})
<1>1. ASSUME NEW x \in Hashes
      PROVE  Need({}, x) = 0
  <2>1. {r \in {} \intersect Pats : Hash[r] = x} = {}
    OBVIOUS
  <2> QED
    BY <2>1, FS_EmptySet DEF Need
<1>2. Empty \in Filter /\ \A x \in Hashes : Empty[x] = 0
  BY DEF Empty, Filter
<1> QED
  BY <1>1, <1>2 DEF Suits

(* A filter that suits covers its routes and counts them. *)
LEMMA SuitsCovers ==
    ASSUME NEW f, NEW R \in SUBSET Routes, Suits(f, R)
    PROVE  /\ Covers(f, R)
           /\ \A x \in Hashes : Shared(x) \/ f[x] = Cardinality({r \in R : Hash[r] = x})
<1>1. ASSUME NEW r \in R
      PROVE  f[Hash[r]] > 0
  <2>1. Hash[r] \in Hashes
    BY DEF Hashes
  <2>2. f[Hash[r]] \in Nat /\ f[Hash[r]] >= Need(R, Hash[r])
    BY <2>1 DEF Suits, Filter
  <2>3. Need(R, Hash[r]) > 0
    <3>1. /\ Need(R, Hash[r]) = SubBit(R, Hash[r]) + Cardinality(PatsOf(R, Hash[r]))
          /\ SubBit(R, Hash[r]) \in {0, 1}
          /\ IsFiniteSet(PatsOf(R, Hash[r]))
          /\ Cardinality(PatsOf(R, Hash[r])) \in Nat
      BY NeedParts
    <3>2. CASE r \in Subs
      <4>1. SubBit(R, Hash[r]) = 1
        BY <3>2 DEF SubBit
      <4> QED
        BY <3>1, <4>1
    <3>3. CASE r \in Pats
      <4>1. PatsOf(R, Hash[r]) # {}
        BY <3>3 DEF PatsOf
      <4>2. Cardinality(PatsOf(R, Hash[r])) # 0
        BY <3>1, <4>1, FS_EmptySet
      <4> QED
        BY <3>1, <4>2
    <3> QED
      BY <3>2, <3>3 DEF Routes
  <2>4. Need(R, Hash[r]) \in Nat
    BY NeedParts
  <2> QED
    BY <2>2, <2>3, <2>4
<1>2. ASSUME NEW x \in Hashes, ~Shared(x)
      PROVE  f[x] = Cardinality({r \in R : Hash[r] = x})
  BY <1>2, NeedCount DEF Suits
<1> QED
  BY <1>1, <1>2 DEF Covers

-----------------------------------------------------------------------------
(* Steps of the owner                                                      *)

FilterRec == [bloom : Filter, console : Filter, ipc : Filter]
SubMsg    == [sub : Routes, join : BOOLEAN, upd : BOOLEAN]

(* The types of the owner's state and those of the peers' *)
OwnerType ==
    /\ ref \in [Routes -> SUBSET Holders]
    /\ start \in [Routes -> Nat]
    /\ filter \in FilterRec
    /\ sub_seqno \in Nat
    /\ sent \in Seq(SubMsg) /\ Len(sent) = sub_seqno
    /\ blm \in Seq([seqno : 0 .. sub_seqno, bloom : Filter])
    /\ active \in [0 .. sub_seqno -> SUBSET Routes]

PeerType ==
    /\ auth \in [Peers -> BOOLEAN]
    /\ seen \in [Peers -> 0 .. sub_seqno]
    /\ copy \in [Peers -> Filter]
    /\ recvd \in [Peers -> Nat]
    /\ asking \in [Peers -> SUBSET (Peers \union {Owner})]
    /\ reqs \subseteq Requests
    /\ rpys \subseteq Replies
    /\ \A m \in reqs \union rpys : m.seqno <= sub_seqno
    /\ events \in Nat

LEMMA TypeParts == TypeOK <=> OwnerType /\ PeerType
BY DEF TypeOK, OwnerType, PeerType, FilterRec, SubMsg

LEMMA TypePartsNext == TypeOK' <=> OwnerType' /\ PeerType'
BY DEF TypeOK, OwnerType, PeerType, FilterRec, SubMsg

(* The routes of the earlier numbers do not change. *)
Extends ==
    /\ sub_seqno \in Nat /\ sub_seqno' \in Nat /\ sub_seqno <= sub_seqno'
    /\ \A s \in 0 .. sub_seqno : active'[s] = active[s]

(* What the peers have is as good when the owner floods one more message. *)
LEMMA PeersKept ==
    ASSUME IndInv, Extends, UNCHANGED <<bridge, network>>
    PROVE  PeerType' /\ Copies' /\ Answers'
<1>1. PeerType
  BY TypeParts DEF IndInv
<1>2. PeerType'
  <2>1. seen' \in [Peers -> 0 .. sub_seqno']
    <3>1. seen \in [Peers -> 0 .. sub_seqno]
      BY <1>1 DEF PeerType
    <3>2. 0 .. sub_seqno \subseteq 0 .. sub_seqno'
      BY DEF Extends
    <3> QED
      BY <3>1, <3>2 DEF bridge
  <2>2. \A m \in reqs' \union rpys' : m.seqno <= sub_seqno'
    <3>1. ASSUME NEW m \in reqs \union rpys
          PROVE  m.seqno <= sub_seqno'
      <4>1. m.seqno <= sub_seqno /\ m.seqno \in Nat
        BY <1>1 DEF PeerType, Requests, Replies
      <4> QED
        BY <4>1 DEF Extends
    <3> QED
      BY <3>1 DEF network
  <2> QED
    BY <1>1, <2>1, <2>2 DEF PeerType, bridge, network
<1>3. Copies'
  <2>1. ASSUME NEW p \in Peers
        PROVE  Suits(copy[p], active'[seen[p]])
    <3>1. Suits(copy[p], active[seen[p]])
      BY DEF IndInv, Copies
    <3>2. seen[p] \in 0 .. sub_seqno
      BY <1>1 DEF PeerType
    <3> QED
      BY <3>1, <3>2 DEF Extends
  <2> QED
    BY <2>1 DEF Copies, bridge
<1>4. Answers'
  <2>1. ASSUME NEW m \in rpys, m.full
        PROVE  Suits(m.bloom, active'[m.seqno])
    <3>1. Suits(m.bloom, active[m.seqno])
      BY <2>1 DEF IndInv, Answers
    <3>2. m.seqno \in 0 .. sub_seqno
      BY <1>1 DEF PeerType, Replies, Extends
    <3> QED
      BY <3>1, <3>2 DEF Extends
  <2> QED
    BY <2>1 DEF Answers, network
<1> QED
  BY <1>2, <1>3, <1>4

(* Elements of a sequence, and a sequence over a larger set. *)
LEMMA SeqElement ==
    ASSUME NEW S, NEW q \in Seq(S), NEW k \in 1 .. Len(q)
    PROVE  q[k] \in S
OBVIOUS

LEMMA SeqWider ==
    ASSUME NEW S, NEW T, S \subseteq T, NEW q \in Seq(S)
    PROVE  q \in Seq(T)
OBVIOUS

(* The filters sent before suit their routes still. *)
LEMMA FloodsKept ==
    ASSUME IndInv, Extends, NEW k \in 1 .. Len(blm)
    PROVE  /\ blm[k].seqno \in 0 .. sub_seqno
           /\ blm[k].seqno \in 0 .. sub_seqno'
           /\ blm[k].bloom \in Filter
           /\ Suits(blm[k].bloom, active'[blm[k].seqno])
<1>1. blm \in Seq([seqno : 0 .. sub_seqno, bloom : Filter])
  BY TypeParts DEF IndInv, OwnerType
<1>2. blm[k] \in [seqno : 0 .. sub_seqno, bloom : Filter]
  BY <1>1, SeqElement
<1>3. Suits(blm[k].bloom, active[blm[k].seqno])
  BY DEF IndInv, Floods
<1> QED
  BY <1>2, <1>3 DEF Extends

(* A flood of a start or a stop that leads from the present routes to the  *)
(* next ones extends the history by them.                                  *)
LEMMA FloodExtends ==
    ASSUME IndInv,
           NEW r \in Routes, NEW join \in BOOLEAN, NEW upd \in BOOLEAN,
           NEW rf \in [Routes -> SUBSET Holders],
           Leads([sub |-> r, join |-> join, upd |-> upd], Active, Holding(rf)),
           fwd_sub(r, join, upd, rf), ref' = rf
    PROVE  /\ Extends
           /\ History'
           /\ sub_seqno' = sub_seqno + 1
           /\ active' \in [0 .. sub_seqno' -> SUBSET Routes]
           /\ sent' \in Seq(SubMsg) /\ Len(sent') = sub_seqno'
           /\ active'[sub_seqno'] = Holding(rf)
<1> DEFINE m == [sub |-> r, join |-> join, upd |-> upd]
           R == Holding(rf)
<1>1. OwnerType
  BY TypeParts DEF IndInv
<1>2. m \in SubMsg
  BY DEF SubMsg
<1>3. sub_seqno' = sub_seqno + 1 /\ sent' = Append(sent, m)
  BY DEF fwd_sub
<1>4. R \subseteq Routes
  BY DEF Holding
<1>5. active' = [s \in 0 .. sub_seqno + 1 |-> IF s = sub_seqno + 1 THEN R ELSE active[s]]
  BY DEF fwd_sub, Holding
<1>6. active' \in [0 .. sub_seqno' -> SUBSET Routes]
  BY <1>1, <1>3, <1>4, <1>5 DEF OwnerType
<1>7. \A s \in 0 .. sub_seqno : active'[s] = active[s]
  BY <1>1, <1>5 DEF OwnerType
<1>8. active'[sub_seqno'] = R
  BY <1>1, <1>3, <1>5 DEF OwnerType
<1>9. Extends
  BY <1>1, <1>3, <1>7 DEF Extends, OwnerType
<1>10. sent' \in Seq(SubMsg) /\ Len(sent') = sub_seqno'
  BY <1>1, <1>2, <1>3 DEF OwnerType
<1>11. Active' = R
  BY DEF Active, Holding
<1>12. active'[0] = {}
  BY <1>1, <1>7 DEF IndInv, History, OwnerType
<1>13. ASSUME NEW s \in 1 .. sub_seqno'
       PROVE  Leads(sent'[s], active'[s - 1], active'[s])
  <2>1. CASE s = sub_seqno + 1
    <3>1. sent'[s] = m
      BY <2>1, <1>1, <1>2, <1>3 DEF OwnerType
    <3>2. s - 1 = sub_seqno
      BY <2>1, <1>1 DEF OwnerType
    <3>3. active'[s - 1] = Active
      BY <3>2, <1>1, <1>7 DEF IndInv, History, OwnerType
    <3>4. active'[s] = R
      BY <2>1, <1>3, <1>8
    <3> QED
      BY <3>1, <3>3, <3>4
  <2>2. CASE s # sub_seqno + 1
    <3>1. s \in 1 .. sub_seqno /\ s - 1 \in 0 .. sub_seqno /\ s \in 0 .. sub_seqno
      BY <2>2, <1>1, <1>3 DEF OwnerType
    <3>2. sent'[s] = sent[s]
      BY <3>1, <1>1, <1>2, <1>3 DEF OwnerType
    <3>3. Leads(sent[s], active[s - 1], active[s])
      BY <3>1 DEF IndInv, History
    <3> QED
      BY <3>1, <3>2, <3>3, <1>7
  <2> QED
    BY <2>1, <2>2
<1>14. History'
  BY <1>8, <1>11, <1>12, <1>13 DEF History
<1> QED
  BY <1>3, <1>6, <1>8, <1>9, <1>10, <1>14

(* A filter that is built again is flooded under the present number, and   *)
(* suits the routes of it.                                                 *)
LEMMA ResizeSuits ==
    ASSUME IndInv, Extends,
           NEW S, NEW rf \in [Routes -> SUBSET Holders], NEW f \in FilterRec,
           Suits(f.bloom, Holding(rf)),
           active'[sub_seqno'] = Holding(rf), ref' = rf,
           Resize(S, f, rf)
    PROVE  /\ filter' \in FilterRec
           /\ Suits(filter'.bloom, Active')
           /\ blm' \in Seq([seqno : 0 .. sub_seqno', bloom : Filter])
           /\ Floods'
<1> DEFINE g == Rebuilt(S, f, rf)
           M == [seqno : 0 .. sub_seqno', bloom : Filter]
<1>1. filter' = g
  BY DEF Resize
<1>2. Active' = Holding(rf)
  BY DEF Active, Holding
<1>3. Suits(index_bloom(rf, Holders), Holding(rf))
  BY IndexSuits
<1>4. g \in FilterRec
  BY IndexType DEF Rebuilt, FilterRec
<1>5. Suits(g.bloom, Holding(rf))
  BY <1>3 DEF Rebuilt, FilterRec
<1>6. g.bloom \in Filter
  BY <1>4 DEF FilterRec
<1>7. blm \in Seq(M)
  <2>1. blm \in Seq([seqno : 0 .. sub_seqno, bloom : Filter])
    BY TypeParts DEF IndInv, OwnerType
  <2>2. [seqno : 0 .. sub_seqno, bloom : Filter] \subseteq M
    BY DEF Extends
  <2> QED
    BY <2>1, <2>2, SeqWider
<1>8. CASE "bloom" \in S
  <2> DEFINE m == [seqno |-> sub_seqno', bloom |-> g.bloom]
  <2>1. blm' = Append(blm, m)
    BY <1>8 DEF Resize
  <2>2. m \in M
    BY <1>6 DEF Extends
  <2>3. blm' \in Seq(M)
    BY <1>7, <2>1, <2>2
  <2>4. ASSUME NEW k \in 1 .. Len(blm')
        PROVE  Suits(blm'[k].bloom, active'[blm'[k].seqno])
    <3>1. Len(blm) \in Nat /\ Len(blm') = Len(blm) + 1
      BY <1>7, <2>1
    <3>2. CASE k = Len(blm) + 1
      <4>1. blm'[k] = m
        BY <3>2, <1>7, <2>1, <2>2
      <4> QED
        BY <4>1, <1>5
    <3>3. CASE k # Len(blm) + 1
      <4>1. k \in 1 .. Len(blm)
        BY <3>1, <3>3
      <4>2. blm'[k] = blm[k]
        BY <4>1, <1>7, <2>1, <2>2
      <4> QED
        BY <4>1, <4>2, FloodsKept
    <3> QED
      BY <3>2, <3>3
  <2> QED
    BY <1>1, <1>2, <1>4, <1>5, <2>3, <2>4 DEF Floods
<1>9. CASE "bloom" \notin S
  <2>1. blm' = blm
    BY <1>9 DEF Resize
  <2>2. \A k \in 1 .. Len(blm) : Suits(blm[k].bloom, active'[blm[k].seqno])
    BY FloodsKept
  <2> QED
    BY <1>1, <1>2, <1>4, <1>5, <1>7, <2>1, <2>2 DEF Floods
<1> QED
  BY <1>8, <1>9

(* An add or a delete that may be left out keeps a filter a filter. *)
LEMMA AddDelIf ==
    ASSUME NEW b, NEW f \in Filter, NEW y \in Hashes, NEW lost
    PROVE  AddIf(b, f, y) \in Filter /\ DelIf(b, f, y, lost) \in Filter
BY AddDel DEF AddIf, DelIf

(* sub_start keeps the invariant. *)
LEMMA StartStep ==
    ASSUME IndInv, NEW r \in Routes, NEW h \in Holders, sub_start(r, h)
    PROVE  IndInv'
<1> DEFINE rf  == [ref EXCEPT ![r] = @ \union {h}]
           new == ref[r] = {}
<1>1. OwnerType /\ Suits(filter.bloom, Active) /\ History
  BY TypeParts DEF IndInv
<1>2. rf \in [Routes -> SUBSET Holders] /\ ref' = rf
  BY <1>1 DEF OwnerType, sub_start
<1>3. UNCHANGED <<bridge, network>>
  BY DEF sub_start
<1>4. Hash[r] \in Hashes
  BY DEF Hashes
<1>5. PICK coll \in StartColl(r) :
        LET f == StartFilter(r, h, rf, new /\ ~coll)
        IN  /\ IF new
                 THEN /\ start' = [start EXCEPT ![r] = sub_seqno + 1]
                      /\ list' = ListPush(list, [seqno |-> sub_seqno + 1, hash |-> Hash[r],
                                                 pat |-> r \in Pats])
                      /\ fwd_sub(r, TRUE, ~coll, rf)
                 ELSE UNCHANGED <<start, list, sub_seqno, sent, active>>
            /\ \E S \in (IF f = filter THEN {{}} ELSE Resizes) : Resize(S, f, rf)
  BY DEF sub_start
<1> DEFINE f == StartFilter(r, h, rf, new /\ ~coll)
<1>6. PICK S : Resize(S, f, rf)
  BY <1>5
<1>7. coll \in BOOLEAN /\ (coll => r \in Subs /\ Colliding(r) # {})
  BY DEF StartColl
<1>8. f \in FilterRec
  <2>1. filter.bloom \in Filter /\ filter.console \in Filter /\ filter.ipc \in Filter
    BY <1>1 DEF OwnerType, FilterRec
  <2> QED
    BY <1>4, <2>1, AddDelIf DEF StartFilter, FilterRec
<1>9. f.bloom = AddIf(new /\ ~coll, filter.bloom, Hash[r])
  BY DEF StartFilter
<1>10. Active \subseteq Routes /\ Holding(rf) \subseteq Routes
  BY DEF Active, Holding
<1>11. /\ Suits(f.bloom, Holding(rf))
       /\ Extends
       /\ History'
       /\ active' \in [0 .. sub_seqno' -> SUBSET Routes]
       /\ sent' \in Seq(SubMsg) /\ Len(sent') = sub_seqno'
       /\ active'[sub_seqno'] = Holding(rf)
       /\ start' \in [Routes -> Nat]
  <2>1. CASE new
    <3> DEFINE m == [sub |-> r, join |-> TRUE, upd |-> ~coll]
    <3>1. r \notin Active /\ Holding(rf) = Active \union {r}
      BY <1>1, <2>1 DEF Active, Holding, OwnerType
    <3>2. coll => Sharing(r, Active)
      BY <1>7 DEF Sharing, Colliding
    <3>3. m \in [sub : Routes, join : BOOLEAN, upd : BOOLEAN]
      BY <1>7
    <3>4. Leads(m, Active, Holding(rf))
      BY <1>7, <3>1, <3>2 DEF Leads
    <3>5. f.bloom = Apply(filter.bloom, m, {})
      BY <1>9, <2>1 DEF Apply
    <3>6. Suits(f.bloom, Holding(rf))
      <4>1. Active \in SUBSET Routes /\ Holding(rf) \in SUBSET Routes
        BY <1>10
      <4> HIDE DEF rf, f, m
      <4>2. Suits(Apply(filter.bloom, m, {}), Holding(rf))
        BY <1>1, <3>3, <3>4, <4>1, ApplySuits
      <4> QED
        BY <3>5, <4>2
    <3>7. fwd_sub(r, TRUE, ~coll, rf) /\ start' = [start EXCEPT ![r] = sub_seqno + 1]
      BY <1>5, <2>1
    <3>8. (~coll) \in BOOLEAN
      BY <1>7
    <3>9. start' \in [Routes -> Nat]
      BY <1>1, <3>7 DEF OwnerType
    <3> HIDE DEF rf, f
    <3> QED
      BY <1>2, <3>4, <3>6, <3>7, <3>8, <3>9, FloodExtends
  <2>2. CASE ~new
    <3>1. Holding(rf) = Active
      BY <1>1, <2>2 DEF Active, Holding, OwnerType
    <3>2. f.bloom = filter.bloom
      BY <1>9, <2>2 DEF AddIf
    <3>3. UNCHANGED <<start, sub_seqno, sent, active>>
      BY <1>5, <2>2
    <3>4. Active' = Active
      BY <1>2, <3>1 DEF Active, Holding
    <3>5. History'
      BY <1>1, <3>3, <3>4 DEF History
    <3>6. Extends
      BY <1>1, <3>3 DEF Extends, OwnerType
    <3> HIDE DEF rf, f
    <3> QED
      BY <1>1, <3>1, <3>2, <3>3, <3>5, <3>6 DEF OwnerType, History
  <2> QED
    BY <2>1, <2>2
<1> HIDE DEF rf, f
<1>12. /\ filter' \in FilterRec
       /\ Suits(filter'.bloom, Active')
       /\ blm' \in Seq([seqno : 0 .. sub_seqno', bloom : Filter])
       /\ Floods'
  BY <1>2, <1>6, <1>8, <1>11, ResizeSuits
<1>13. PeerType' /\ Copies' /\ Answers'
  BY <1>3, <1>11, PeersKept
<1>14. OwnerType'
  BY <1>2, <1>11, <1>12 DEF OwnerType, Extends
<1>15. TypeOK'
  BY <1>13, <1>14, TypePartsNext
<1> QED
  BY <1>11, <1>12, <1>13, <1>15 DEF IndInv

(* sub_stop keeps the invariant. *)
LEMMA StopStep ==
    ASSUME IndInv, NEW r \in Routes, NEW h \in Holders, sub_stop(r, h)
    PROVE  IndInv'
<1> DEFINE rf   == [ref EXCEPT ![r] = @ \ {h}]
           gone == ref[r] = {h}
           upd  == gone /\ ~StopColl(r)
<1>0. PICK lost : filter' = StopFilter(r, h, rf, upd, lost)
  BY DEF sub_stop
<1> DEFINE f == StopFilter(r, h, rf, upd, lost)
<1>1. OwnerType /\ Suits(filter.bloom, Active) /\ History
  BY TypeParts DEF IndInv
<1>2. rf \in [Routes -> SUBSET Holders] /\ ref' = rf
  BY <1>1 DEF OwnerType, sub_stop
<1>3. UNCHANGED <<blm, bridge, network>> /\ filter' = f /\ h \in ref[r]
  BY <1>0 DEF sub_stop
<1>4. Hash[r] \in Hashes
  BY DEF Hashes
<1>5. IF gone
        THEN /\ list' = ListPop(list, start[r])
             /\ start' = [start EXCEPT ![r] = 0]
             /\ fwd_sub(r, FALSE, upd, rf)
        ELSE UNCHANGED <<start, list, sub_seqno, sent, active>>
  BY DEF sub_stop
<1>6. f \in FilterRec
  <2>1. filter.bloom \in Filter /\ filter.console \in Filter /\ filter.ipc \in Filter
    BY <1>1 DEF OwnerType, FilterRec
  <2> QED
    BY <1>4, <2>1, AddDelIf DEF StopFilter, FilterRec
<1>7. f.bloom = DelIf(upd, filter.bloom, Hash[r], lost)
  BY DEF StopFilter
<1>8. Active \subseteq Routes /\ Holding(rf) \subseteq Routes /\ Active' = Holding(rf)
  BY <1>2 DEF Active, Holding
<1>9. upd \in BOOLEAN
  OBVIOUS
<1>10. /\ Suits(f.bloom, Holding(rf))
       /\ Extends
       /\ History'
       /\ active' \in [0 .. sub_seqno' -> SUBSET Routes]
       /\ sent' \in Seq(SubMsg) /\ Len(sent') = sub_seqno'
       /\ start' \in [Routes -> Nat]
  <2>1. CASE gone
    <3> DEFINE m == [sub |-> r, join |-> FALSE, upd |-> upd]
    <3>1. r \in Active /\ Holding(rf) = Active \ {r}
      BY <1>1, <2>1 DEF Active, Holding, OwnerType
    <3>2. upd <=> ~Sharing(r, Active)
      BY <2>1 DEF Sharing, StopColl, Colliding
    <3>3. m \in [sub : Routes, join : BOOLEAN, upd : BOOLEAN]
      OBVIOUS
    <3>4. Leads(m, Active, Holding(rf))
      BY <3>1, <3>2 DEF Leads
    <3>5. f.bloom = Apply(filter.bloom, m, lost)
      BY <1>7 DEF Apply
    <3>6. Suits(f.bloom, Holding(rf))
      <4>1. Active \in SUBSET Routes /\ Holding(rf) \in SUBSET Routes
        BY <1>8
      <4> HIDE DEF rf, f, m
      <4>2. Suits(Apply(filter.bloom, m, lost), Holding(rf))
        BY <1>1, <3>3, <3>4, <4>1, ApplySuits
      <4> QED
        BY <3>5, <4>2
    <3>7. fwd_sub(r, FALSE, upd, rf) /\ start' = [start EXCEPT ![r] = 0]
      BY <1>5, <2>1
    <3>9. start' \in [Routes -> Nat]
      BY <1>1, <3>7 DEF OwnerType
    <3> HIDE DEF rf, f, upd
    <3> QED
      BY <1>2, <1>9, <3>4, <3>6, <3>7, <3>9, FloodExtends
  <2>2. CASE ~gone
    <3>1. Holding(rf) = Active
      BY <1>1, <1>3, <2>2 DEF Active, Holding, OwnerType
    <3>2. f.bloom = filter.bloom
      BY <1>7, <2>2 DEF DelIf
    <3>3. UNCHANGED <<start, sub_seqno, sent, active>>
      BY <1>5, <2>2
    <3>5. History'
      BY <1>1, <1>8, <3>1, <3>3 DEF History
    <3>6. Extends
      BY <1>1, <3>3 DEF Extends, OwnerType
    <3> HIDE DEF rf, f
    <3> QED
      BY <1>1, <3>1, <3>2, <3>3, <3>5, <3>6 DEF OwnerType
  <2> QED
    BY <2>1, <2>2
<1> HIDE DEF rf, f
<1>11. Floods'
  BY <1>3, <1>10, FloodsKept DEF Floods
<1>12. PeerType' /\ Copies' /\ Answers'
  BY <1>3, <1>10, PeersKept
<1>13. blm \in Seq([seqno : 0 .. sub_seqno', bloom : Filter])
  <2>1. blm \in Seq([seqno : 0 .. sub_seqno, bloom : Filter])
    BY <1>1 DEF OwnerType
  <2>2. [seqno : 0 .. sub_seqno, bloom : Filter] \subseteq [seqno : 0 .. sub_seqno', bloom : Filter]
    BY <1>10 DEF Extends
  <2> QED
    BY <2>1, <2>2, SeqWider
<1>14. OwnerType'
  BY <1>2, <1>3, <1>6, <1>10, <1>13 DEF OwnerType, Extends
<1>15. TypeOK'
  BY <1>12, <1>14, TypePartsNext
<1> QED
  BY <1>3, <1>8, <1>10, <1>11, <1>12, <1>15 DEF IndInv

(* reseed_bloom keeps the invariant. *)
LEMMA ReseedStep ==
    ASSUME IndInv, reseed_bloom
    PROVE  IndInv'
<1>1. OwnerType /\ Suits(filter.bloom, Active) /\ History
  BY TypeParts DEF IndInv
<1>2. UNCHANGED <<sub_seqno, ref, start, sent, active, bridge, network>> /\ Resize(Filters, filter, ref)
  BY DEF reseed_bloom
<1>3. Extends
  BY <1>1, <1>2 DEF Extends, OwnerType
<1>4. Holding(ref) = Active /\ Active' = Active
  BY <1>2 DEF Holding, Active
<1>5. active'[sub_seqno'] = Holding(ref)
  BY <1>1, <1>2, <1>4 DEF History
<1>6. /\ filter' \in FilterRec
      /\ Suits(filter'.bloom, Active')
      /\ blm' \in Seq([seqno : 0 .. sub_seqno', bloom : Filter])
      /\ Floods'
  <2>1. ref \in [Routes -> SUBSET Holders] /\ filter \in FilterRec
    BY <1>1 DEF OwnerType
  <2>2. Suits(filter.bloom, Holding(ref))
    BY <1>1, <1>4
  <2> QED
    BY <1>2, <1>3, <1>5, <2>1, <2>2, ResizeSuits
<1>7. PeerType' /\ Copies' /\ Answers'
  BY <1>2, <1>3, PeersKept
<1>8. OwnerType' /\ History'
  BY <1>1, <1>2, <1>4, <1>6 DEF OwnerType, History
<1>9. TypeOK'
  BY <1>7, <1>8, TypePartsNext
<1> QED
  BY <1>6, <1>7, <1>8, <1>9 DEF IndInv

-----------------------------------------------------------------------------
(* Steps of the peers                                                      *)

(* The owner's part stays when its variables do. *)
LEMMA OwnerKept ==
    ASSUME IndInv, UNCHANGED owner
    PROVE  /\ OwnerType' /\ Suits(filter.bloom, Active)' /\ History' /\ Floods'
           /\ sub_seqno' = sub_seqno /\ active' = active
<1>1. OwnerType /\ Suits(filter.bloom, Active) /\ History /\ Floods
  BY TypeParts DEF IndInv
<1>2. Active' = Active
  BY DEF Active, owner
<1> QED
  BY <1>1, <1>2 DEF OwnerType, History, Floods, owner

(* The parts of the invariant a step of a peer has to keep. *)
LEMMA PeerStep ==
    ASSUME IndInv, UNCHANGED owner, PeerType', Copies', Answers'
    PROVE  IndInv'
BY OwnerKept, TypePartsNext DEF IndInv

(* Replies that leave and none that come keep Answers. *)
LEMMA AnswersFewer ==
    ASSUME IndInv, UNCHANGED owner, rpys' \subseteq rpys
    PROVE  Answers'
BY OwnerKept DEF IndInv, Answers

(* Copies that do not change stay as good. *)
LEMMA CopiesKept ==
    ASSUME IndInv, UNCHANGED owner, UNCHANGED <<seen, copy>>
    PROVE  Copies'
BY OwnerKept DEF IndInv, Copies

(* A request in flight has its type. *)
LEMMA RequestType ==
    ASSUME IndInv, NEW p \in Peers, NEW t \in Peers \union {Owner}
    PROVE  LET m == [src |-> p, dst |-> t, seqno |-> seen[p]]
           IN  m \in Requests /\ m.seqno <= sub_seqno
<1>1. seen[p] \in 0 .. sub_seqno /\ sub_seqno \in Nat
  BY TypeParts DEF IndInv, PeerType, OwnerType
<1> QED
  BY <1>1 DEF Requests

(* A request of a peer keeps the invariant. *)
LEMMA RequestStep ==
    ASSUME IndInv, NEW p \in Peers, NEW t \in Peers \union {Owner},
           Request(p, t), UNCHANGED <<owner, bridge, rpys, events>>
    PROVE  IndInv'
<1>1. PeerType
  BY TypeParts DEF IndInv
<1> DEFINE m == [src |-> p, dst |-> t, seqno |-> seen[p]]
<1>2. m \in Requests /\ m.seqno <= sub_seqno
  BY RequestType
<1>3. /\ asking' = [asking EXCEPT ![p] = @ \union {t}]
      /\ reqs' = reqs \union {m}
  BY DEF Request
<1>4. sub_seqno' = sub_seqno
  BY DEF owner
<1>5. \A q \in reqs' \union rpys' : q.seqno <= sub_seqno'
  BY <1>1, <1>2, <1>3, <1>4 DEF PeerType
<1> HIDE DEF m
<1>6. PeerType'
  BY <1>1, <1>2, <1>3, <1>4, <1>5 DEF PeerType, bridge
<1>7. Copies' /\ Answers'
  BY AnswersFewer, CopiesKept DEF bridge
<1> QED
  BY <1>6, <1>7, PeerStep

(* A reply to a request keeps the invariant: what it holds suits the       *)
(* number it names.                                                        *)
Good(m) ==
    /\ m \in Replies
    /\ m.seqno <= sub_seqno
    /\ m.full => Suits(m.bloom, active[m.seqno])

LEMMA ReplyStep ==
    ASSUME IndInv, UNCHANGED <<owner, bridge, events>>,
           NEW a \in Replies, Good(a), rpys' = rpys \union {a},
           NEW add, add \subseteq Requests, \A m \in add : m.seqno <= sub_seqno,
           reqs' \subseteq reqs \union add,
           asking' \in [Peers -> SUBSET (Peers \union {Owner})]
    PROVE  IndInv'
<1>1. PeerType /\ Answers
  BY TypeParts DEF IndInv
<1>2. sub_seqno' = sub_seqno /\ active' = active
  BY DEF owner
<1>3. \A q \in reqs' \union rpys' : q.seqno <= sub_seqno'
  BY <1>1, <1>2 DEF PeerType, Good
<1>4. PeerType'
  BY <1>1, <1>2, <1>3 DEF PeerType, bridge
<1>5. Answers'
  BY <1>1, <1>2 DEF Answers, Good
<1>6. Copies'
  BY CopiesKept DEF bridge
<1> QED
  BY <1>4, <1>5, <1>6, PeerStep

(* The reply that brings nothing. *)
LEMMA NoneGood ==
    ASSUME IndInv, NEW m \in Requests
    PROVE  Good(Reply(m, FALSE, 0, Empty)) /\ Reply(m, FALSE, 0, Empty) \in Replies
<1>1. Empty \in Filter /\ sub_seqno \in Nat
  BY EmptySuits, TypeParts DEF Suits, IndInv, OwnerType
<1>2. m.src \in Peers /\ m.dst \in Peers \union {Owner}
  BY DEF Requests
<1> QED
  BY <1>1, <1>2 DEF Good, Reply, Replies

(* A reply with a filter that suits. *)
LEMMA FullGood ==
    ASSUME IndInv, NEW m \in Requests, NEW n \in 0 .. sub_seqno, NEW f, Suits(f, active[n])
    PROVE  Good(Reply(m, TRUE, n, f)) /\ Reply(m, TRUE, n, f) \in Replies
<1>1. f \in Filter /\ sub_seqno \in Nat
  BY TypeParts DEF Suits, IndInv, OwnerType
<1>2. m.src \in Peers /\ m.dst \in Peers \union {Owner}
  BY DEF Requests
<1> QED
  BY <1>1, <1>2 DEF Good, Reply, Replies

(* recv_adjacency_request at the owner keeps the invariant. *)
LEMMA OwnerReplyStep ==
    ASSUME IndInv, NEW m \in reqs, OwnerReply(m)
    PROVE  IndInv'
<1>1. OwnerType /\ PeerType /\ Suits(filter.bloom, Active) /\ History
  BY TypeParts DEF IndInv
<1>2. m \in Requests
  BY <1>1 DEF PeerType
<1> DEFINE a == IF sub_seqno > m.seqno THEN Reply(m, TRUE, sub_seqno, filter.bloom)
                                       ELSE Reply(m, FALSE, 0, Empty)
<1>3. Good(a) /\ a \in Replies
  <2>1. sub_seqno \in 0 .. sub_seqno /\ Suits(filter.bloom, active[sub_seqno])
    BY <1>1 DEF OwnerType, History
  <2>2. /\ Good(Reply(m, TRUE, sub_seqno, filter.bloom))
        /\ Reply(m, TRUE, sub_seqno, filter.bloom) \in Replies
    BY <1>2, <2>1, FullGood
  <2>3. Good(Reply(m, FALSE, 0, Empty)) /\ Reply(m, FALSE, 0, Empty) \in Replies
    BY <1>2, NoneGood
  <2> QED
    BY <2>2, <2>3
<1>4. /\ UNCHANGED <<owner, bridge, asking, events>>
      /\ reqs' = reqs \ {m} /\ rpys' = rpys \union {a}
  BY DEF OwnerReply
<1> HIDE DEF a
<1>5. asking' \in [Peers -> SUBSET (Peers \union {Owner})]
  BY <1>1, <1>4 DEF PeerType
<1> DEFINE add == {}
<1>6. reqs' \subseteq reqs \union add /\ add \subseteq Requests /\ \A k \in add : k.seqno <= sub_seqno
  BY <1>4
<1> HIDE DEF add
<1> QED
  BY <1>3, <1>4, <1>5, <1>6, ReplyStep

(* recv_adjacency_request at a peer whose copy is newer. *)
LEMMA PeerReplyCopyStep ==
    ASSUME IndInv, NEW m \in reqs, PeerReplyCopy(m)
    PROVE  IndInv'
<1>1. PeerType /\ Copies
  BY TypeParts DEF IndInv
<1>2. m \in Requests /\ m.dst \in Peers
  BY <1>1 DEF PeerType, PeerReplyCopy
<1> DEFINE q == m.dst
           a == Reply(m, TRUE, seen[q], copy[q])
<1>3. Good(a) /\ a \in Replies
  <2>1. seen[q] \in 0 .. sub_seqno /\ Suits(copy[q], active[seen[q]])
    BY <1>1, <1>2 DEF PeerType, Copies
  <2> QED
    BY <1>2, <2>1, FullGood
<1>4. /\ UNCHANGED <<owner, bridge, asking, events>>
      /\ reqs' = reqs \ {m} /\ rpys' = rpys \union {a}
  BY DEF PeerReplyCopy
<1> HIDE DEF a
<1>5. asking' \in [Peers -> SUBSET (Peers \union {Owner})]
  BY <1>1, <1>4 DEF PeerType
<1> DEFINE add == {}
<1>6. reqs' \subseteq reqs \union add /\ add \subseteq Requests /\ \A k \in add : k.seqno <= sub_seqno
  BY <1>4
<1> HIDE DEF add
<1> QED
  BY <1>3, <1>4, <1>5, <1>6, ReplyStep

(* recv_adjacency_request at a peer whose copy is not newer. *)
LEMMA PeerReplyNoneStep ==
    ASSUME IndInv, NEW m \in reqs, PeerReplyNone(m)
    PROVE  IndInv'
<1>1. PeerType
  BY TypeParts DEF IndInv
<1>2. m \in Requests /\ m.dst \in Peers
  BY <1>1 DEF PeerType, PeerReplyNone
<1> DEFINE q   == m.dst
           ask == auth[q] /\ seen[q] < m.seqno /\ Owner \notin asking[q]
           n   == [src |-> q, dst |-> Owner, seqno |-> seen[q]]
           add == IF ask THEN {n} ELSE {}
           a   == Reply(m, FALSE, 0, Empty)
<1>3. Good(a) /\ a \in Replies
  BY <1>2, NoneGood
<1>4. n \in Requests /\ n.seqno <= sub_seqno
  BY <1>2, RequestType
<1>5. /\ UNCHANGED <<owner, bridge, events>>
      /\ reqs' = (reqs \ {m}) \union add /\ rpys' = rpys \union {a}
      /\ asking' = [asking EXCEPT ![q] = IF ask THEN @ \union {Owner} ELSE @]
  BY DEF PeerReplyNone
<1>6. add \subseteq Requests /\ \A k \in add : k.seqno <= sub_seqno
  BY <1>4
<1>7. asking' \in [Peers -> SUBSET (Peers \union {Owner})]
  BY <1>1, <1>2, <1>5 DEF PeerType
<1> HIDE DEF a, add
<1>8. reqs' \subseteq reqs \union add
  BY <1>5
<1> QED
  BY <1>3, <1>5, <1>6, <1>7, <1>8, ReplyStep

(* A message that leaves, and a request that is closed, keep it. *)
LEMMA FewerStep ==
    ASSUME IndInv, UNCHANGED <<owner, seen, copy, recvd>>,
           auth' \in [Peers -> BOOLEAN],
           asking' \in [Peers -> SUBSET (Peers \union {Owner})],
           reqs' \subseteq reqs, rpys' \subseteq rpys, events' \in Nat
    PROVE  IndInv'
<1>1. PeerType
  BY TypeParts DEF IndInv
<1>2. sub_seqno' = sub_seqno
  BY DEF owner
<1>3. PeerType'
  BY <1>1, <1>2 DEF PeerType
<1>4. Copies' /\ Answers'
  BY AnswersFewer, CopiesKept
<1> QED
  BY <1>3, <1>4, PeerStep

(* A copy that is replaced by one that suits its number keeps it. *)
LEMMA CopyStep ==
    ASSUME IndInv, UNCHANGED owner, NEW p \in Peers,
           NEW n \in 0 .. sub_seqno, NEW f, Suits(f, active[n]),
           seen' = [seen EXCEPT ![p] = n], copy' = [copy EXCEPT ![p] = f],
           auth' \in [Peers -> BOOLEAN], recvd' \in [Peers -> Nat],
           asking' \in [Peers -> SUBSET (Peers \union {Owner})],
           reqs' \subseteq reqs, rpys' \subseteq rpys, events' \in Nat
    PROVE  IndInv'
<1>1. PeerType
  BY TypeParts DEF IndInv
<1>2. sub_seqno' = sub_seqno /\ active' = active
  BY DEF owner
<1>3. f \in Filter
  BY DEF Suits
<1>4. PeerType'
  BY <1>1, <1>2, <1>3 DEF PeerType
<1>5. Copies'
  <2>1. ASSUME NEW q \in Peers
        PROVE  Suits(copy'[q], active[seen'[q]])
    <3>1. CASE q = p
      <4>1. copy'[q] = f /\ seen'[q] = n
        BY <3>1, <1>1 DEF PeerType
      <4> QED
        BY <4>1
    <3>2. CASE q # p
      <4>1. copy'[q] = copy[q] /\ seen'[q] = seen[q]
        BY <3>2, <1>1 DEF PeerType
      <4> QED
        BY <4>1 DEF IndInv, Copies
    <3> QED
      BY <3>1, <3>2
  <2> QED
    BY <2>1, <1>2 DEF Copies
<1>6. Answers'
  BY AnswersFewer
<1> QED
  BY <1>4, <1>5, <1>6, PeerStep

(* A start or stop that a peer takes keeps it. *)
LEMMA OnSubStep ==
    ASSUME IndInv, NEW p \in Peers, NEW s \in 1 .. sub_seqno, on_sub(p, s)
    PROVE  IndInv'
<1>1. OwnerType /\ PeerType /\ History
  BY TypeParts DEF IndInv
<1>0. PICK lost : copy' = [copy EXCEPT ![p] = Apply(copy[p], sent[s], lost)]
  BY DEF on_sub
<1>2. /\ s = seen[p] + 1
      /\ seen' = [seen EXCEPT ![p] = s]
      /\ copy' = [copy EXCEPT ![p] = Apply(copy[p], sent[s], lost)]
      /\ UNCHANGED <<owner, auth, recvd, network>>
  BY <1>0 DEF on_sub, NextSub
<1>3. s \in 0 .. sub_seqno /\ s - 1 = seen[p] /\ s - 1 \in 0 .. sub_seqno
  BY <1>1, <1>2 DEF PeerType, OwnerType
<1>4. sent[s] \in [sub : Routes, join : BOOLEAN, upd : BOOLEAN]
  BY <1>1, SeqElement DEF OwnerType, SubMsg
<1>5. Leads(sent[s], active[s - 1], active[s])
  BY <1>1 DEF History
<1>6. Suits(copy[p], active[s - 1])
  BY <1>3 DEF IndInv, Copies
<1>7. active[s - 1] \in SUBSET Routes /\ active[s] \in SUBSET Routes
  BY <1>1, <1>3 DEF OwnerType
<1>8. Suits(Apply(copy[p], sent[s], lost), active[s])
  BY <1>4, <1>5, <1>6, <1>7, ApplySuits
<1>9. /\ auth' \in [Peers -> BOOLEAN] /\ recvd' \in [Peers -> Nat]
      /\ asking' \in [Peers -> SUBSET (Peers \union {Owner})]
      /\ reqs' \subseteq reqs /\ rpys' \subseteq rpys /\ events' \in Nat
  BY <1>1, <1>2 DEF PeerType, network
<1> QED
  BY <1>2, <1>3, <1>8, <1>9, CopyStep

(* A filter that a peer takes or refuses keeps it. *)
LEMMA BloomStep ==
    ASSUME IndInv, NEW p \in Peers, NEW k \in 1 .. Len(blm), recv_bloom_result(p, k)
    PROVE  IndInv'
<1>1. OwnerType /\ PeerType
  BY TypeParts DEF IndInv
<1>2. UNCHANGED <<owner, auth, network>> /\ recvd' = [recvd EXCEPT ![p] = k]
  BY DEF recv_bloom_result
<1>3. k \in Nat
  BY <1>1 DEF OwnerType
<1>4. /\ auth' \in [Peers -> BOOLEAN] /\ recvd' \in [Peers -> Nat]
      /\ asking' \in [Peers -> SUBSET (Peers \union {Owner})]
      /\ reqs' \subseteq reqs /\ rpys' \subseteq rpys /\ events' \in Nat
  BY <1>1, <1>2, <1>3 DEF PeerType, network
<1>5. CASE blm[k].seqno >= seen[p]
  <2>1. seen' = [seen EXCEPT ![p] = blm[k].seqno] /\ copy' = [copy EXCEPT ![p] = blm[k].bloom]
    BY <1>5 DEF recv_bloom_result
  <2>2. blm[k].seqno \in 0 .. sub_seqno
    <3>1. blm[k] \in [seqno : 0 .. sub_seqno, bloom : Filter]
      BY <1>1, SeqElement DEF OwnerType
    <3> QED
      BY <3>1
  <2>3. Suits(blm[k].bloom, active[blm[k].seqno])
    BY DEF IndInv, Floods
  <2> QED
    BY <1>2, <1>4, <2>1, <2>2, <2>3, CopyStep
<1>6. CASE ~(blm[k].seqno >= seen[p])
  <2>1. UNCHANGED <<seen, copy>>
    BY <1>6 DEF recv_bloom_result
  <2>2. PeerType'
    BY <1>1, <1>2, <1>4, <2>1 DEF PeerType, owner, network
  <2>3. Copies' /\ Answers'
    BY <1>2, <2>1, AnswersFewer, CopiesKept DEF network
  <2> QED
    BY <1>2, <2>2, <2>3, PeerStep
<1> QED
  BY <1>5, <1>6

(* A reply that a peer takes keeps it. *)
LEMMA ResultStep ==
    ASSUME IndInv, NEW m \in rpys, recv_adjacency_result(m)
    PROVE  IndInv'
<1> DEFINE p     == m.dst
           newer == m.full /\ m.seqno > seen[p]
<1>1. OwnerType /\ PeerType /\ Copies /\ Answers
  BY TypeParts DEF IndInv
<1>2. m \in Replies /\ p \in Peers
  BY <1>1 DEF PeerType, Replies
<1>3. /\ auth' = [auth EXCEPT ![p] = @ \/ m.full]
      /\ asking' = [asking EXCEPT ![p] = @ \ {m.src}]
      /\ rpys' = rpys \ {m}
      /\ seen' = [seen EXCEPT ![p] = IF newer THEN m.seqno ELSE @]
      /\ copy' = [copy EXCEPT ![p] = IF newer THEN m.bloom ELSE @]
      /\ UNCHANGED <<owner, recvd, reqs, events>>
  BY DEF recv_adjacency_result
<1>4. /\ auth' \in [Peers -> BOOLEAN] /\ recvd' \in [Peers -> Nat]
      /\ asking' \in [Peers -> SUBSET (Peers \union {Owner})]
      /\ reqs' \subseteq reqs /\ rpys' \subseteq rpys /\ events' \in Nat
  <2>1. auth \in [Peers -> BOOLEAN]
    BY <1>1 DEF PeerType
  <2>2. (auth[p] \/ m.full) \in BOOLEAN
    OBVIOUS
  <2>3. auth' \in [Peers -> BOOLEAN]
    BY <1>2, <1>3, <2>1, <2>2
  <2> QED
    BY <1>1, <1>2, <1>3, <2>3 DEF PeerType
<1>5. CASE newer
  <2>1. m.seqno \in 0 .. sub_seqno
    BY <1>1, <1>2 DEF PeerType, OwnerType, Replies
  <2>2. Suits(m.bloom, active[m.seqno])
    BY <1>1, <1>5 DEF Answers
  <2>3. seen' = [seen EXCEPT ![p] = m.seqno] /\ copy' = [copy EXCEPT ![p] = m.bloom]
    BY <1>3, <1>5
  <2> QED
    BY <1>2, <1>3, <1>4, <2>1, <2>2, <2>3, CopyStep
<1>6. CASE ~newer
  <2>1. seen' = seen /\ copy' = copy
    BY <1>1, <1>2, <1>3, <1>6 DEF PeerType
  <2> HIDE DEF p, newer
  <2> QED
    BY <1>3, <1>4, <2>1, FewerStep
<1> QED
  BY <1>5, <1>6

(* An owner that is dropped keeps it. *)
LEMMA ForgetStep ==
    ASSUME IndInv, NEW p \in Peers, Forget(p)
    PROVE  IndInv'
<1>1. OwnerType /\ PeerType /\ History
  BY TypeParts DEF IndInv
<1>2. /\ auth' = [auth EXCEPT ![p] = FALSE]
      /\ seen' = [seen EXCEPT ![p] = 0]
      /\ copy' = [copy EXCEPT ![p] = Empty]
      /\ asking' = [asking EXCEPT ![p] = @ \ {Owner}]
      /\ events' = events + 1
      /\ UNCHANGED <<owner, recvd, reqs, rpys>>
  BY DEF Forget, Event, ForgottenSeqno, ForgottenFilter
<1>3. /\ auth' \in [Peers -> BOOLEAN] /\ recvd' \in [Peers -> Nat]
      /\ asking' \in [Peers -> SUBSET (Peers \union {Owner})]
      /\ reqs' \subseteq reqs /\ rpys' \subseteq rpys /\ events' \in Nat
  BY <1>1, <1>2 DEF PeerType
<1>4. 0 \in 0 .. sub_seqno /\ Suits(Empty, active[0])
  BY <1>1, EmptySuits DEF OwnerType, History
<1> QED
  BY <1>2, <1>3, <1>4, CopyStep

-----------------------------------------------------------------------------
(* The invariant                                                           *)

LEMMA InitInv == Init => IndInv
<1> SUFFICES ASSUME Init PROVE IndInv
  OBVIOUS
<1>1. Empty \in Filter /\ Suits(Empty, {})
  BY EmptySuits DEF Suits
<1>2. Active = {}
  BY DEF Init, Active
<1>3. OwnerType
  BY <1>1 DEF Init, OwnerType, FilterRec, SubMsg
<1>4. PeerType
  BY <1>1 DEF Init, PeerType
<1>5. History
  BY <1>2 DEF Init, History
<1>6. Floods /\ Copies /\ Answers
  BY <1>1 DEF Init, Floods, Copies, Answers
<1>7. Suits(filter.bloom, Active)
  BY <1>1, <1>2 DEF Init
<1> QED
  BY <1>3, <1>4, <1>5, <1>6, <1>7, TypeParts DEF IndInv

LEMMA StutterStep ==
    ASSUME IndInv, UNCHANGED vars
    PROVE  IndInv'
<1>1. UNCHANGED <<owner, seen, copy, recvd, auth, asking, reqs, rpys, events>>
  BY DEF vars, bridge, network
<1>2. auth \in [Peers -> BOOLEAN] /\ asking \in [Peers -> SUBSET (Peers \union {Owner})] /\ events \in Nat
  BY TypeParts DEF IndInv, PeerType
<1> QED
  BY <1>1, <1>2, FewerStep

(* Every step keeps the invariant. *)
LEMMA NextInv == IndInv /\ [Next]_vars => IndInv'
<1> SUFFICES ASSUME IndInv, [Next]_vars PROVE IndInv'
  OBVIOUS
<1>0. PeerType
  BY TypeParts DEF IndInv
<1>1. ASSUME NEW r \in Routes, NEW h \in Holders, sub_start(r, h) \/ sub_stop(r, h)
      PROVE  IndInv'
  BY <1>1, StartStep, StopStep
<1>2. CASE reseed_bloom
  BY <1>2, ReseedStep
<1>3. ASSUME NEW p \in Peers, recv_hello(p)
      PROVE  IndInv'
  BY <1>3, RequestStep DEF recv_hello
<1>4. ASSUME NEW p \in Peers, NEW t \in Peers, AskPeer(p, t)
      PROVE  IndInv'
  BY <1>4, RequestStep DEF AskPeer
<1>5. ASSUME NEW p \in Peers, NEW t \in Peers \union {Owner}, RequestTimeout(p, t)
      PROVE  IndInv'
  BY <1>0, <1>5, FewerStep DEF RequestTimeout, PeerType, bridge
<1>6. ASSUME NEW p \in Peers, Trust(p)
      PROVE  IndInv'
  BY <1>0, <1>6, FewerStep DEF Trust, PeerType, network
<1>7. ASSUME NEW m, Lose(m)
      PROVE  IndInv'
  BY <1>0, <1>7, FewerStep DEF Lose, Event, PeerType, bridge
<1>8. ASSUME NEW m \in rpys, Ignore(m)
      PROVE  IndInv'
  BY <1>0, <1>8, FewerStep DEF Ignore, PeerType, bridge
<1>9. CASE UNCHANGED vars
  BY <1>9, StutterStep
<1>10. ASSUME NEW p \in Peers,
              \/ recv_hello(p)
              \/ Forget(p)
              \/ Trust(p)
              \/ \E t \in Peers : AskPeer(p, t)
              \/ \E t \in Peers \union {Owner} : RequestTimeout(p, t)
              \/ \E s \in 1 .. sub_seqno : on_sub(p, s)
              \/ \E k \in 1 .. Len(blm) : recv_bloom_result(p, k)
       PROVE  IndInv'
  BY <1>3, <1>4, <1>5, <1>6, <1>10, ForgetStep, OnSubStep, BloomStep
<1>11. ASSUME NEW m \in reqs, OwnerReply(m) \/ PeerReplyCopy(m) \/ PeerReplyNone(m) \/ Lose(m)
       PROVE  IndInv'
  BY <1>7, <1>11, OwnerReplyStep, PeerReplyCopyStep, PeerReplyNoneStep
<1>12. ASSUME NEW m \in rpys, recv_adjacency_result(m) \/ Ignore(m) \/ Lose(m)
       PROVE  IndInv'
  BY <1>7, <1>8, <1>12, ResultStep
<1> QED
  BY <1>1, <1>2, <1>9, <1>10, <1>11, <1>12 DEF Next

LEMMA Inductive == Spec => []IndInv
BY InitInv, NextInv, PTL DEF Spec

(* The invariant implies the properties. *)
LEMMA IndInvImplies == IndInv => TypeOK /\ NoneMissed /\ CopyExact
<1> SUFFICES ASSUME IndInv PROVE TypeOK /\ NoneMissed /\ CopyExact
  OBVIOUS
<1>1. OwnerType /\ PeerType
  BY TypeParts DEF IndInv
<1>2. Covers(filter.bloom, Active)
  <2>1. Active \in SUBSET Routes
    BY DEF Active
  <2> QED
    BY <2>1, SuitsCovers DEF IndInv
<1>3. ASSUME NEW p \in Peers
      PROVE  /\ Covers(copy[p], active[seen[p]])
             /\ \A x \in Hashes :
                  Shared(x) \/ copy[p][x] = Cardinality({r \in active[seen[p]] : Hash[r] = x})
  <2>1. active[seen[p]] \in SUBSET Routes
    BY <1>1 DEF OwnerType, PeerType
  <2>2. Suits(copy[p], active[seen[p]])
    BY DEF IndInv, Copies
  <2> QED
    BY <2>1, <2>2, SuitsCovers
<1> QED
  BY <1>2, <1>3 DEF IndInv, NoneMissed, CopyExact

(* The state keeps its types; a peer, a filter and a reply name only       *)
(* numbers the owner has given out.                                        *)
THEOREM SubTypes == Spec => []TypeOK
BY Inductive, IndInvImplies, PTL

(* The filter of a node has the hash of every subscription it holds, and   *)
(* the copy of a peer that of every subscription the owner had at the      *)
(* peer's number: update_bloom, resolve_coll, index_bloom, recv_bloom and  *)
(* the sequence test of SessionMgr::on_msg leave out no subscriber.        *)
THEOREM NoSubscriberMissed == Spec => []NoneMissed
BY Inductive, IndInvImplies, PTL

(* Where no two subjects share a hash a copy counts the subscriptions of   *)
(* its number exactly, however floods, filters and replies pass each other *)
(* and however often the owner was dropped.                                *)
THEOREM CopiesAreExact == Spec => []CopyExact
BY Inductive, IndInvImplies, PTL

-----------------------------------------------------------------------------
(* The list for replay                                                     *)

(* the entry of a route that has the start_seqno st[r] *)
Item(st, r) == [seqno |-> st[r], hash |-> Hash[r], pat |-> r \in Pats]

(* The list q has the entries of the routes A, whose numbers differ and    *)
(* are at most K, and so are the counters of its arrays                    *)
ListAt(q, st, A, K) ==
    /\ ListOK(q) /\ Counted(q, K)
    /\ AllItems(q) = {Item(st, r) : r \in A}
    /\ \A r \in A : st[r] \in 1 .. K
    /\ \A r, s \in A : st[r] = st[s] => r = s

ListInv == ListAt(list, start, Active, sub_seqno) /\ sub_seqno <= MaxSeqno

(* What a step does to the owner. *)
LEMMA OwnerSteps ==
    ASSUME [Next]_vars
    PROVE  \/ \E r \in Routes, h \in Holders : sub_start(r, h) \/ sub_stop(r, h)
           \/ reseed_bloom
           \/ UNCHANGED owner
<1>1. ASSUME NEW p \in Peers,
             \/ recv_hello(p)
             \/ Forget(p)
             \/ Trust(p)
             \/ \E t \in Peers : AskPeer(p, t)
             \/ \E t \in Peers \union {Owner} : RequestTimeout(p, t)
             \/ \E s \in 1 .. sub_seqno : on_sub(p, s)
             \/ \E k \in 1 .. Len(blm) : recv_bloom_result(p, k)
      PROVE  UNCHANGED owner
  BY <1>1 DEF recv_hello, Forget, Trust, AskPeer, RequestTimeout, on_sub,
              recv_bloom_result
<1>2. ASSUME NEW m, \/ OwnerReply(m) \/ PeerReplyCopy(m) \/ PeerReplyNone(m) \/ Lose(m)
                    \/ recv_adjacency_result(m) \/ Ignore(m)
      PROVE  UNCHANGED owner
  BY <1>2 DEF OwnerReply, PeerReplyCopy, PeerReplyNone, Lose, recv_adjacency_result, Ignore
<1>3. UNCHANGED vars => UNCHANGED owner
  BY DEF vars
<1> QED
  BY <1>1, <1>2, <1>3 DEF Next

(* An entry is one of the list's. *)
LEMMA ItemType ==
    ASSUME NEW r \in Routes, NEW st \in [Routes -> Nat]
    PROVE  Item(st, r) \in Entry /\ Item(st, r).seqno = st[r]
<1>1. st[r] \in Nat /\ Hash[r] \in Nat
  BY SubDBAssumption
<1>2. ASSUME NEW n \in Nat, NEW h \in Nat, NEW b \in BOOLEAN
      PROVE  [seqno |-> n, hash |-> h, pat |-> b] \in Entry
  BY DEF Entry
<1>3. (r \in Pats) \in BOOLEAN
  OBVIOUS
<1>4. Item(st, r) \in Entry
  BY <1>1, <1>2, <1>3, Zenon DEF Item
<1> QED
  BY <1>4 DEF Item

(* A start appends the entry of its route. *)
LEMMA ListStart ==
    ASSUME NEW q, NEW st \in [Routes -> Nat], NEW A, A \subseteq Routes, NEW K \in Nat,
           K + 1 < Width, ListAt(q, st, A, K), NEW r \in Routes, r \notin A
    PROVE  ListAt(ListPush(q, Item([st EXCEPT ![r] = K + 1], r)), [st EXCEPT ![r] = K + 1],
                  A \union {r}, K + 1)
<1> DEFINE su == [st EXCEPT ![r] = K + 1]
           e  == Item(su, r)
           p  == ListPush(q, e)
<1>1. su \in [Routes -> Nat] /\ su[r] = K + 1 /\ \A s \in A : su[s] = st[s]
  OBVIOUS
<1> HIDE DEF su
<1>2. e \in Entry /\ e.seqno = K + 1
  BY <1>1, ItemType
<1>3. \A s \in A : Item(su, s) = Item(st, s)
  BY <1>1 DEF Item
<1>4. \A s \in A : st[s] \in Nat /\ st[s] <= K /\ st[s] \in 1 .. K + 1
  BY DEF ListAt
<1>5. \A x \in AllItems(q) : x.seqno < K + 1
  <2> SUFFICES ASSUME NEW x \in AllItems(q) PROVE x.seqno < K + 1
    OBVIOUS
  <2>1. PICK s \in A : x = Item(st, s)
    BY DEF ListAt
  <2>2. x.seqno = st[s]
    BY <2>1 DEF Item
  <2> QED
    BY <1>4, <2>2
<1> HIDE DEF e
<1>6. e.seqno # 0 /\ \A x \in AllItems(q) : x.seqno < e.seqno
  BY <1>2, <1>5
<1>7. ListOK(p) /\ Counted(p, K + 1) /\ AllItems(p) = AllItems(q) \union {e}
  BY <1>2, <1>6, PushList DEF ListAt
<1> HIDE DEF p
<1>8. AllItems(p) = {Item(su, s) : s \in A \union {r}}
  BY <1>3, <1>7 DEF ListAt, e
<1>9. \A s \in A \union {r} : su[s] \in 1 .. K + 1
  BY <1>1, <1>4
<1>10. ASSUME NEW s \in A \union {r}, NEW v \in A \union {r}, su[s] = su[v] PROVE s = v
  <2>1. CASE s = r /\ v # r
    BY <1>1, <1>4, <1>10, <2>1
  <2>2. CASE s # r /\ v = r
    BY <1>1, <1>4, <1>10, <2>2
  <2>3. CASE s # r /\ v # r
    BY <1>1, <1>10, <2>3 DEF ListAt
  <2> QED
    BY <2>1, <2>2, <2>3
<1> QED
  BY <1>7, <1>8, <1>9, <1>10 DEF ListAt, p, e, su

(* A stop takes it out. *)
LEMMA ListStop ==
    ASSUME NEW q, NEW st \in [Routes -> Nat], NEW A, A \subseteq Routes, NEW K \in Nat,
           K < Width, ListAt(q, st, A, K), NEW r \in A
    PROVE  ListAt(ListPop(q, st[r]), [st EXCEPT ![r] = 0], A \ {r}, K + 1)
<1> DEFINE su == [st EXCEPT ![r] = 0]
           x  == Item(st, r)
           p  == ListPop(q, x.seqno)
<1>1. \A s \in A \ {r} : su[s] = st[s]
  BY Zenon
<1> HIDE DEF su
<1>2. x \in AllItems(q)
  BY DEF ListAt
<1>3. x.seqno = st[r]
  BY DEF Item
<1>4. ListOK(p) /\ Counted(p, K) /\ AllItems(p) = AllItems(q) \ {x}
  <2> HIDE DEF x
  <2> QED
    BY <1>2, PopList DEF ListAt
<1> HIDE DEF p
<1>5. Counted(p, K + 1)
  <2> SUFFICES ASSUME NEW n \in 1 .. Len(p) PROVE p[n].count <= K + 1
    BY DEF Counted
  <2>1. p[n].count \in Nat /\ p[n].count <= K
    BY <1>4 DEF ListOK, ElemOK, Elem, Counted
  <2> QED
    BY <2>1
<1>6. \A s \in A \ {r} : Item(su, s) = Item(st, s) /\ Item(st, s) # x
  <2> SUFFICES ASSUME NEW s \in A \ {r} PROVE Item(su, s) = Item(st, s) /\ Item(st, s) # x
    OBVIOUS
  <2>1. Item(su, s) = Item(st, s)
    BY <1>1 DEF Item
  <2>2. st[s] # st[r]
    BY DEF ListAt
  <2>3. Item(st, s).seqno = st[s]
    BY DEF Item
  <2> QED
    BY <1>3, <2>1, <2>2, <2>3
<1>7. AllItems(p) = {Item(su, s) : s \in A \ {r}}
  <2>1. AllItems(q) = {Item(st, s) : s \in A}
    BY DEF ListAt
  <2>2. {Item(su, s) : s \in A \ {r}} = {Item(st, s) : s \in A \ {r}}
    BY <1>6
  <2>3. {Item(st, s) : s \in A} \ {x} = {Item(st, s) : s \in A \ {r}}
    BY <1>6
  <2> QED
    BY <1>4, <2>1, <2>2, <2>3
<1>8. \A s \in A \ {r} : su[s] \in 1 .. K + 1
  <2> SUFFICES ASSUME NEW s \in A \ {r} PROVE su[s] \in 1 .. K + 1
    OBVIOUS
  <2>1. su[s] = st[s] /\ st[s] \in 1 .. K
    BY <1>1 DEF ListAt
  <2> QED
    BY <2>1
<1>9. \A s, v \in A \ {r} : su[s] = su[v] => s = v
  BY <1>1 DEF ListAt
<1>10. ListAt(p, su, A \ {r}, K + 1)
  BY <1>4, <1>5, <1>7, <1>8, <1>9 DEF ListAt
<1> QED
  BY <1>3, <1>10 DEF p, su

(* A start keeps the list exact. *)
LEMMA StartList ==
    ASSUME TypeOK, ListInv, MaxSeqno < Width, NEW r \in Routes, NEW h \in Holders,
           sub_start(r, h)
    PROVE  ListInv'
<1> DEFINE rf == [ref EXCEPT ![r] = @ \union {h}]
<1>1. /\ sub_seqno \in Nat /\ start \in [Routes -> Nat] /\ MaxSeqno \in Nat /\ Width \in Nat
      /\ ref \in [Routes -> SUBSET Holders] /\ sub_seqno <= MaxSeqno
  BY SubDBAssumption, SubListAssumption DEF TypeOK, ListInv
<1>2. ref' = rf
  BY DEF sub_start
<1>3. rf[r] = ref[r] \union {h} /\ \A s \in Routes : s # r => rf[s] = ref[s]
  BY <1>1
<1>4. Active' = Active \union {r} /\ Active \subseteq Routes
  BY <1>2, <1>3 DEF Active
<1>5. CASE ref[r] = {}
  <2> DEFINE su == [start EXCEPT ![r] = sub_seqno + 1]
  <2>1. /\ start' = su
        /\ list' = ListPush(list, [seqno |-> sub_seqno + 1, hash |-> Hash[r], pat |-> r \in Pats])
        /\ sub_seqno < MaxSeqno /\ sub_seqno' = sub_seqno + 1
    BY <1>5 DEF sub_start, fwd_sub
  <2>2. su[r] = sub_seqno + 1
    BY <1>1
  <2>3. list' = ListPush(list, Item(su, r))
    BY <2>1, <2>2 DEF Item
  <2>4. sub_seqno + 1 < Width /\ sub_seqno + 1 <= MaxSeqno
    BY <1>1, <2>1
  <2>5. r \notin Active
    BY <1>5 DEF Active
  <2>6. ListAt(ListPush(list, Item(su, r)), su, Active \union {r}, sub_seqno + 1)
    BY <1>1, <1>4, <2>4, <2>5, ListStart DEF ListInv
  <2> HIDE DEF su
  <2>7. ListAt(list', start', Active', sub_seqno')
    BY <1>4, <2>1, <2>3, <2>6
  <2> QED
    BY <2>1, <2>4, <2>7 DEF ListInv, ListAt, Counted
<1>6. CASE ref[r] # {}
  <2>1. start' = start /\ list' = list /\ sub_seqno' = sub_seqno
    BY <1>6 DEF sub_start
  <2>2. Active' = Active
    BY <1>4, <1>6 DEF Active
  <2> QED
    BY <2>1, <2>2 DEF ListInv, ListAt
<1> QED
  BY <1>5, <1>6

(* So does a stop. *)
LEMMA StopList ==
    ASSUME TypeOK, ListInv, MaxSeqno < Width, NEW r \in Routes, NEW h \in Holders,
           sub_stop(r, h)
    PROVE  ListInv'
<1> DEFINE rf == [ref EXCEPT ![r] = @ \ {h}]
<1>1. /\ sub_seqno \in Nat /\ start \in [Routes -> Nat] /\ MaxSeqno \in Nat /\ Width \in Nat
      /\ ref \in [Routes -> SUBSET Holders] /\ sub_seqno <= MaxSeqno
  BY SubDBAssumption, SubListAssumption DEF TypeOK, ListInv
<1>2. ref' = rf /\ h \in ref[r]
  BY DEF sub_stop
<1>3. rf[r] = ref[r] \ {h} /\ \A s \in Routes : s # r => rf[s] = ref[s]
  BY <1>1
<1>4. Active \subseteq Routes /\ r \in Active
  BY <1>2 DEF Active
<1>5. CASE ref[r] = {h}
  <2>1. /\ start' = [start EXCEPT ![r] = 0] /\ list' = ListPop(list, start[r])
        /\ sub_seqno < MaxSeqno /\ sub_seqno' = sub_seqno + 1
    BY <1>5 DEF sub_stop, fwd_sub
  <2>2. sub_seqno < Width /\ sub_seqno + 1 <= MaxSeqno
    BY <1>1, <2>1
  <2>3. Active' = Active \ {r}
    BY <1>2, <1>3, <1>5 DEF Active
  <2>4. ListAt(ListPop(list, start[r]), [start EXCEPT ![r] = 0], Active \ {r}, sub_seqno + 1)
    BY <1>1, <1>4, <2>2, ListStop DEF ListInv
  <2>5. ListAt(list', start', Active', sub_seqno')
    BY <2>1, <2>3, <2>4
  <2> QED
    BY <2>1, <2>2, <2>5 DEF ListInv, ListAt, Counted
<1>6. CASE ref[r] # {h}
  <2>1. start' = start /\ list' = list /\ sub_seqno' = sub_seqno
    BY <1>6 DEF sub_stop
  <2>2. Active' = Active
    BY <1>2, <1>3, <1>6 DEF Active
  <2> QED
    BY <2>1, <2>2 DEF ListInv, ListAt
<1> QED
  BY <1>5, <1>6

(* Every step does. *)
LEMMA NextList ==
    ASSUME TypeOK, ListInv, MaxSeqno < Width, [Next]_vars
    PROVE  ListInv'
<1>1. ASSUME NEW r \in Routes, NEW h \in Holders, sub_start(r, h) \/ sub_stop(r, h)
      PROVE  ListInv'
  BY <1>1, StartList, StopList
<1>2. CASE reseed_bloom \/ UNCHANGED owner
  <2>1. list' = list /\ start' = start /\ ref' = ref /\ sub_seqno' = sub_seqno
    BY <1>2 DEF reseed_bloom, owner
  <2>2. Active' = Active
    BY <2>1 DEF Active
  <2> QED
    BY <2>1, <2>2 DEF ListInv, ListAt
<1> QED
  BY <1>1, <1>2, OwnerSteps

(* The list is then exact. *)
LEMMA ListInvExact ==
    ASSUME TypeOK, ListInv
    PROVE  ListExact
<1> DEFINE R == Replay(list, 1, sub_seqno)
           n == Len(R)
           A == Active
           It(r) == Item(start, r)
<1>1. /\ ListOK(list) /\ AllItems(list) = {It(r) : r \in A}
      /\ \A r \in A : start[r] \in 1 .. sub_seqno
      /\ \A r, s \in A : start[r] = start[s] => r = s
  BY DEF ListInv, ListAt
<1>2. \A r \in A : It(r).seqno = start[r]
  BY DEF Item
<1> HIDE DEF A, It
<1>3. \A x \in AllItems(list) : x.seqno \in 1 .. sub_seqno
  BY <1>1, <1>2
<1>4. R \in Seq(Entry) /\ Elems(R) = AllItems(list) /\ Sorted(R)
  BY <1>1, <1>3, ReplayIs
<1> HIDE DEF R
<1>5. n \in Nat /\ DOMAIN R = 1 .. n
  BY <1>4, LenProperties
<1>6. \A i \in 1 .. n : \E r \in A : R[i] = It(r)
  BY <1>1, <1>4 DEF Elems
<1>7. \A r \in A : \E i \in 1 .. n : R[i] = It(r)
  BY <1>1, <1>4 DEF Elems
<1>8. \A i, j \in 1 .. n : i < j => R[i].seqno < R[j].seqno
  BY <1>4 DEF Sorted
<1> HIDE DEF n
<1>9. n = Cardinality(A)
  <2> DEFINE g == [i \in 1 .. n |-> CHOOSE r \in A : R[i] = It(r)]
  <2>1. \A i \in 1 .. n : g[i] \in A /\ R[i] = It(g[i])
    BY <1>6
  <2>2. g \in [1 .. n -> A]
    BY <1>6
  <2> HIDE DEF g
  <2>3. ASSUME NEW i \in 1 .. n, NEW j \in 1 .. n, g[i] = g[j] PROVE i = j
    <3>1. R[i] = R[j]
      BY <2>1, <2>3
    <3>2. R[i].seqno \in Nat
      BY <1>1, <1>2, <2>1
    <3>3. ~(i < j) /\ ~(j < i)
      BY <1>8, <3>1, <3>2
    <3> QED
      BY <1>5, <3>3
  <2>4. ASSUME NEW r \in A PROVE \E i \in 1 .. n : g[i] = r
    <3>1. PICK i \in 1 .. n : R[i] = It(r)
      BY <1>7
    <3>2. start[g[i]] = start[r] /\ g[i] \in A
      BY <1>2, <2>1, <3>1
    <3> QED
      BY <1>1, <3>2
  <2>5. g \in Bijection(1 .. n, A)
    BY <2>2, <2>3, <2>4 DEF Bijection, Injection, Surjection, IsInjective
  <2>6. IsFiniteSet(1 .. n) /\ Cardinality(1 .. n) = n
    BY <1>5, FS_Interval
  <2> QED
    BY <2>5, <2>6, FS_Bijection DEF ExistsBijection
<1> QED
  BY <1>5, <1>7, <1>8, <1>9 DEF ListExact, R, n, A, It, Item

(* As long as the 16 bits of count and drop do not wrap, the list replays  *)
(* every subscription once, in the order they started, for any capacity of *)
(* its arrays, whatever was stopped, compacted and freed before.           *)
THEOREM ReplaysExact ==
    ASSUME MaxSeqno < Width
    PROVE  Spec => []ListExact
<1>1. Init => ListInv
  <2> SUFFICES ASSUME Init PROVE ListInv
    OBVIOUS
  <2>1. list = << >> /\ sub_seqno = 0 /\ Active = {}
    BY DEF Init, Active
  <2>2. Len(list) = 0 /\ list \in Seq(Elem)
    BY <2>1
  <2>3. 1 .. Len(list) = {}
    BY <2>2
  <2>4. ListOK(list) /\ Counted(list, sub_seqno) /\ AllItems(list) = {}
    BY <2>2, <2>3 DEF ListOK, Counted, AllItems
  <2> QED
    BY <2>1, <2>4, SubDBAssumption DEF ListInv, ListAt
<1>2. TypeOK /\ ListInv /\ [Next]_vars => ListInv'
  BY NextList
<1>3. TypeOK /\ ListInv => ListExact
  BY ListInvExact
<1> QED
  BY <1>1, <1>2, <1>3, SubTypes, PTL DEF Spec
=============================================================================

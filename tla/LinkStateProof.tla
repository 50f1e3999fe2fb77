--------------------------- MODULE LinkStateProof ---------------------------
(***************************************************************************)
(* Proofs about LinkState for any number of replicas, links and peers and  *)
(* any bounds: the type invariant, PendingCurrent and CopyFaithful, from   *)
(* the inductive invariant IndInv, and QueueExact from QueueInv.           *)
(***************************************************************************)
EXTENDS LinkState, TLAPS

Recs == [link : Links, add : BOOLEAN]
Pendings == [seqno : Nat, recs : RecLists]

-----------------------------------------------------------------------------
(* Record lists                                                            *)

(* A record list is a Boolean function on a set of links. *)
LEMMA RecListsDef ==
    ASSUME NEW D \in SUBSET Links, NEW f \in [D -> BOOLEAN]
    PROVE  f \in RecLists
BY DEF RecLists

(* A record list is defined on links and says "added" or not. *)
LEMMA RecListsDomain ==
    ASSUME NEW f \in RecLists
    PROVE  /\ DOMAIN f \in SUBSET Links
           /\ f \in [DOMAIN f -> BOOLEAN]
           /\ \A l \in DOMAIN f : f[l] \in BOOLEAN
<1>1. PICK D \in SUBSET Links : f \in [D -> BOOLEAN]
  BY DEF RecLists
<1>2. DOMAIN f = D
  BY <1>1
<1> QED
  BY <1>1, <1>2

(* Some of the records of a list are a record list. *)
LEMMA OnlyType ==
    ASSUME NEW f \in RecLists, NEW D
    PROVE  /\ Only(f, D) \in RecLists
           /\ DOMAIN Only(f, D) = DOMAIN f \intersect D
<1>1. Only(f, D) \in [DOMAIN f \intersect D -> BOOLEAN]
  BY RecListsDomain DEF Only
<1>2. DOMAIN f \intersect D \in SUBSET Links
  BY RecListsDomain
<1> QED
  BY <1>1, <1>2, RecListsDef

(* Records that join the ones already deferred are a record list. *)
LEMMA MergeType ==
    ASSUME NEW f \in RecLists, NEW g \in RecLists
    PROVE  /\ Merge(f, g) \in RecLists
           /\ DOMAIN Merge(f, g) = DOMAIN f \union DOMAIN g
<1>1. Merge(f, g) \in [DOMAIN f \union DOMAIN g -> BOOLEAN]
  BY RecListsDomain DEF Merge
<1>2. DOMAIN f \union DOMAIN g \in SUBSET Links
  BY RecListsDomain
<1> QED
  BY <1>1, <1>2, RecListsDef

(* A whole adjacency is a record list. *)
LEMMA SnapshotType ==
    ASSUME NEW S \in SUBSET Links
    PROVE  Snapshot(S) \in RecLists /\ DOMAIN Snapshot(S) = S
<1>1. Snapshot(S) \in [S -> BOOLEAN]
  BY DEF Snapshot
<1> QED
  BY <1>1, RecListsDef

(* What the queue of the owner says is a record list on its links. *)
LEMMA NetType ==
    ASSUME NEW q \in Seq(Recs)
    PROVE  /\ Queued(q) \in SUBSET Links
           /\ Net(q) \in RecLists
           /\ DOMAIN Net(q) = Queued(q)
<1>1. Queued(q) \in SUBSET Links
  <2> SUFFICES ASSUME NEW i \in DOMAIN q
               PROVE  q[i].link \in Links
    BY DEF Queued
  <2>1. q[i] \in Recs
    OBVIOUS
  <2> QED
    BY <2>1 DEF Recs
<1>2. Net(q) \in [Queued(q) -> BOOLEAN]
  BY DEF Net
<1> QED
  BY <1>1, <1>2, RecListsDef

(* Applying records to an adjacency gives an adjacency. *)
LEMMA ApplyType ==
    ASSUME NEW S \in SUBSET Links, NEW f \in RecLists
    PROVE  Apply(S, f) \in SUBSET Links
BY RecListsDomain DEF Apply

(* AdjChangeList::append keeps every link the queue mentions. *)
LEMMA EnqueueType ==
    ASSUME NEW q \in Seq(Recs), NEW l \in Links, NEW a \in BOOLEAN
    PROVE  /\ Enqueue(q, l, a) \in Seq(Recs)
           /\ Queued(q) \subseteq Queued(Enqueue(q, l, a))
<1> DEFINE e == [link |-> l, add |-> a]
<1>1. e \in Recs
  BY DEF Recs
<1>2. Append(q, e) \in Seq(Recs)
  BY <1>1
<1>3. Queued(q) \subseteq Queued(Append(q, e))
  <2> SUFFICES ASSUME NEW i \in DOMAIN q
               PROVE  q[i].link \in Queued(Append(q, e))
    BY DEF Queued
  <2>1. i \in DOMAIN Append(q, e) /\ Append(q, e)[i] = q[i]
    OBVIOUS
  <2> QED
    BY <2>1 DEF Queued
<1> QED
  BY <1>2, <1>3 DEF Enqueue

-----------------------------------------------------------------------------
(* Faithful adjacencies                                                    *)

(* Membership after records are applied. *)
LEMMA ApplyMember ==
    ASSUME NEW S, NEW f \in RecLists, NEW l
    PROVE  l \in Apply(S, f) <=> IF l \in DOMAIN f THEN f[l] ELSE l \in S
<1>1. l \in DOMAIN f => f[l] \in BOOLEAN
  BY RecListsDomain
<1> QED
  BY <1>1 DEF Apply

(* The same for the records that are applied at once. *)
LEMMA ApplyOnlyMember ==
    ASSUME NEW S, NEW f \in RecLists, NEW E, NEW l
    PROVE  /\ l \in DOMAIN f /\ l \in E => (l \in Apply(S, Only(f, E)) <=> f[l])
           /\ ~(l \in DOMAIN f /\ l \in E) => (l \in Apply(S, Only(f, E)) <=> l \in S)
<1>1. Only(f, E) \in RecLists /\ DOMAIN Only(f, E) = DOMAIN f \intersect E
  BY OnlyType
<1>2. l \in DOMAIN f \intersect E => Only(f, E)[l] = f[l]
  BY DEF Only
<1>3. l \in Apply(S, Only(f, E)) <=>
        IF l \in DOMAIN f \intersect E THEN Only(f, E)[l] ELSE l \in S
  BY <1>1, ApplyMember
<1> QED
  BY <1>2, <1>3

(* What is known of the message numbered s. *)
LEMMA SentType ==
    ASSUME TypeOK, NEW s \in 1 .. seqno
    PROVE  /\ sent[s] \in RecLists
           /\ DOMAIN sent[s] \in SUBSET Links
           /\ s \in Nat /\ s - 1 \in Nat /\ s <= seqno /\ seqno \in Nat
<1>1. sent[s] \in RecLists
  BY DEF TypeOK
<1>2. DOMAIN sent[s] \in SUBSET Links
  BY <1>1, RecListsDomain
<1>3. s \in Nat /\ s - 1 \in Nat /\ s <= seqno /\ seqno \in Nat
  BY DEF TypeOK
<1> QED
  BY <1>1, <1>2, <1>3

(* An adjacency that differs only inside D is as faithful. *)
LEMMA FaithfulOff ==
    ASSUME NEW s, NEW S, NEW T, NEW D, NEW E,
           Faithful(s, S, D), D \subseteq E,
           \A l \in Links \ E : l \in S <=> l \in T
    PROVE  Faithful(s, T, E)
BY DEF Faithful

(* A change after s leaves an adjacency faithful at s. *)
LEMMA FaithfulBelow ==
    ASSUME TypeOK, NEW s \in Nat, NEW t \in 1 .. seqno, s < t,
           NEW S, NEW D, NEW E, Faithful(s, S, D)
    PROVE  Faithful(s, Apply(S, Only(sent[t], E)), D)
<1> DEFINE T == Apply(S, Only(sent[t], E))
<1>1. sent[t] \in RecLists
  BY SentType
<1> SUFFICES ASSUME NEW l \in Links \ (D \union misreported),
                    (l \in T) # (l \in hist[s])
             PROVE  Touched(l, s)
  BY DEF Faithful
<1>2. CASE l \in DOMAIN sent[t]
  <2>1. t \in s + 1 .. seqno
    BY SentType
  <2> QED
    BY <1>2, <2>1 DEF Touched
<1>3. CASE l \notin DOMAIN sent[t]
  <2>1. l \in T <=> l \in S
    BY <1>1, <1>3, ApplyOnlyMember
  <2> QED
    BY <2>1 DEF Faithful
<1> QED
  BY <1>2, <1>3

(* The change numbered s leads from an adjacency faithful at s - 1 to one  *)
(* faithful at s, apart from the records that are not applied.             *)
LEMMA FaithfulStep ==
    ASSUME TypeOK, OwnerFaithful, NEW s \in 1 .. seqno,
           NEW S, NEW D, NEW E, Faithful(s - 1, S, D)
    PROVE  Faithful(s, Apply(S, Only(sent[s], E)), D \union (DOMAIN sent[s] \ E))
<1> DEFINE T == Apply(S, Only(sent[s], E))
<1>1. sent[s] \in RecLists
  BY SentType
<1> SUFFICES ASSUME NEW l \in Links \ ((D \union (DOMAIN sent[s] \ E)) \union misreported),
                    (l \in T) # (l \in hist[s])
             PROVE  Touched(l, s)
  BY DEF Faithful
<1>2. l \in hist[s] <=> l \in Apply(hist[s - 1], sent[s])
  BY DEF OwnerFaithful
<1>3. l \in hist[s] <=> IF l \in DOMAIN sent[s] THEN sent[s][l] ELSE l \in hist[s - 1]
  BY <1>1, <1>2, ApplyMember
<1>4. l \notin DOMAIN sent[s]
  BY <1>1, <1>3, ApplyOnlyMember
<1>5. (l \in S) # (l \in hist[s - 1])
  BY <1>1, <1>3, <1>4, ApplyOnlyMember
<1>6. Touched(l, s - 1)
  BY <1>5 DEF Faithful
<1>7. \A k \in (s - 1) + 1 .. seqno : l \in DOMAIN sent[k] => k \in s + 1 .. seqno
  BY <1>4, SentType
<1> QED
  BY <1>6, <1>7 DEF Touched

(* An adjacency faithful at t is faithful at an earlier message. *)
LEMMA FaithfulEarlier ==
    ASSUME TypeOK, OwnerFaithful, NEW s \in Nat, NEW t \in Nat, s <= t, t <= seqno,
           NEW S, NEW D, Faithful(t, S, D)
    PROVE  Faithful(s, S, D)
<1> SUFFICES ASSUME NEW l \in Links \ (D \union misreported),
                    (l \in S) # (l \in hist[s])
             PROVE  Touched(l, s)
  BY DEF Faithful
<1>1. seqno \in Nat /\ s \in 0 .. seqno /\ t \in 0 .. seqno
  BY DEF TypeOK
<1>2. CASE (l \in S) # (l \in hist[t])
  <2>1. Touched(l, t)
    BY <1>2 DEF Faithful
  <2>2. \A k \in t + 1 .. seqno : k \in s + 1 .. seqno
    BY <1>1
  <2> QED
    BY <2>1, <2>2 DEF Touched
<1>3. CASE (l \in hist[s]) # (l \in hist[t])
  <2>1. PICK i \in s + 1 .. t : l \in DOMAIN sent[i]
    BY <1>1, <1>3 DEF OwnerFaithful
  <2>2. i \in s + 1 .. seqno
    BY <1>1
  <2> QED
    BY <2>1, <2>2 DEF Touched
<1> QED
  BY <1>2, <1>3

-----------------------------------------------------------------------------
(* Each way a copy changes keeps it a good copy                            *)

(* The fields of a copy. *)
LEMMA CopyFields ==
    ASSUME NEW c \in Copies
    PROVE  /\ c.ls \in Nat /\ c.adj \in SUBSET Links /\ c.refs \in BOOLEAN
           /\ c.unk \in Nat /\ c.suspect \in SUBSET Links
           /\ c.pend # NoPending =>
                c.pend \in Pendings /\ c.pend.seqno \in Nat /\ c.pend.recs \in RecLists
BY DEF Copies, Pendings

(* NoPending is no pending record. *)
LEMMA NoPendingType == NoPending \notin Pendings
BY LinkStateAssumption DEF Pendings, RecLists

(* save_unknown_adjacency *)
LEMMA SaveUnknownType ==
    ASSUME NEW c \in Copies, NEW s \in Nat, NEW f \in RecLists
    PROVE  /\ SaveUnknown(c.pend, s, f) \in Pendings
           /\ SaveUnknown(c.pend, s, f).seqno = s
           /\ c.pend = NoPending => DOMAIN SaveUnknown(c.pend, s, f).recs = DOMAIN f
           /\ c.pend # NoPending => DOMAIN SaveUnknown(c.pend, s, f).recs =
                                     DOMAIN c.pend.recs \union DOMAIN f
<1>1. CASE c.pend = NoPending
  BY <1>1 DEF SaveUnknown, Pendings
<1>2. CASE c.pend # NoPending
  <2>1. c.pend.recs \in RecLists
    BY <1>2, CopyFields
  <2>2. /\ Merge(c.pend.recs, f) \in RecLists
        /\ DOMAIN Merge(c.pend.recs, f) = DOMAIN c.pend.recs \union DOMAIN f
    BY <2>1, MergeType
  <2> QED
    BY <1>2, <2>2 DEF SaveUnknown, Pendings
<1> QED
  BY <1>1, <1>2

(* recv_adjacency_change, the next change in sequence *)
LEMMA NextChangeGood ==
    ASSUME TypeOK, OwnerFaithful, NEW c \in Copies, GoodCopy(c),
           NEW s \in 1 .. seqno, s = c.ls + 1, NEW F
    PROVE  NextChange(c, s, F) \in Copies /\ GoodCopy(NextChange(c, s, F))
<1> DEFINE unknown == Only(sent[s], Links \ To(F))
           A == Apply(c.adj, Only(sent[s], To(F)))
           D == c.suspect \union (IF c.refs THEN DOMAIN sent[s] ELSE DOMAIN unknown)
           n == NextChange(c, s, F)
<1>1. /\ sent[s] \in RecLists /\ DOMAIN sent[s] \in SUBSET Links
      /\ s \in Nat /\ s <= seqno /\ seqno \in Nat /\ s - 1 = c.ls /\ c.ls < s
  BY SentType, CopyFields
<1>2. /\ unknown \in RecLists
      /\ DOMAIN unknown = DOMAIN sent[s] \ To(F)
  <2>1. DOMAIN unknown = DOMAIN sent[s] \intersect (Links \ To(F))
    BY <1>1, OnlyType
  <2> QED
    BY <1>1, <2>1, OnlyType
<1>3. A \in SUBSET Links
  BY <1>1, OnlyType, ApplyType, CopyFields
<1>4. D \in SUBSET Links /\ c.suspect \subseteq D /\ DOMAIN unknown \subseteq D
  BY <1>1, <1>2, CopyFields
<1>5. Faithful(c.ls, A, D)
  <2>1. Faithful(c.ls, A, c.suspect)
    BY <1>1, FaithfulBelow, CopyFields DEF GoodCopy
  <2> QED
    BY <2>1, <1>4, FaithfulOff
<1>6. Faithful(s, A, D)
  <2>1. Faithful(s, A, c.suspect \union (DOMAIN sent[s] \ To(F)))
    BY <1>1, FaithfulStep DEF GoodCopy
  <2> QED
    BY <2>1, <1>2, <1>4, FaithfulOff
<1>7. c.refs => Faithful(c.unk, A, D)
  <2> SUFFICES ASSUME c.refs PROVE Faithful(c.unk, A, D)
    OBVIOUS
  <2>1. Faithful(c.unk, c.adj, c.suspect) /\ DOMAIN sent[s] \subseteq D
    BY DEF GoodCopy
  <2>2. \A l \in Links \ D : l \in c.adj <=> l \in A
    BY <1>1, <2>1, ApplyOnlyMember
  <2> QED
    BY <2>1, <2>2, <1>4, FaithfulOff
<1>8. CASE DOMAIN unknown # {}
  <2> DEFINE p == SaveUnknown(c.pend, s, unknown)
  <2>1. p \in Pendings /\ p.seqno = s /\ DOMAIN p.recs \subseteq D
    <3>1. c.pend # NoPending => DOMAIN c.pend.recs \subseteq D
      BY <1>4 DEF GoodCopy
    <3>2. /\ p \in Pendings /\ p.seqno = s
          /\ c.pend = NoPending => DOMAIN p.recs = DOMAIN unknown
          /\ c.pend # NoPending => DOMAIN p.recs = DOMAIN c.pend.recs \union DOMAIN unknown
      <4>1. unknown \in RecLists /\ s \in Nat
        BY <1>1, <1>2
      <4> HIDE DEF unknown
      <4> QED
        BY ONLY <4>1, c \in Copies, SaveUnknownType
    <3> HIDE DEF unknown, p, D
    <3> QED
      BY <1>4, <3>1, <3>2
  <2>2. n = [c EXCEPT !.adj = A, !.suspect = D, !.refs = TRUE, !.unk = s, !.pend = p]
    BY <1>8 DEF NextChange, Copies
  <2>3. n \in Copies
    BY <1>1, <1>3, <1>4, <2>1, <2>2 DEF Copies, Pendings
  <2>4. /\ n.ls = c.ls /\ n.adj = A /\ n.suspect = D /\ n.refs = TRUE /\ n.unk = s
        /\ n.pend = p
    BY <2>2 DEF Copies
  <2> QED
    BY <1>1, <1>5, <1>6, <2>1, <2>3, <2>4 DEF GoodCopy
<1>9. CASE DOMAIN unknown = {} /\ c.refs
  <2>1. n = [c EXCEPT !.adj = A, !.suspect = D]
    BY <1>9 DEF NextChange
  <2>2. n \in Copies
    BY <1>3, <1>4, <2>1 DEF Copies
  <2>3. /\ n.ls = c.ls /\ n.adj = A /\ n.suspect = D /\ n.refs = c.refs
        /\ n.unk = c.unk /\ n.pend = c.pend
    BY <2>1 DEF Copies
  <2> QED
    BY <1>4, <1>5, <1>7, <1>9, <2>2, <2>3 DEF GoodCopy
<1>10. CASE DOMAIN unknown = {} /\ ~c.refs
  <2>1. n = [c EXCEPT !.adj = A, !.suspect = D, !.ls = s]
    BY <1>10 DEF NextChange, Copies
  <2>2. n \in Copies
    BY <1>1, <1>3, <1>4, <2>1 DEF Copies
  <2>3. /\ n.ls = s /\ n.adj = A /\ n.suspect = D /\ n.refs = c.refs
        /\ n.unk = c.unk /\ n.pend = c.pend
    BY <2>1 DEF Copies
  <2> QED
    BY <1>1, <1>6, <1>10, <2>2, <2>3 DEF GoodCopy
<1> QED
  BY <1>8, <1>9, <1>10

(* recv_adjacency_change, the change that follows the deferred ones *)
LEMMA UnknownChangeGood ==
    ASSUME TypeOK, OwnerFaithful, NEW c \in Copies, GoodCopy(c),
           NEW s \in 1 .. seqno, s > c.ls + 1, s = c.unk + 1, NEW F
    PROVE  UnknownChange(c, s, F) \in Copies /\ GoodCopy(UnknownChange(c, s, F))
<1> DEFINE unknown == Only(sent[s], Links \ To(F))
           A == Apply(c.adj, Only(sent[s], To(F)))
           D == c.suspect \union DOMAIN unknown
           p == SaveUnknown(c.pend, s, unknown)
           n == UnknownChange(c, s, F)
<1>1. /\ sent[s] \in RecLists /\ DOMAIN sent[s] \in SUBSET Links
      /\ s \in Nat /\ s <= seqno /\ seqno \in Nat /\ s - 1 = c.unk /\ c.ls < s
  BY SentType, CopyFields
<1>2. c.refs
  BY CopyFields DEF GoodCopy
<1>3. /\ unknown \in RecLists
      /\ DOMAIN unknown = DOMAIN sent[s] \ To(F)
  <2>1. DOMAIN unknown = DOMAIN sent[s] \intersect (Links \ To(F))
    BY <1>1, OnlyType
  <2> QED
    BY <1>1, <2>1, OnlyType
<1>4. A \in SUBSET Links
  BY <1>1, OnlyType, ApplyType, CopyFields
<1>5. D \in SUBSET Links /\ c.suspect \subseteq D /\ DOMAIN unknown \subseteq D
  BY <1>1, <1>3, CopyFields
<1>6. Faithful(c.ls, A, D)
  <2>1. Faithful(c.ls, A, c.suspect)
    BY <1>1, FaithfulBelow, CopyFields DEF GoodCopy
  <2> QED
    BY <2>1, <1>5, FaithfulOff
<1>7. Faithful(s, A, D)
  <2>1. Faithful(s, A, c.suspect \union (DOMAIN sent[s] \ To(F)))
    BY <1>1, <1>2, FaithfulStep DEF GoodCopy
  <2> QED
    BY <2>1, <1>3, <1>5, FaithfulOff
<1>8. p \in Pendings /\ p.seqno = s /\ DOMAIN p.recs \subseteq D
  <2>1. c.pend # NoPending => DOMAIN c.pend.recs \subseteq D
    BY <1>5 DEF GoodCopy
  <2>2. /\ p \in Pendings /\ p.seqno = s
        /\ c.pend = NoPending => DOMAIN p.recs = DOMAIN unknown
        /\ c.pend # NoPending => DOMAIN p.recs = DOMAIN c.pend.recs \union DOMAIN unknown
    <3>1. unknown \in RecLists /\ s \in Nat
      BY <1>1, <1>3
    <3> HIDE DEF unknown
    <3> QED
      BY ONLY <3>1, c \in Copies, SaveUnknownType
  <2> HIDE DEF unknown, p, D
  <2> QED
    BY <1>5, <2>1, <2>2
<1>9. n = [c EXCEPT !.adj = A, !.refs = c.refs \/ DOMAIN unknown # {}, !.unk = s,
                    !.pend = p, !.suspect = D]
  BY DEF UnknownChange, Copies
<1>10. /\ n.ls = c.ls /\ n.adj = A /\ n.suspect = D /\ n.refs /\ n.unk = s
       /\ n.pend = p
  BY <1>2, <1>9 DEF Copies
<1>11. n \in Copies
  BY <1>1, <1>4, <1>5, <1>8, <1>9 DEF Copies, Pendings
<1> HIDE DEF unknown, A, D, p, n
<1>12. GoodCopy(n)
  BY <1>1, <1>5, <1>6, <1>7, <1>8, <1>10, CopyFields DEF GoodCopy
<1> QED
  BY <1>11, <1>12 DEF n

(* clear_unknown_adjacency *)
LEMMA ClearUnknownGood ==
    ASSUME TypeOK, NEW c \in Copies, GoodCopy(c)
    PROVE  ClearUnknown(c) \in Copies /\ GoodCopy(ClearUnknown(c))
<1>1. ClearUnknown(c) \in Copies
  BY DEF ClearUnknown, Copies
<1>2. /\ ClearUnknown(c).ls = c.ls /\ ClearUnknown(c).adj = c.adj
      /\ ClearUnknown(c).suspect = c.suspect /\ ClearUnknown(c).refs = FALSE
      /\ ClearUnknown(c).unk = 0 /\ ClearUnknown(c).pend = NoPending
  BY DEF ClearUnknown, Copies
<1> QED
  BY <1>1, <1>2 DEF GoodCopy, TypeOK

(* add_unknown_adjacency for a node that is known *)
LEMMA AddUnknownGood ==
    ASSUME TypeOK, NEW c \in Copies, GoodCopy(c), NEW authentic, NEW X
    PROVE  AddUnknown(c, authentic, X) \in Copies /\ GoodCopy(AddUnknown(c, authentic, X))
<1> DEFINE n == AddUnknown(c, authentic, X)
<1>1. CASE c.pend = NoPending
  <2>1. n = c
    BY <1>1 DEF AddUnknown
  <2> QED
    BY <2>1
<1>2. CASE c.pend # NoPending /\ Outdated(c, authentic)
  <2>1. n = ClearUnknown(c)
    BY <1>2 DEF AddUnknown
  <2> QED
    BY <2>1, ClearUnknownGood
<1>3. CASE c.pend # NoPending /\ ~Outdated(c, authentic)
  <2> DEFINE rest == Only(c.pend.recs, Links \ To(X))
             A == Apply(c.adj, Only(c.pend.recs, To(X)))
  <2>1. /\ c.pend \in Pendings /\ c.pend.seqno \in Nat /\ c.pend.recs \in RecLists
        /\ c.refs /\ c.unk = c.pend.seqno /\ DOMAIN c.pend.recs \subseteq c.suspect
    BY <1>3, CopyFields DEF GoodCopy
  <2>2. A \in SUBSET Links
    BY <2>1, OnlyType, ApplyType, CopyFields
  <2>3. rest \in RecLists /\ DOMAIN rest \subseteq c.suspect
    <3>1. rest \in RecLists /\ DOMAIN rest = DOMAIN c.pend.recs \intersect (Links \ To(X))
      BY <2>1, OnlyType
    <3> QED
      BY <2>1, <3>1
  <2>4. \A l \in Links \ c.suspect : l \in c.adj <=> l \in A
    BY <2>1, ApplyOnlyMember
  <2>5. Faithful(c.ls, A, c.suspect) /\ Faithful(c.unk, A, c.suspect)
    BY <2>1, <2>4, FaithfulOff DEF GoodCopy
  <2>6. CASE DOMAIN rest = {}
    <3>1. n = [ClearUnknown(c) EXCEPT !.ls = c.pend.seqno, !.adj = A]
      BY <1>3, <2>6 DEF AddUnknown
    <3>2. n \in Copies
      <4>1. ClearUnknown(c) \in Copies
        BY ClearUnknownGood
      <4> HIDE DEF n, A
      <4> QED
        BY <2>1, <2>2, <3>1, <4>1 DEF Copies
    <3>3. /\ n.ls = c.unk /\ n.adj = A /\ n.suspect = c.suspect /\ n.refs = FALSE
          /\ n.unk = 0 /\ n.pend = NoPending
      BY <2>1, <3>1 DEF ClearUnknown, Copies
    <3> HIDE DEF n, A
    <3>4. GoodCopy(n)
      BY <2>5, <3>3 DEF GoodCopy, TypeOK
    <3> QED
      BY <3>2, <3>4 DEF n
  <2>7. CASE DOMAIN rest # {}
    <3> DEFINE p == [c.pend EXCEPT !.recs = rest]
    <3>1. n = [c EXCEPT !.adj = A, !.pend.recs = rest]
      BY <1>3, <2>7 DEF AddUnknown
    <3>2. p \in Pendings /\ p.seqno = c.pend.seqno /\ p.recs = rest
      <4> HIDE DEF rest
      <4> QED
        BY <2>1, <2>3 DEF Pendings
    <3>3. n = [c EXCEPT !.adj = A, !.pend = p]
      BY <3>1 DEF Copies
    <3>4. n \in Copies
      <4> HIDE DEF n, A, p
      <4> QED
        BY <2>2, <3>2, <3>3 DEF Copies, Pendings
    <3>5. /\ n.ls = c.ls /\ n.adj = A /\ n.suspect = c.suspect /\ n.refs = c.refs
          /\ n.unk = c.unk /\ n.pend = p
      BY <3>3 DEF Copies
    <3> HIDE DEF n, A, p, rest
    <3>6. GoodCopy(n)
      BY <2>1, <2>3, <2>5, <3>2, <3>5 DEF GoodCopy
    <3> QED
      BY <3>4, <3>6 DEF n
  <2> QED
    BY <2>6, <2>7
<1> QED
  BY <1>1, <1>2, <1>3

(* add_unknown_adjacency for a node that is gone for good *)
LEMMA DiscardUnknownGood ==
    ASSUME TypeOK, NEW c \in Copies, GoodCopy(c), NEW authentic, NEW X
    PROVE  /\ DiscardUnknown(c, authentic, X) \in Copies
           /\ GoodCopy(DiscardUnknown(c, authentic, X))
BY ClearUnknownGood DEF DiscardUnknown

(* process_unknown_adjacency *)
LEMMA DropPendingGood ==
    ASSUME NEW c \in Copies, GoodCopy(c)
    PROVE  /\ [c EXCEPT !.pend = NoPending] \in Copies
           /\ GoodCopy([c EXCEPT !.pend = NoPending])
<1> DEFINE n == [c EXCEPT !.pend = NoPending]
<1>1. n \in Copies
  BY DEF Copies
<1>2. /\ n.ls = c.ls /\ n.adj = c.adj /\ n.suspect = c.suspect /\ n.refs = c.refs
      /\ n.unk = c.unk /\ n.pend = NoPending
  BY DEF Copies
<1> HIDE DEF n
<1>3. GoodCopy(n)
  BY <1>2 DEF GoodCopy
<1> QED
  BY <1>1, <1>3 DEF n

(* The copy of a node that was just added. *)
LEMMA EmptyCopyGood ==
    ASSUME TypeOK, OwnerFaithful
    PROVE  EmptyCopy \in Copies /\ GoodCopy(EmptyCopy)
<1>1. EmptyCopy \in Copies
  BY DEF EmptyCopy, Copies
<1>2. Faithful(0, {}, {})
  BY DEF Faithful, OwnerFaithful
<1> QED
  BY <1>1, <1>2 DEF EmptyCopy, GoodCopy, TypeOK

(* remove_authenticated *)
LEMMA ResetCopyGood ==
    ASSUME TypeOK, OwnerFaithful, NEW c \in Copies, GoodCopy(c), NEW keep \in BOOLEAN
    PROVE  ResetCopy(c, keep) \in Copies /\ GoodCopy(ResetCopy(c, keep))
<1> DEFINE n == ResetCopy(c, keep)
<1>1. CASE keep /\ c.refs
  <2>1. n = [c EXCEPT !.ls = 0, !.adj = {}, !.suspect = Links]
    BY <1>1 DEF ResetCopy
  <2>2. n \in Copies
    <3>1. {} \in SUBSET Links /\ Links \in SUBSET Links /\ 0 \in Nat
      OBVIOUS
    <3> HIDE DEF n
    <3> QED
      BY <2>1, <3>1 DEF Copies
  <2>3. /\ n.ls = 0 /\ n.adj = {} /\ n.suspect = Links /\ n.refs = c.refs
        /\ n.unk = c.unk /\ n.pend = c.pend
    BY <2>1 DEF Copies
  <2>4. \A s : Faithful(s, {}, Links)
    BY DEF Faithful
  <2>5. c.pend # NoPending => DOMAIN c.pend.recs \subseteq Links
    BY CopyFields, RecListsDomain
  <2> HIDE DEF n
  <2>6. GoodCopy(n)
    BY <1>1, <2>3, <2>4, <2>5 DEF GoodCopy, TypeOK
  <2> QED
    BY <2>2, <2>6 DEF n
<1>2. CASE ~(keep /\ c.refs)
  BY <1>2, EmptyCopyGood DEF ResetCopy
<1> QED
  BY <1>1, <1>2

(* recv_adjacency_result, an adjacency that replaces the copy *)
LEMMA ReplaceCopyGood ==
    ASSUME TypeOK, OwnerFaithful, NEW c \in Copies, GoodCopy(c),
           NEW m \in Replies, m.full, GoodReply(m), NEW F
    PROVE  ReplaceCopy(c, m, F) \in Copies /\ GoodCopy(ReplaceCopy(c, m, F))
<1> DEFINE unknown == m.links \ To(F)
           A == m.links \intersect To(F)
           D == m.suspect \union unknown
           cleared == IF c.refs THEN ClearUnknown(c) ELSE c
           n == ReplaceCopy(c, m, F)
<1>1. /\ m.seqno \in Nat /\ m.links \in SUBSET Links /\ m.suspect \in SUBSET Links
      /\ m.seqno <= seqno /\ Faithful(m.seqno, m.links, m.suspect) /\ seqno \in Nat
  BY DEF Replies, GoodReply, TypeOK
<1>2. /\ cleared \in Copies /\ cleared.ls = c.ls /\ cleared.refs = FALSE
      /\ cleared.unk = 0 /\ cleared.pend = NoPending
  <2>1. CASE c.refs
    <3>1. cleared = ClearUnknown(c)
      BY <2>1
    <3> QED
      BY <3>1 DEF ClearUnknown, Copies
  <2>2. CASE ~c.refs
    <3>1. cleared = c
      BY <2>2
    <3>2. c.unk = 0 /\ c.pend = NoPending /\ c.refs = FALSE
      BY <2>2, CopyFields DEF GoodCopy
    <3> QED
      BY <3>1, <3>2
  <2> QED
    BY <2>1, <2>2
<1>3. A \in SUBSET Links /\ D \in SUBSET Links /\ unknown \in SUBSET Links
  BY <1>1
<1>4. Faithful(m.seqno, A, D)
  <2>1. \A l \in Links \ D : l \in m.links <=> l \in A
    OBVIOUS
  <2> QED
    BY <1>1, <2>1, FaithfulOff
<1>5. CASE unknown = {}
  <2>1. n = [cleared EXCEPT !.adj = A, !.suspect = D, !.ls = m.seqno]
    <3> HIDE DEF A
    <3> QED
      BY <1>5 DEF ReplaceCopy, A
  <2> HIDE DEF cleared, n, A, D
  <2>2. n \in Copies
    BY <1>1, <1>2, <1>3, <2>1 DEF Copies
  <2>3. /\ n.ls = m.seqno /\ n.adj = A /\ n.suspect = D /\ n.refs = FALSE
        /\ n.unk = 0 /\ n.pend = NoPending
    BY <1>2, <2>1 DEF Copies
  <2>4. GoodCopy(n)
    BY <1>1, <1>4, <2>3 DEF GoodCopy
  <2> QED
    BY <2>2, <2>4 DEF n
<1>6. CASE unknown # {}
  <2> DEFINE p == [seqno |-> m.seqno, recs |-> Snapshot(unknown)]
             E == IF m.seqno < c.ls THEN Links ELSE D
  <2>1. n = [cleared EXCEPT !.adj = A, !.suspect = E, !.refs = TRUE, !.unk = m.seqno,
                            !.pend = p]
    BY <1>6, <1>2 DEF ReplaceCopy, Copies
  <2>2. p \in Pendings /\ p.seqno = m.seqno /\ DOMAIN p.recs = unknown
    <3> HIDE DEF unknown
    <3> QED
      BY <1>1, <1>3, SnapshotType DEF Pendings
  <2>3. D \subseteq E /\ unknown \subseteq E /\ E \in SUBSET Links
    BY <1>3
  <2>4. Faithful(m.seqno, A, E)
    BY <1>4, <2>3, FaithfulOff
  <2>5. Faithful(c.ls, A, E)
    <3>1. CASE m.seqno < c.ls
      <4>1. E = Links
        BY <3>1
      <4> QED
        BY <4>1 DEF Faithful
    <3>2. CASE ~(m.seqno < c.ls)
      <4>1. c.ls \in Nat /\ c.ls <= m.seqno
        BY <1>1, <3>2, CopyFields
      <4> QED
        BY <1>1, <2>4, <4>1, FaithfulEarlier
    <3> QED
      BY <3>1, <3>2
  <2> HIDE DEF cleared, n, A, E, p, unknown
  <2>6. n \in Copies
    BY <1>1, <1>2, <1>3, <2>1, <2>2, <2>3 DEF Copies, Pendings
  <2>7. /\ n.ls = c.ls /\ n.adj = A /\ n.suspect = E /\ n.refs = TRUE
        /\ n.unk = m.seqno /\ n.pend = p
    BY <1>2, <2>1 DEF Copies
  <2>8. GoodCopy(n)
    BY <1>1, <2>2, <2>3, <2>4, <2>5, <2>7 DEF GoodCopy
  <2> QED
    BY <2>6, <2>8 DEF n
<1> QED
  BY <1>5, <1>6

-----------------------------------------------------------------------------
(* Steps of the owner                                                      *)

(* Queueing a change, or sending the queue, forgets no link that was       *)
(* mentioned after an earlier message: what was faithful stays so.         *)
LEMMA FaithfulKept ==
    ASSUME TypeOK, NEW S, NEW q \in Seq(Recs), Queued(change) \subseteq Queued(q),
           Requeue(S, q) \/ Flush(S, q),
           NEW s \in Nat, s <= seqno, NEW A, NEW D, Faithful(s, A, D)
    PROVE  Faithful(s, A, D)'
<1>1. seqno \in Nat /\ misreported \subseteq misreported'
  BY DEF TypeOK, Requeue, Flush
<1>2. hist'[s] = hist[s]
  BY <1>1 DEF Requeue, Flush
<1> SUFFICES ASSUME NEW l \in Links \ (D \union misreported'),
                    (l \in A) # (l \in hist'[s])
             PROVE  Touched(l, s)'
  BY DEF Faithful
<1>3. Touched(l, s)
  BY <1>1, <1>2 DEF Faithful
<1>4. CASE Requeue(S, q)
  BY <1>3, <1>4 DEF Requeue, Touched
<1>5. CASE Flush(S, q)
  <2>1. /\ seqno' = seqno + 1
        /\ \A k \in 1 .. seqno + 1 :
             sent'[k] = IF k = seqno + 1 THEN Net(q) ELSE sent[k]
    BY <1>5 DEF Flush
  <2>2. CASE l \in Queued(change)
    <3>1. l \in DOMAIN Net(q)
      BY <2>2, NetType
    <3>2. seqno + 1 \in 1 .. seqno + 1 /\ seqno + 1 \in s + 1 .. seqno'
      BY <1>1, <2>1
    <3> QED
      BY <2>1, <3>1, <3>2 DEF Touched
  <2>3. CASE \E k \in s + 1 .. seqno : l \in DOMAIN sent[k]
    <3>1. PICK k \in s + 1 .. seqno : l \in DOMAIN sent[k]
      BY <2>3
    <3>2. k \in 1 .. seqno + 1 /\ k # seqno + 1 /\ k \in s + 1 .. seqno'
      BY <1>1, <2>1
    <3> QED
      BY <2>1, <3>1, <3>2 DEF Touched
  <2> QED
    BY <1>3, <2>2, <2>3 DEF Touched
<1> QED
  BY <1>4, <1>5

(* The queue that is sent, or kept, describes the links of the owner. *)
LEMMA OwnerFaithfulKept ==
    ASSUME TypeOK, OwnerFaithful, NEW S \in SUBSET Links, NEW q \in Seq(Recs),
           Requeue(S, q) \/ Flush(S, q)
    PROVE  OwnerFaithful'
<1>1. seqno \in Nat /\ seqno \in 0 .. seqno
  BY DEF TypeOK
<1>2. \A l \in Links \ misreported' :
        /\ l \notin misreported
        /\ l \in S <=> l \in Apply(hist[seqno], Net(q))
  BY DEF Requeue, Flush, Wrong
<1>3. CASE Requeue(S, q)
  BY <1>2, <1>3 DEF OwnerFaithful, Requeue
<1>4. CASE Flush(S, q)
  <2>1. /\ seqno' = seqno + 1 /\ links' = S /\ change' = << >>
        /\ \A k \in 0 .. seqno : hist'[k] = hist[k]
        /\ \A k \in 1 .. seqno : sent'[k] = sent[k]
        /\ hist'[seqno + 1] = S
        /\ sent'[seqno + 1] = Net(q)
    BY <1>1, <1>4 DEF Flush
  <2>2. Net(q) \in RecLists
    BY NetType
  <2>3. hist'[0] = {}
    BY <1>1, <2>1 DEF OwnerFaithful
  <2> SUFFICES ASSUME NEW l \in Links \ misreported'
               PROVE  /\ l \in S <=> l \in Apply(hist'[seqno'], Net(<< >>))
                      /\ \A k \in 1 .. seqno' :
                           l \in hist'[k] <=> l \in Apply(hist'[k - 1], sent'[k])
                      /\ \A j, k \in 0 .. seqno' :
                           j <= k /\ (l \in hist'[j]) # (l \in hist'[k])
                             => \E i \in j + 1 .. k : l \in DOMAIN sent'[i]
    BY <2>1, <2>3 DEF OwnerFaithful
  <2>4. l \in S <=> l \in Apply(hist'[seqno'], Net(<< >>))
    <3>1. << >> \in Seq(Recs) /\ Queued(<< >>) = {}
      BY DEF Queued
    <3>2. Net(<< >>) \in RecLists /\ DOMAIN Net(<< >>) = {}
      BY <3>1, NetType
    <3> QED
      BY <2>1, <3>2, ApplyMember
  <2>5. ASSUME NEW k \in 1 .. seqno'
        PROVE  l \in hist'[k] <=> l \in Apply(hist'[k - 1], sent'[k])
    <3>1. CASE k = seqno + 1
      <4>1. hist'[k] = S /\ sent'[k] = Net(q) /\ k - 1 = seqno /\ hist'[k - 1] = hist[seqno]
        BY <1>1, <2>1, <3>1
      <4> QED
        BY <1>2, <4>1
    <3>2. CASE k # seqno + 1
      <4>1. k \in 1 .. seqno /\ k \in 0 .. seqno /\ k - 1 \in 0 .. seqno
        BY <1>1, <2>1, <3>2
      <4>2. hist'[k] = hist[k] /\ sent'[k] = sent[k] /\ hist'[k - 1] = hist[k - 1]
        BY <2>1, <4>1
      <4> QED
        BY <1>2, <4>1, <4>2 DEF OwnerFaithful
    <3> QED
      BY <3>1, <3>2
  <2>6. ASSUME NEW j \in 0 .. seqno', NEW k \in 0 .. seqno', j <= k,
               (l \in hist'[j]) # (l \in hist'[k])
        PROVE  \E i \in j + 1 .. k : l \in DOMAIN sent'[i]
    <3>1. j \in 0 .. seqno
      BY <1>1, <2>1, <2>6
    <3>2. CASE k # seqno + 1
      <4>1. k \in 0 .. seqno
        BY <1>1, <2>1, <3>2
      <4>2. PICK i \in j + 1 .. k : l \in DOMAIN sent[i]
        BY <1>2, <2>1, <2>6, <3>1, <4>1 DEF OwnerFaithful
      <4>3. i \in 1 .. seqno
        BY <1>1, <3>1, <4>1
      <4> QED
        BY <2>1, <4>2, <4>3
    <3>3. CASE k = seqno + 1 /\ l \in DOMAIN Net(q)
      <4>1. seqno + 1 \in j + 1 .. k
        BY <1>1, <3>1, <3>3
      <4> QED
        BY <2>1, <3>3, <4>1
    <3>4. CASE k = seqno + 1 /\ l \notin DOMAIN Net(q)
      <4>1. l \in S <=> l \in hist[seqno]
        BY <1>2, <2>2, <3>4, ApplyMember
      <4>2. (l \in hist[j]) # (l \in hist[seqno])
        BY <2>1, <2>6, <3>1, <3>4, <4>1
      <4>3. PICK i \in j + 1 .. seqno : l \in DOMAIN sent[i]
        BY <1>1, <1>2, <3>1, <4>2 DEF OwnerFaithful
      <4>4. i \in 1 .. seqno /\ i \in j + 1 .. k
        BY <1>1, <3>1, <3>4
      <4> QED
        BY <2>1, <4>3, <4>4
    <3> QED
      BY <3>2, <3>3, <3>4
  <2> QED
    BY <2>4, <2>5, <2>6
<1> QED
  BY <1>3, <1>4

(* The owner's step keeps the invariant. *)
LEMMA OwnerStep ==
    ASSUME IndInv, NEW S \in SUBSET Links, NEW q \in Seq(Recs),
           Queued(change) \subseteq Queued(q), Requeue(S, q) \/ Flush(S, q),
           UNCHANGED <<nodes, copy, session, network>>
    PROVE  IndInv'
<1> USE DEF nodes, session, network
<1>1. TypeOK /\ OwnerFaithful /\ seqno \in Nat
  BY DEF IndInv, TypeOK
<1>2. TypeOK'
  <2>1. /\ links' \in SUBSET Links /\ change' \in Seq(Recs) /\ seqno' \in Nat
        /\ misreported' \in SUBSET Links
    <3>1. misreported \union Wrong(S, q) \in SUBSET Links /\ << >> \in Seq(Recs)
      BY <1>1 DEF Wrong, TypeOK
    <3>2. CASE Requeue(S, q)
      BY <1>1, <3>1, <3>2 DEF Requeue
    <3>3. CASE Flush(S, q)
      BY <1>1, <3>1, <3>3 DEF Flush
    <3> QED
      BY <3>2, <3>3
  <2>2. sent' \in [1 .. seqno' -> RecLists] /\ hist' \in [0 .. seqno' -> SUBSET Links]
    <3>1. CASE Requeue(S, q)
      BY <1>1, <3>1 DEF Requeue, TypeOK
    <3>2. CASE Flush(S, q)
      <4>1. Net(q) \in RecLists
        BY NetType
      <4>2. \A k \in 1 .. seqno + 1 : k # seqno + 1 => k \in 1 .. seqno
        BY <1>1
      <4>3. \A k \in 0 .. seqno + 1 : k # seqno + 1 => k \in 0 .. seqno
        BY <1>1
      <4> QED
        BY <1>1, <3>2, <4>1, <4>2, <4>3 DEF Flush, TypeOK
    <3> QED
      BY <3>1, <3>2
  <2> QED
    BY <1>1, <2>1, <2>2 DEF TypeOK, Recs
<1>3. OwnerFaithful'
  BY <1>1, OwnerFaithfulKept
<1>4. seqno <= seqno' /\ seqno' \in Nat
  BY <1>1 DEF Requeue, Flush
<1>5. ASSUME NEW s \in Nat, s <= seqno, NEW A, NEW D, Faithful(s, A, D)
      PROVE  Faithful(s, A, D)'
  BY <1>1, <1>5, FaithfulKept
<1>6. ASSUME NEW r \in Replicas PROVE GoodCopy(copy[r])'
  <2> DEFINE c == copy[r]
  <2>1. c \in Copies /\ GoodCopy(c) /\ c.ls \in Nat /\ c.unk \in Nat
    <3>1. copy[r] \in Copies /\ GoodCopy(copy[r])
      BY DEF IndInv, TypeOK
    <3> QED
      BY <3>1, CopyFields
  <2>2. c.ls <= seqno' /\ c.unk <= seqno'
    BY <1>1, <1>4, <2>1 DEF GoodCopy
  <2>3. Faithful(c.ls, c.adj, c.suspect)'
    <3>1. \A l \in Links \ (c.suspect \union misreported') :
            (l \in c.adj) # (l \in hist'[c.ls]) => Touched(l, c.ls)'
      BY <1>5, <2>1 DEF GoodCopy, Faithful
    <3> QED
      BY <3>1 DEF Faithful
  <2>4. c.refs => Faithful(c.unk, c.adj, c.suspect)'
    BY <1>5, <2>1 DEF GoodCopy
  <2> QED
    BY <2>1, <2>2, <2>3, <2>4 DEF GoodCopy
<1>7. ASSUME NEW m \in rpys PROVE GoodReply(m)'
  <2>1. m \in Replies /\ GoodReply(m) /\ m.seqno \in Nat
    BY <1>1 DEF IndInv, TypeOK, Replies
  <2> QED
    BY <1>1, <1>4, <1>5, <2>1 DEF GoodReply
<1> QED
  BY <1>2, <1>3, <1>6, <1>7 DEF IndInv

-----------------------------------------------------------------------------
(* Steps of the replicas and the network                                   *)

(* A step that leaves the owner alone keeps the invariant when the copies  *)
(* and the replies it leads to are good.                                   *)
LEMMA OtherStep ==
    ASSUME IndInv, UNCHANGED owner, TypeOK',
           \A r \in Replicas : GoodCopy(copy'[r]),
           \A m \in rpys' : GoodReply(m)
    PROVE  IndInv'
<1> USE DEF owner
<1>1. OwnerFaithful'
  BY DEF IndInv, OwnerFaithful
<1>2. ASSUME NEW r \in Replicas PROVE GoodCopy(copy[r])'
  BY DEF GoodCopy, Faithful, Touched
<1>3. ASSUME NEW m \in rpys' PROVE GoodReply(m)'
  BY DEF GoodReply, Faithful, Touched
<1> QED
  BY <1>1, <1>2, <1>3 DEF IndInv

(* A step that changes neither the copies nor the replies. *)
LEMMA QuietStep ==
    ASSUME IndInv, UNCHANGED <<owner, copy>>, TypeOK', rpys' \subseteq rpys
    PROVE  IndInv'
<1>1. /\ \A r \in Replicas : GoodCopy(copy'[r])
      /\ \A m \in rpys' : GoodReply(m)
  BY DEF IndInv
<1> QED
  BY <1>1, OtherStep

(* A step of replica r that changes its copy. *)
LEMMA CopyStep ==
    ASSUME IndInv, UNCHANGED owner, NEW r \in Replicas, NEW n \in Copies, GoodCopy(n),
           copy' = [copy EXCEPT ![r] = n], rpys' \subseteq rpys,
           copy' \in [Replicas -> Copies] => TypeOK'
    PROVE  IndInv'
<1>1. copy \in [Replicas -> Copies]
  BY DEF IndInv, TypeOK
<1>2. copy' \in [Replicas -> Copies]
  BY <1>1
<1>3. \A x \in Replicas : GoodCopy(copy'[x])
  <2> SUFFICES ASSUME NEW x \in Replicas PROVE GoodCopy(copy'[x])
    OBVIOUS
  <2>1. CASE x = r
    <3>1. copy'[x] = n
      BY <1>1, <2>1
    <3> QED
      BY <3>1
  <2>2. CASE x # r
    <3>1. copy'[x] = copy[x]
      BY <1>1, <2>2
    <3> QED
      BY <3>1 DEF IndInv
  <2> QED
    BY <2>1, <2>2
<1>4. \A m \in rpys' : GoodReply(m)
  BY DEF IndInv
<1> QED
  BY <1>2, <1>3, <1>4, OtherStep

(* Steps that answer or send a request. *)
LEMMA RequestType ==
    ASSUME TypeOK, NEW r \in Replicas, NEW to \in Replicas \union {Owner},
           NEW dijkstra \in BOOLEAN, NEW null \in BOOLEAN,
           Request(r, to, dijkstra, null)
    PROVE  /\ asking' \in [Replicas -> SUBSET (Replicas \union {Owner})]
           /\ lastReq' \in [Replicas -> Nat]
           /\ reqs' \in SUBSET Requests
           /\ rpys' = rpys
<1> DEFINE s == IF null /\ to = Owner THEN 0 ELSE copy[r].ls
<1>1. copy[r] \in Copies /\ copy[r].ls \in Nat
  BY CopyFields DEF TypeOK
<1>2. s \in Nat
  BY <1>1
<1>3. [src |-> r, dst |-> to, seqno |-> s, has |-> auth[r],
       dijkstra |-> dijkstra, null |-> null] \in Requests
  BY <1>2 DEF Requests, TypeOK
<1> QED
  BY <1>2, <1>3 DEF Request, TypeOK

(* The queue of each owner action mentions what the queue before did. *)
LEMMA OwnerNextStep ==
    ASSUME IndInv, OwnerNext
    PROVE  IndInv'
<1>1. TypeOK /\ links \in SUBSET Links /\ change \in Seq(Recs)
  BY DEF IndInv, TypeOK, Recs
<1>2. ASSUME NEW l \in Links, NEW flush \in BOOLEAN, PushConnectedUserRoute(l, flush)
      PROVE  IndInv'
  <2> DEFINE q == Enqueue(change, l, TRUE)
  <2>1. q \in Seq(Recs) /\ Queued(change) \subseteq Queued(q)
    BY <1>1, EnqueueType
  <2>2. Requeue(links \union {l}, q) \/ Flush(links \union {l}, q)
    BY <1>2 DEF PushConnectedUserRoute
  <2>3. UNCHANGED <<nodes, copy, session, network>> /\ links \union {l} \in SUBSET Links
    BY <1>1, <1>2 DEF PushConnectedUserRoute
  <2> HIDE DEF q
  <2> QED
    BY <2>1, <2>2, <2>3, OwnerStep
<1>3. ASSUME NEW l \in Links, PopUserRoute(l)
      PROVE  IndInv'
  <2> DEFINE q == Enqueue(change, l, FALSE)
  <2>1. q \in Seq(Recs) /\ Queued(change) \subseteq Queued(q)
    BY <1>1, EnqueueType
  <2>2. Flush(links \ {l}, q)
    BY <1>3 DEF PopUserRoute
  <2>3. UNCHANGED <<nodes, copy, session, network>> /\ links \ {l} \in SUBSET Links
    BY <1>1, <1>3 DEF PopUserRoute
  <2> HIDE DEF q
  <2> QED
    BY <2>1, <2>2, <2>3, OwnerStep
<1>4. ASSUME NEW l \in Links, NEW direct \in BOOLEAN, RemapUserRoute(l, direct)
      PROVE  IndInv'
  <2> DEFINE q == Enqueue(change, l, FALSE)
             p == Enqueue(q, l, TRUE)
  <2>1. q \in Seq(Recs) /\ Queued(change) \subseteq Queued(q)
    BY <1>1, EnqueueType
  <2>2. p \in Seq(Recs) /\ Queued(q) \subseteq Queued(p)
    <3> HIDE DEF q
    <3> QED
      BY <2>1, EnqueueType
  <2>3. Requeue(links, p) \/ Requeue(links \ {l}, q)
    BY <1>4 DEF RemapUserRoute
  <2>4. UNCHANGED <<nodes, copy, session, network>> /\ links \ {l} \in SUBSET Links
    BY <1>1, <1>4 DEF RemapUserRoute
  <2> HIDE DEF q, p
  <2> QED
    BY <1>1, <2>1, <2>2, <2>3, <2>4, OwnerStep
<1>5. ASSUME NEW l \in Links, UpdateCost(l)
      PROVE  IndInv'
  <2> DEFINE q == Enqueue(change, l, TRUE)
  <2>1. q \in Seq(Recs) /\ Queued(change) \subseteq Queued(q)
    BY <1>1, EnqueueType
  <2>2. Requeue(links, q) /\ UNCHANGED <<nodes, copy, session, network>>
    BY <1>5 DEF UpdateCost
  <2> HIDE DEF q
  <2> QED
    BY <1>1, <2>1, <2>2, OwnerStep
<1>6. CASE SendAdjacencyChange
  BY <1>1, <1>6, OwnerStep DEF SendAdjacencyChange
<1> QED
  BY <1>2, <1>3, <1>4, <1>5, <1>6 DEF OwnerNext

(* Nodes that come and go *)
LEMMA NodeNextStep ==
    ASSUME IndInv, NEW r \in Replicas, NodeNext(r)
    PROVE  IndInv'
<1> USE DEF owner, nodes, session, network
<1>1. TypeOK /\ OwnerFaithful /\ copy[r] \in Copies /\ GoodCopy(copy[r])
  BY DEF IndInv, TypeOK
<1>2. ASSUME NEW x \in Peers, AddUser(r, x) PROVE IndInv'
  BY <1>1, <1>2, QuietStep DEF AddUser, TypeOK
<1>3. ASSUME NEW x \in Peers, AddAuthenticated(r, x) PROVE IndInv'
  <2> DEFINE n == AddUnknown(copy[r], auth[r], {x})
  <2>1. n \in Copies /\ GoodCopy(n)
    BY <1>1, AddUnknownGood
  <2>2. copy' = [copy EXCEPT ![r] = n] /\ UNCHANGED owner /\ rpys' \subseteq rpys
    BY <1>3 DEF AddAuthenticated
  <2> HIDE DEF n
  <2>3. copy' \in [Replicas -> Copies] => TypeOK'
    BY <1>1, <1>3 DEF AddAuthenticated, TypeOK
  <2> QED
    BY <2>1, <2>2, <2>3, CopyStep
<1>4. ASSUME NEW x \in Peers, RecvByeUnknown(r, x) PROVE IndInv'
  <2> DEFINE n == DiscardUnknown(copy[r], auth[r], {x})
  <2>1. n \in Copies /\ GoodCopy(n)
    BY <1>1, DiscardUnknownGood
  <2>2. copy' = [copy EXCEPT ![r] = n] /\ UNCHANGED owner /\ rpys' \subseteq rpys
    BY <1>4 DEF RecvByeUnknown
  <2> HIDE DEF n
  <2>3. copy' \in [Replicas -> Copies] => TypeOK'
    BY <1>1, <1>4 DEF RecvByeUnknown, TypeOK
  <2> QED
    BY <2>1, <2>2, <2>3, CopyStep
<1>5. CASE PendingTimeout(r)
  <2> DEFINE n == [copy[r] EXCEPT !.pend = NoPending]
  <2>1. n \in Copies /\ GoodCopy(n)
    BY <1>1, DropPendingGood
  <2>2. copy' = [copy EXCEPT ![r] = n] /\ UNCHANGED owner /\ rpys' \subseteq rpys
    BY <1>5 DEF PendingTimeout
  <2> HIDE DEF n
  <2>3. copy' \in [Replicas -> Copies] => TypeOK'
    BY <1>1, <1>5 DEF PendingTimeout, TypeOK
  <2> QED
    BY <2>1, <2>2, <2>3, CopyStep
<1>6. ASSUME NEW keep \in BOOLEAN, RemoveOwner(r, keep) PROVE IndInv'
  <2> DEFINE n == ResetCopy(copy[r], keep)
  <2>1. n \in Copies /\ GoodCopy(n)
    BY <1>1, ResetCopyGood
  <2>2. copy' = [copy EXCEPT ![r] = n] /\ UNCHANGED owner /\ rpys' \subseteq rpys
    BY <1>6 DEF RemoveOwner
  <2> HIDE DEF n
  <2>3. copy' \in [Replicas -> Copies] => TypeOK'
    BY <1>1, <1>6 DEF RemoveOwner, TypeOK
  <2> QED
    BY <2>1, <2>2, <2>3, CopyStep
<1>7. CASE AddOwner(r)
  <2> DEFINE n == AddUnknown(copy[r], TRUE, {})
  <2>1. n \in Copies /\ GoodCopy(n)
    BY <1>1, AddUnknownGood
  <2>2. copy' = [copy EXCEPT ![r] = n] /\ UNCHANGED owner /\ rpys' \subseteq rpys
    BY <1>7 DEF AddOwner
  <2> HIDE DEF n
  <2>3. copy' \in [Replicas -> Copies] => TypeOK'
    BY <1>1, <1>7 DEF AddOwner, TypeOK
  <2> QED
    BY <2>1, <2>2, <2>3, CopyStep
<1> QED
  BY <1>2, <1>3, <1>4, <1>5, <1>6, <1>7 DEF NodeNext

(* Changes received and requests sent *)
LEMMA SyncNextStep ==
    ASSUME IndInv, NEW r \in Replicas, SyncNext(r)
    PROVE  IndInv'
<1> USE DEF owner, nodes, network
<1>1. /\ TypeOK /\ OwnerFaithful /\ copy[r] \in Copies /\ GoodCopy(copy[r])
      /\ seqno \in Nat /\ Owner \in Replicas \union {Owner}
  BY DEF IndInv, TypeOK
<1>2. ASSUME NEW to \in Replicas \union {Owner}, NEW dijkstra \in BOOLEAN,
             NEW null \in BOOLEAN, Request(r, to, dijkstra, null),
             UNCHANGED <<owner, nodes, copy, nullRes>>,
             recvd' \in [Replicas -> Nat]
      PROVE  IndInv'
  <2>1. TypeOK'
    BY <1>1, <1>2, RequestType DEF TypeOK
  <2>2. rpys' \subseteq rpys
    BY <1>1, <1>2, RequestType
  <2> QED
    BY <1>2, <2>1, <2>2, QuietStep
<1>3. ASSUME NEW s \in 1 .. seqno, RecvAdjacencyChange(r, s) PROVE IndInv'
  <2> DEFINE c == copy[r]
  <2>1. recvd' \in [Replicas -> Nat] /\ UNCHANGED <<owner, nodes, nullRes>>
    BY <1>1, <1>3 DEF RecvAdjacencyChange, TypeOK
  <2>2. ASSUME NEW n \in Copies, GoodCopy(n), copy' = [copy EXCEPT ![r] = n],
               UNCHANGED <<asking, lastReq, network>>
        PROVE  IndInv'
    <3>1. copy' \in [Replicas -> Copies] => TypeOK'
      BY <1>1, <2>1, <2>2 DEF TypeOK
    <3>2. rpys' \subseteq rpys
      BY <2>2
    <3> QED
      BY <2>1, <2>2, <3>1, <3>2, CopyStep
  <2>3. CASE /\ s = c.ls + 1
             /\ copy' = [copy EXCEPT ![r] = NextChange(c, s, found[r])]
             /\ UNCHANGED <<asking, lastReq, network>>
    <3>1. NextChange(c, s, found[r]) \in Copies /\ GoodCopy(NextChange(c, s, found[r]))
      BY <1>1, <2>3, NextChangeGood
    <3> QED
      BY <2>2, <2>3, <3>1
  <2>4. CASE /\ s > c.ls + 1 /\ s = c.unk + 1
             /\ copy' = [copy EXCEPT ![r] = UnknownChange(c, s, found[r])]
             /\ UNCHANGED <<asking, lastReq, network>>
    <3>1. UnknownChange(c, s, found[r]) \in Copies /\ GoodCopy(UnknownChange(c, s, found[r]))
      BY <1>1, <2>4, UnknownChangeGood
    <3> QED
      BY <2>2, <2>4, <3>1
  <2>5. CASE Request(r, Owner, FALSE, FALSE) /\ UNCHANGED copy
    BY <1>1, <1>2, <2>1, <2>5
  <2>6. CASE UNCHANGED <<copy, asking, lastReq, network>>
    <3>1. TypeOK'
      BY <1>1, <2>1, <2>6 DEF TypeOK
    <3> QED
      BY <2>1, <2>6, <3>1, QuietStep
  <2> QED
    BY <1>3, <2>3, <2>4, <2>5, <2>6 DEF RecvAdjacencyChange, Throttled
<1>4. CASE SyncRequest(r)
  <2>1. recvd' \in [Replicas -> Nat]
    BY <1>1, <1>4 DEF SyncRequest, TypeOK
  <2> QED
    BY <1>1, <1>2, <1>4, <2>1 DEF SyncRequest
<1>5. CASE DijkstraRequest(r)
  <2>1. recvd' \in [Replicas -> Nat]
    BY <1>1, <1>5 DEF DijkstraRequest, TypeOK
  <2>2. \E null \in BOOLEAN : Request(r, Owner, TRUE, null)
    BY <1>5 DEF DijkstraRequest
  <2>3. UNCHANGED <<owner, nodes, copy, nullRes>>
    BY <1>5 DEF DijkstraRequest
  <2> QED
    BY <1>1, <1>2, <2>1, <2>2, <2>3
<1>6. ASSUME NEW q \in Replicas, NEW dijkstra \in BOOLEAN, NEW null \in BOOLEAN,
             RelayRequest(r, q, dijkstra, null)
      PROVE  IndInv'
  <2>1. recvd' \in [Replicas -> Nat]
    BY <1>1, <1>6 DEF RelayRequest, TypeOK
  <2> QED
    BY <1>1, <1>2, <1>6, <2>1 DEF RelayRequest
<1>7. ASSUME NEW to \in Replicas \union {Owner}, RequestTimeout(r, to) PROVE IndInv'
  <2>1. TypeOK'
    BY <1>1, <1>7 DEF RequestTimeout, TypeOK
  <2> QED
    BY <1>7, <2>1, QuietStep DEF RequestTimeout
<1> QED
  BY <1>3, <1>4, <1>5, <1>6, <1>7 DEF SyncNext

(* Requests answered, replies received, messages lost *)
LEMMA NetworkNextStep ==
    ASSUME IndInv, NetworkNext
    PROVE  IndInv'
<1> USE DEF owner, nodes, session
<1>1. /\ TypeOK /\ OwnerFaithful /\ seqno \in Nat /\ links \in SUBSET Links
      /\ Owner \in Replicas \union {Owner}
  BY DEF IndInv, TypeOK
<1>2. ASSUME NEW n, n \in Replies, GoodReply(n), rpys' = rpys \union {n},
             UNCHANGED <<owner, copy>>, rpys' \in SUBSET Replies => TypeOK'
      PROVE  IndInv'
  <2>1. rpys' \in SUBSET Replies
    BY <1>1, <1>2 DEF TypeOK
  <2>2. /\ \A r \in Replicas : GoodCopy(copy'[r])
        /\ \A m \in rpys' : GoodReply(m)
    BY <1>2 DEF IndInv
  <2> QED
    BY <1>2, <2>1, <2>2, OtherStep
<1>3. ASSUME NEW m \in Requests, NEW s \in Nat, NEW S \in SUBSET Links,
             NEW full \in BOOLEAN, NEW D \in SUBSET Links,
             full => s <= seqno /\ Faithful(s, S, D)
      PROVE  Reply(m, s, S, full, D) \in Replies /\ GoodReply(Reply(m, s, S, full, D))
  <2>1. Reply(m, s, S, full, D) \in Replies
    BY DEF Requests, Reply, Replies
  <2>2. GoodReply(Reply(m, s, S, full, D))
    BY <1>3 DEF Reply, GoodReply
  <2> QED
    BY <2>1, <2>2
<1>4. ASSUME NEW m \in reqs, OwnerRecvRequest(m) PROVE IndInv'
  <2>1. Faithful(seqno, links, {})
    <3> SUFFICES ASSUME NEW l \in Links \ misreported,
                        (l \in links) # (l \in hist[seqno])
                 PROVE  Touched(l, seqno)
      BY DEF Faithful
    <3>1. change \in Seq(Recs)
      BY <1>1 DEF TypeOK, Recs
    <3>2. l \in links <=> l \in Apply(hist[seqno], Net(change))
      BY <1>1 DEF OwnerFaithful
    <3>3. Net(change) \in RecLists /\ DOMAIN Net(change) = Queued(change)
      BY <3>1, NetType
    <3>4. l \in Queued(change)
      BY <3>2, <3>3, ApplyMember
    <3> QED
      BY <3>4 DEF Touched
  <2>2. m \in Requests
    BY <1>1 DEF TypeOK
  <2>3. PICK n : /\ rpys' = rpys \union {n}
                 /\ n \in {Reply(m, seqno, links, TRUE, {}), Reply(m, 0, {}, FALSE, {})}
    BY <1>4 DEF OwnerRecvRequest
  <2>4. n \in Replies /\ GoodReply(n)
    <3>1. CASE n = Reply(m, seqno, links, TRUE, {})
      <4>1. {} \in SUBSET Links /\ TRUE \in BOOLEAN /\ seqno <= seqno
        BY <1>1
      <4> QED
        BY <1>1, <1>3, <2>1, <2>2, <3>1, <4>1
    <3>2. CASE n = Reply(m, 0, {}, FALSE, {})
      BY <1>3, <2>2, <3>2
    <3> QED
      BY <2>3, <3>1, <3>2
  <2>5. rpys' \in SUBSET Replies => TypeOK'
    BY <1>1, <1>4 DEF OwnerRecvRequest, TypeOK
  <2> QED
    BY <1>2, <1>4, <2>3, <2>4, <2>5 DEF OwnerRecvRequest
<1>5. ASSUME NEW m \in reqs, RelayReplyCopy(m) PROVE IndInv'
  <2> DEFINE c == copy[m.dst]
             n == Reply(m, c.ls, c.adj, TRUE, c.suspect)
  <2>1. m \in Requests /\ m.dst \in Replicas
    BY <1>1, <1>5 DEF TypeOK, RelayReplyCopy
  <2>2. c \in Copies /\ GoodCopy(c)
    BY <2>1 DEF IndInv, TypeOK
  <2>3. n \in Replies /\ GoodReply(n)
    <3>1. /\ c.ls \in Nat /\ c.adj \in SUBSET Links /\ c.suspect \in SUBSET Links
          /\ c.ls <= seqno /\ Faithful(c.ls, c.adj, c.suspect)
      BY <2>2, CopyFields DEF GoodCopy
    <3> HIDE DEF c
    <3> QED
      BY <1>3, <2>1, <3>1
  <2>4. rpys' = rpys \union {n} /\ UNCHANGED <<owner, copy>>
    BY <1>5 DEF RelayReplyCopy
  <2>5. rpys' \in SUBSET Replies => TypeOK'
    BY <1>1, <1>5 DEF RelayReplyCopy, TypeOK
  <2> QED
    BY <1>2, <2>3, <2>4, <2>5
<1>6. ASSUME NEW m \in reqs, RelayReplyNone(m) PROVE IndInv'
  <2> DEFINE q == m.dst
             n == Reply(m, 0, {}, FALSE, {})
             f == [src |-> q, dst |-> Owner, seqno |-> copy[q].ls, has |-> TRUE,
                   dijkstra |-> FALSE, null |-> FALSE]
  <2>1. m \in Requests /\ q \in Replicas
    BY <1>1, <1>6 DEF TypeOK, RelayReplyNone
  <2>2. n \in Replies /\ GoodReply(n)
    BY <1>3, <2>1
  <2>3. rpys' = rpys \union {n} /\ UNCHANGED <<owner, copy>>
    BY <1>6 DEF RelayReplyNone
  <2>4. copy[q].ls \in Nat
    BY <1>1, <2>1, CopyFields DEF TypeOK
  <2>5. f \in Requests
    BY <1>1, <2>1, <2>4 DEF Requests
  <2>6. /\ asking' \in [Replicas -> SUBSET (Replicas \union {Owner})]
        /\ lastReq' \in [Replicas -> Nat]
        /\ reqs' \in SUBSET Requests
    <3>1. \/ /\ asking' = [asking EXCEPT ![q] = @ \union {Owner}]
             /\ lastReq' = [lastReq EXCEPT ![q] = copy[q].ls]
             /\ reqs' = (reqs \ {m}) \union {f}
          \/ reqs' = reqs \ {m} /\ UNCHANGED <<asking, lastReq>>
      BY <1>6 DEF RelayReplyNone
    <3> HIDE DEF f, q
    <3> QED
      BY <1>1, <2>1, <2>4, <2>5, <3>1 DEF TypeOK
  <2>7. rpys' \in SUBSET Replies => TypeOK'
    BY <1>1, <1>6, <2>6 DEF RelayReplyNone, TypeOK
  <2> QED
    BY <1>2, <2>2, <2>3, <2>7
<1>7. ASSUME NEW m \in reqs, LoseRequest(m) PROVE IndInv'
  <2>1. TypeOK'
    BY <1>1, <1>7 DEF LoseRequest, TypeOK
  <2> QED
    BY <1>7, <2>1, QuietStep DEF LoseRequest
<1>8. ASSUME NEW m \in rpys, LoseReply(m) PROVE IndInv'
  <2>1. TypeOK'
    BY <1>1, <1>8 DEF LoseReply, TypeOK
  <2> QED
    BY <1>8, <2>1, QuietStep DEF LoseReply
<1>9. ASSUME NEW m \in rpys, RecvAdjacencyResult(m) PROVE IndInv'
  <2> DEFINE r == m.dst
             c == IF auth[r] THEN copy[r] ELSE AddUnknown(copy[r], TRUE, {})
             k == ReplaceCopy(c, m, found[r])
  <2>1. m \in Replies /\ r \in Replicas /\ GoodReply(m)
    BY <1>1 DEF IndInv, TypeOK, Replies
  <2>2. copy[r] \in Copies /\ GoodCopy(copy[r])
    BY <2>1 DEF IndInv, TypeOK
  <2>3. c \in Copies /\ GoodCopy(c)
    BY <1>1, <2>2, AddUnknownGood
  <2>4. m.full => k \in Copies /\ GoodCopy(k)
    <3> HIDE DEF c
    <3> QED
      BY <1>1, <2>1, <2>3, ReplaceCopyGood
  <2>5. \E n : /\ n = c \/ (m.full /\ n = k)
               /\ copy' = [copy EXCEPT ![r] = n]
    BY <1>9 DEF RecvAdjacencyResult
  <2> HIDE DEF c, k
  <2>6. PICK n : n \in Copies /\ GoodCopy(n) /\ copy' = [copy EXCEPT ![r] = n]
    BY <2>3, <2>4, <2>5
  <2>7. UNCHANGED owner /\ rpys' \subseteq rpys
    BY <1>9 DEF RecvAdjacencyResult
  <2>8. nullRes' \in [Replicas -> Nat]
    <3>1. \/ nullRes' = [nullRes EXCEPT ![r] = 0]
          \/ nullRes' = nullRes
          \/ nullRes' = [nullRes EXCEPT ![r] = @ + 1]
      BY <1>9 DEF RecvAdjacencyResult
    <3>2. nullRes \in [Replicas -> Nat] /\ r \in Replicas
      BY <1>1, <2>1 DEF TypeOK
    <3> HIDE DEF r
    <3>3. nullRes[r] + 1 \in Nat /\ 0 \in Nat
      BY <3>2
    <3> QED
      BY <3>1, <3>2, <3>3
  <2>9. copy' \in [Replicas -> Copies] => TypeOK'
    BY <1>1, <1>9, <2>1, <2>8 DEF RecvAdjacencyResult, TypeOK
  <2> QED
    BY <2>1, <2>6, <2>7, <2>9, CopyStep
<1> QED
  BY <1>4, <1>5, <1>6, <1>7, <1>8, <1>9 DEF NetworkNext

-----------------------------------------------------------------------------
(* Theorems                                                                *)

(* The invariant holds at the start. *)
LEMMA InitInv == Init => IndInv
<1> SUFFICES ASSUME Init PROVE IndInv
  OBVIOUS
<1> USE LinkStateAssumption DEF Init
<1>1. TypeOK
  <2>1. EmptyCopy \in Copies
    BY DEF EmptyCopy, Copies
  <2>2. change \in Seq([link : Links, add : BOOLEAN]) /\ sent \in [1 .. seqno -> RecLists]
    <3>1. sent = << >> /\ 1 .. seqno = {}
      OBVIOUS
    <3> QED
      BY <3>1
  <2>3. hist \in [0 .. seqno -> SUBSET Links]
    <3>1. 0 .. seqno = {0}
      OBVIOUS
    <3> QED
      BY <3>1
  <2> QED
    BY <2>1, <2>2, <2>3 DEF TypeOK
<1>2. OwnerFaithful
  <2>1. << >> \in Seq(Recs) /\ Queued(<< >>) = {}
    BY DEF Queued
  <2>2. Net(<< >>) \in RecLists /\ DOMAIN Net(<< >>) = {}
    BY <2>1, NetType
  <2>3. hist[0] = {} /\ links = {} /\ seqno = 0
    OBVIOUS
  <2>4. \A l \in Links : l \notin Apply({}, Net(<< >>))
    BY <2>2, ApplyMember
  <2> QED
    BY <2>3, <2>4 DEF OwnerFaithful
<1>3. \A r \in Replicas : GoodCopy(copy[r])
  BY <1>1, <1>2, EmptyCopyGood
<1> QED
  BY <1>1, <1>2, <1>3 DEF IndInv

(* Every step keeps the invariant. *)
LEMMA NextInv == IndInv /\ [Next]_vars => IndInv'
<1> SUFFICES ASSUME IndInv, [Next]_vars PROVE IndInv'
  OBVIOUS
<1>1. CASE OwnerNext
  BY <1>1, OwnerNextStep
<1>2. ASSUME NEW r \in Replicas, NodeNext(r) PROVE IndInv'
  BY <1>2, NodeNextStep
<1>3. ASSUME NEW r \in Replicas, SyncNext(r) PROVE IndInv'
  BY <1>3, SyncNextStep
<1>4. CASE NetworkNext
  BY <1>4, NetworkNextStep
<1>5. CASE UNCHANGED vars
  <2>1. TypeOK'
    BY <1>5 DEF IndInv, TypeOK, vars, owner, nodes, session, network
  <2> QED
    BY <1>5, <2>1, QuietStep DEF vars, network
<1> QED
  BY <1>1, <1>2, <1>3, <1>4, <1>5 DEF Next

(* The invariant always holds. *)
LEMMA SpecInv == Spec => []IndInv
BY InitInv, NextInv, PTL DEF Spec

(* The state of the owner, the copies of the adjacency at every replica    *)
(* and the messages of the resynchronization keep their types.             *)
THEOREM TypeCorrect == Spec => []TypeOK
<1>1. IndInv => TypeOK
  BY DEF IndInv
<1> QED
  BY <1>1, SpecInv, PTL

(* However _Z.ADJ messages, requests and replies are lost, delayed or      *)
(* overtaken, and whichever replica answers, a copy numbered s is the      *)
(* owner's adjacency at s up to changes the replica has still to receive,  *)
(* outside the links on which deferral or the owner's queue went wrong.    *)
THEOREM CopiesFaithful == Spec => []CopyFaithful
<1>1. IndInv => CopyFaithful
  BY DEF IndInv, GoodCopy, CopyFaithful
<1> QED
  BY <1>1, SpecInv, PTL

(* A replica with the owner's seqno has the owner's links, outside those   *)
(* same links: no order of losses and replies leaves it wrong unnoticed.   *)
THEOREM CaughtUpsFaithful == Spec => []CaughtUpFaithful
<1>1. IndInv => CaughtUpFaithful
  <2> SUFFICES ASSUME IndInv, NEW r \in Replicas, copy[r].ls = seqno, change = << >>,
                      NEW l \in Links \ (copy[r].suspect \union misreported)
               PROVE  l \in copy[r].adj <=> l \in links
    <3>1. IndInv => /\ \A r \in Replicas : copy[r] \in Copies
                    /\ links \in SUBSET Links
      BY DEF IndInv, TypeOK
    <3> QED
      BY <3>1, CopyFields DEF CaughtUpFaithful
  <2>1. << >> \in Seq(Recs) /\ Queued(<< >>) = {}
    BY DEF Queued
  <2>2. Net(<< >>) \in RecLists /\ DOMAIN Net(<< >>) = {}
    BY <2>1, NetType
  <2>3. l \in links <=> l \in hist[seqno]
    BY <2>2, ApplyMember DEF IndInv, OwnerFaithful
  <2>4. ~Touched(l, seqno)
    BY <2>1 DEF Touched, IndInv, TypeOK
  <2>5. Faithful(seqno, copy[r].adj, copy[r].suspect)
    BY DEF IndInv, GoodCopy
  <2> QED
    BY <2>3, <2>4, <2>5 DEF Faithful
<1> QED
  BY <1>1, SpecInv, PTL

(* The records save_unknown_adjacency keeps are always the ones that       *)
(* unknown_link_seqno and unknown_adj_refs of the copy speak of.           *)
THEOREM PendingsCurrent == Spec => []PendingCurrent
<1>1. IndInv => PendingCurrent
  <2> SUFFICES ASSUME IndInv PROVE PendingCurrent
    OBVIOUS
  <2> QED
    BY DEF IndInv, GoodCopy, PendingCurrent
<1> QED
  BY <1>1, SpecInv, PTL

-----------------------------------------------------------------------------
(* The queue of the owner                                                  *)

(* Without remaps the queue has one record for each link that went up      *)
(* since the last message, and none of another kind: pop_user_route        *)
(* flushes what it queues.                                                 *)
Ups(q) ==
    /\ \A i \in DOMAIN q : q[i] = [link |-> q[i].link, add |-> TRUE]
    /\ \A i, j \in DOMAIN q : q[i].link = q[j].link => i = j

QueueInv ==
    /\ misreported = {}
    /\ Ups(change)
    /\ hist[seqno] \subseteq links
    /\ Queued(change) = links \ hist[seqno]

(* Such a queue says "added" of every link in it. *)
LEMMA UpsNet ==
    ASSUME NEW q \in Seq(Recs), Ups(q), NEW l \in Queued(q)
    PROVE  Net(q)[l] = TRUE
<1>1. PICK i \in DOMAIN q : q[i].link = l
  BY DEF Queued
<1>2. q[i] = [link |-> l, add |-> TRUE]
  BY <1>1 DEF Ups
<1>3. \A j \in DOMAIN q : j > i => q[j].link # l
  BY <1>1 DEF Ups
<1> QED
  BY <1>2, <1>3 DEF Net

(* append of a link that goes up or down: the record is added, and it      *)
(* decides for its link.                                                   *)
LEMMA UpsAppend ==
    ASSUME NEW q \in Seq(Recs), Ups(q), NEW l \in Links, NEW a \in BOOLEAN,
           a => l \notin Queued(q)
    PROVE  LET n == Enqueue(q, l, a)
           IN  /\ n \in Seq(Recs)
               /\ Queued(n) = Queued(q) \union {l}
               /\ Net(n)[l] = a
               /\ \A k \in Queued(q) \ {l} : Net(n)[k] = TRUE
               /\ a => Ups(n)
<1> DEFINE e == [link |-> l, add |-> a]
           n == Append(q, e)
<1>1. ~ \E i \in DOMAIN q : q[i] = e
  <2> SUFFICES ASSUME NEW i \in DOMAIN q, q[i] = e PROVE FALSE
    OBVIOUS
  <2>1. q[i].link = l /\ q[i].add = a
    OBVIOUS
  <2>2. l \in Queued(q)
    BY <2>1 DEF Queued
  <2>3. a = TRUE
    BY <2>1 DEF Ups
  <2> QED
    BY <2>2, <2>3
<1>2. Enqueue(q, l, a) = n
  BY <1>1 DEF Enqueue
<1>3. e \in Recs /\ e.link = l /\ e.add = a
  BY DEF Recs
<1> HIDE DEF e
<1>4. Len(q) \in Nat /\ DOMAIN q = 1 .. Len(q)
  OBVIOUS
<1>5. /\ n \in Seq(Recs) /\ DOMAIN n = 1 .. Len(q) + 1 /\ n[Len(q) + 1] = e
      /\ \A i \in DOMAIN q : i \in DOMAIN n /\ n[i] = q[i]
  BY <1>3, <1>4
<1> HIDE DEF n
<1>6. \A i \in DOMAIN n : i \in DOMAIN q \/ i = Len(q) + 1
  BY <1>4, <1>5
<1>7. Len(q) + 1 \in DOMAIN n /\ \A i \in DOMAIN q : i < Len(q) + 1
  BY <1>4, <1>5
<1>8. Queued(n) = Queued(q) \union {l}
  BY <1>3, <1>5, <1>6, <1>7 DEF Queued
<1>9. Net(n)[l] = a
  <2>1. Net(n)[l] = (\E i \in DOMAIN n : /\ n[i] = [link |-> l, add |-> TRUE]
                                        /\ \A j \in DOMAIN n : j > i => n[j].link # l)
    BY <1>8 DEF Net
  <2>2. CASE a
    <3>1. n[Len(q) + 1] = [link |-> l, add |-> TRUE]
      BY <1>5, <2>2 DEF e
    <3>2. \A j \in DOMAIN n : ~(j > Len(q) + 1)
      BY <1>4, <1>5
    <3> QED
      BY <1>7, <2>1, <2>2, <3>1, <3>2
  <2>3. CASE ~a
    <3>1. ASSUME NEW i \in DOMAIN n, n[i] = [link |-> l, add |-> TRUE],
                 \A j \in DOMAIN n : j > i => n[j].link # l
          PROVE  FALSE
      <4>1. CASE i = Len(q) + 1
        <5>1. e = [link |-> l, add |-> TRUE]
          BY <1>5, <3>1, <4>1
        <5>2. e.add = TRUE
          BY <5>1, Zenon
        <5> QED
          BY <1>3, <2>3, <5>2
      <4>2. CASE i \in DOMAIN q
        <5>1. Len(q) + 1 > i
          BY <1>4, <4>2
        <5> QED
          BY <1>3, <1>5, <1>7, <3>1, <5>1
      <4> QED
        BY <1>6, <4>1, <4>2
    <3> QED
      BY <2>1, <2>3, <3>1
  <2> QED
    BY <2>2, <2>3
<1>10. ASSUME NEW k \in Queued(q) \ {l} PROVE Net(n)[k] = TRUE
  <2>1. PICK i \in DOMAIN q : q[i].link = k
    BY DEF Queued
  <2>2. n[i] = [link |-> k, add |-> TRUE] /\ i \in DOMAIN n
    BY <1>5, <2>1 DEF Ups
  <2>3. \A j \in DOMAIN n : j > i => n[j].link # k
    <3> SUFFICES ASSUME NEW j \in DOMAIN n, j > i, n[j].link = k PROVE FALSE
      OBVIOUS
    <3>1. j # Len(q) + 1
      BY <1>3, <1>5
    <3>2. j \in DOMAIN q /\ q[j].link = k
      BY <1>5, <1>6, <3>1
    <3>3. j = i
      BY <2>1, <3>2 DEF Ups
    <3> QED
      BY <1>4, <2>1, <3>3
  <2>4. k \in Queued(n)
    BY <1>8
  <2> QED
    BY <2>2, <2>3, <2>4 DEF Net
<1>11. ASSUME a PROVE Ups(n)
  <2>1. \A i \in DOMAIN n : n[i] = [link |-> n[i].link, add |-> TRUE]
    <3> SUFFICES ASSUME NEW i \in DOMAIN n
                 PROVE  n[i] = [link |-> n[i].link, add |-> TRUE]
      OBVIOUS
    <3>1. CASE i = Len(q) + 1
      <4>1. n[i] = [link |-> l, add |-> TRUE] /\ n[i].link = l
        BY <1>3, <1>5, <1>11, <3>1 DEF e
      <4> QED
        BY <4>1
    <3>2. CASE i \in DOMAIN q
      BY <1>5, <3>2 DEF Ups
    <3> QED
      BY <1>6, <3>1, <3>2
  <2>2. \A i \in DOMAIN q : q[i].link # l
    BY <1>11 DEF Queued
  <2>3. \A i, j \in DOMAIN n : n[i].link = n[j].link => i = j
    BY <1>3, <1>5, <1>6, <2>2 DEF Ups
  <2> QED
    BY <2>1, <2>3 DEF Ups
<1> QED
  BY <1>2, <1>5, <1>8, <1>9, <1>10, <1>11

(* The links of the owner after one went up or down are what the queue     *)
(* leads to.                                                               *)
LEMMA NotWrong ==
    ASSUME TypeOK, QueueInv, NEW S \in SUBSET Links, NEW n \in Seq(Recs),
           NEW l, NEW a \in BOOLEAN,
           Queued(n) = Queued(change) \union {l}, Net(n)[l] = a,
           \A k \in Queued(change) \ {l} : Net(n)[k] = TRUE,
           S = IF a THEN links \union {l} ELSE links \ {l}
    PROVE  Wrong(S, n) = {}
<1>1. Net(n) \in RecLists /\ DOMAIN Net(n) = Queued(change) \union {l}
  BY NetType
<1>2. ASSUME NEW k \in Links
      PROVE  k \in S <=> k \in Apply(hist[seqno], Net(n))
  <2>1. k \in Apply(hist[seqno], Net(n)) <=>
          IF k \in Queued(change) \union {l} THEN Net(n)[k] ELSE k \in hist[seqno]
    BY <1>1, ApplyMember
  <2>2. CASE k = l
    BY <2>1, <2>2
  <2>3. CASE k # l
    BY <2>1, <2>3 DEF QueueInv
  <2> QED
    BY <2>2, <2>3
<1> QED
  BY <1>2 DEF Wrong

(* A step of the owner. *)
LEMMA QueueStep ==
    ASSUME ~Remaps, TypeOK, QueueInv, OwnerNext
    PROVE  QueueInv'
<1>1. /\ change \in Seq(Recs) /\ links \in SUBSET Links /\ seqno \in Nat
      /\ hist \in [0 .. seqno -> SUBSET Links] /\ misreported = {} /\ Ups(change)
      /\ hist[seqno] \subseteq links /\ Queued(change) = links \ hist[seqno]
  BY DEF TypeOK, QueueInv, Recs
<1>2. ASSUME NEW S \in SUBSET Links, NEW q, Flush(S, q), Wrong(S, q) = {}
      PROVE  QueueInv'
  <2>1. change' = << >> /\ links' = S /\ misreported' = {} /\ hist'[seqno'] = S
    BY <1>1, <1>2 DEF Flush
  <2>2. Ups(<< >>) /\ Queued(<< >>) = {}
    BY DEF Ups, Queued
  <2> QED
    BY <2>1, <2>2 DEF QueueInv
<1>3. ASSUME NEW l \in Links, NEW flush \in BOOLEAN, PushConnectedUserRoute(l, flush)
      PROVE  QueueInv'
  <2> DEFINE n == Enqueue(change, l, TRUE)
             S == links \union {l}
  <2>1. l \notin links /\ (Flush(S, n) \/ Requeue(S, n))
    BY <1>3 DEF PushConnectedUserRoute
  <2>2. l \notin Queued(change)
    BY <1>1, <2>1
  <2>3. /\ n \in Seq(Recs) /\ Queued(n) = Queued(change) \union {l}
        /\ Net(n)[l] = TRUE /\ \A k \in Queued(change) \ {l} : Net(n)[k] = TRUE
        /\ Ups(n)
    BY <1>1, <2>2, UpsAppend
  <2>4. S \in SUBSET Links
    BY <1>1
  <2> HIDE DEF n
  <2>5. Wrong(S, n) = {}
    BY <2>3, <2>4, NotWrong
  <2>6. CASE Flush(S, n)
    BY <1>2, <2>4, <2>5, <2>6
  <2>7. CASE Requeue(S, n)
    <3>1. /\ links' = S /\ change' = n /\ misreported' = {}
          /\ seqno' = seqno /\ hist' = hist
      BY <1>1, <2>5, <2>7 DEF Requeue
    <3>2. Queued(n) = S \ hist[seqno]
      BY <1>1, <2>1, <2>3
    <3> QED
      BY <1>1, <2>3, <3>1, <3>2 DEF QueueInv
  <2> QED
    BY <2>1, <2>6, <2>7
<1>4. ASSUME NEW l \in Links, PopUserRoute(l)
      PROVE  QueueInv'
  <2> DEFINE n == Enqueue(change, l, FALSE)
             S == links \ {l}
  <2>1. l \in links /\ Flush(S, n)
    BY <1>4 DEF PopUserRoute
  <2>2. /\ n \in Seq(Recs) /\ Queued(n) = Queued(change) \union {l}
        /\ Net(n)[l] = FALSE /\ \A k \in Queued(change) \ {l} : Net(n)[k] = TRUE
    BY <1>1, UpsAppend
  <2>3. S \in SUBSET Links
    BY <1>1
  <2> HIDE DEF n
  <2>4. Wrong(S, n) = {}
    BY <2>2, <2>3, NotWrong
  <2> QED
    BY <1>2, <2>1, <2>3, <2>4
<1>5. CASE SendAdjacencyChange
  <2>1. \A k \in Queued(change) : Net(change)[k] = TRUE
    BY <1>1, UpsNet
  <2>2. Net(change) \in RecLists /\ DOMAIN Net(change) = Queued(change)
    BY <1>1, NetType
  <2>3. Wrong(links, change) = {}
    BY <1>1, <2>1, <2>2, ApplyMember DEF Wrong
  <2> QED
    BY <1>1, <1>2, <1>5, <2>3 DEF SendAdjacencyChange
<1> QED
  BY <1>3, <1>4, <1>5 DEF OwnerNext, RemapUserRoute, UpdateCost

(* As long as no route is remapped and no cost is updated, no link is ever *)
(* announced in the wrong state, however the links go up and down between  *)
(* the messages.                                                           *)
THEOREM QueuesExact == Spec => []QueueExact
<1>1. CASE Remaps
  <2>1. QueueExact
    BY <1>1 DEF QueueExact
  <2> QED
    BY <2>1, PTL
<1>2. CASE ~Remaps
  <2>1. Init => QueueInv
    BY DEF Init, QueueInv, Ups, Queued
  <2>2. TypeOK /\ QueueInv /\ [Next]_vars => QueueInv'
    <3> SUFFICES ASSUME TypeOK, QueueInv, [Next]_vars PROVE QueueInv'
      OBVIOUS
    <3>1. CASE OwnerNext
      BY <1>2, <3>1, QueueStep
    <3>2. CASE UNCHANGED owner
      BY <3>2 DEF owner, QueueInv
    <3>3. ASSUME NEW r \in Replicas, NodeNext(r) PROVE UNCHANGED owner
      BY <3>3 DEF NodeNext, AddUser, AddAuthenticated, RecvByeUnknown,
                  PendingTimeout, RemoveOwner, AddOwner
    <3>4. ASSUME NEW r \in Replicas, SyncNext(r) PROVE UNCHANGED owner
      BY <3>4 DEF SyncNext, RecvAdjacencyChange, SyncRequest, DijkstraRequest,
                  RelayRequest, RequestTimeout
    <3>5. ASSUME NetworkNext PROVE UNCHANGED owner
      BY <3>5 DEF NetworkNext, OwnerRecvRequest, RelayReplyCopy, RelayReplyNone,
                  LoseRequest, RecvAdjacencyResult, LoseReply
    <3>6. UNCHANGED vars => UNCHANGED owner
      BY DEF vars
    <3> QED
      BY <3>1, <3>2, <3>3, <3>4, <3>5, <3>6 DEF Next
  <2>3. QueueInv => QueueExact
    BY DEF QueueInv, QueueExact
  <2> QED
    BY <2>1, <2>2, <2>3, TypeCorrect, PTL DEF Spec
<1> QED
  BY <1>1, <1>2
=============================================================================

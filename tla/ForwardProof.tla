----------------------------- MODULE ForwardProof -----------------------------
(***************************************************************************)
(* Proofs about AdjGraph and Forward for every set of graphs, orders and   *)
(* ranks.  Forward sets are shortest path trees (Optimal).  In a network   *)
(* of connections with two ends all nodes compute the same ones, messages  *)
(* follow one of them, and Forward implements Multicast.  If different     *)
(* links have different hashes, the routes of the nodes on the way agree   *)
(* (SameRoute) and no subscriber is left without the message (AllGiven).   *)
(***************************************************************************)
EXTENDS Forward, WellFoundedInduction, FiniteSetTheorems, TLAPS

(* A transport of a user has one other end *)
PointToPoint ==
    \A L \in Graphs : \A k, l \in L : k.a = l.a /\ k.tid = l.tid => k = l

(* What every turn of compute_forward_set keeps: nobody that was reached   *)
(* costs more than a user that was not, and the transport src of a user    *)
(* is one that the source forwards by                                      *)
Grown(s, t) ==
    /\ t \in Tree
    /\ OptimalTree(s, t)
    /\ \A u \in t.visit, e \in Edge(t) : t.cost[u] <= PathCost(t, e)
    /\ \A l \in t.fwd : l.a \in t.visit
    /\ \A u \in t.visit \ {s} : t.cost[u] > 0
    /\ \A u \in t.visit \ {s} : \E l \in t.fwd : l.a = s /\ l.tid = t.src[u]

GraphInv ==
    /\ links \in Graphs
    /\ uid \in [User -> Uids]
    /\ tree \in [User -> [User -> Tree]]
    /\ \A x, s \in User : Grown(s, tree[x][s])

-----------------------------------------------------------------------------
(* Choice of the links                                                     *)

(* A set of numbers that is not empty has a smallest one. *)
LEMMA Smallest ==
    ASSUME NEW S, S \subseteq Nat, S # {}
    PROVE  \E m \in S : \A n \in S : m <= n
<1>1. \E m \in S : \A n \in S : ~(<<n, m>> \in OpToRel(<, Nat))
    BY NatLessThanWellFounded, WFMin, Zenon
<1>2. PICK m \in S : \A n \in S : ~(<<n, m>> \in OpToRel(<, Nat))
    BY <1>1
<1>3. ASSUME NEW n \in S PROVE m <= n
    <2>1. m \in Nat /\ n \in Nat
        OBVIOUS
    <2>2. ~(n < m)
        BY <1>2, <2>1 DEF OpToRel
    <2> QED BY <2>1, <2>2
<1> QED BY <1>3

(* The graph is a finite set of links, and the ends of a link differ. *)
LEMMA GraphType ==
    ASSUME links \in Graphs
    PROVE  links \subseteq Link /\ IsFiniteSet(links) /\ \A l \in links : l.a # l.b
BY GraphAssumption

LEMMA ZeroIsNoUser == 0 \notin User
<1>1. N \in Nat
    BY GraphAssumption, Zenon
<1> QED BY <1>1 DEF User

(* The link that First takes is one of the set, and of the lowest rank. *)
LEMMA FirstIsIn ==
    ASSUME links \in Graphs, NEW x, NEW S, S \subseteq links, S # {}
    PROVE  LET num == [l \in links |-> link_num(x, l)]
           IN  /\ First(num, S) \in S
               /\ \A k \in S : Rank[num[First(num, S)]] <= Rank[num[k]]
<1> DEFINE num == [l \in links |-> link_num(x, l)]
           R == {Rank[num[l]] : l \in S}
<1>1. ASSUME NEW l \in S PROVE Rank[num[l]] \in Nat
    <2>1. num[l] = link_num(x, l)
        OBVIOUS
    <2> DEFINE B == {k \in links : Before(x, k, l)}
    <2>2. B \in SUBSET links /\ IsFiniteSet(links)
        BY GraphType
    <2>3. Cardinality(B) <= Cardinality(links) /\ IsFiniteSet(B)
        BY <2>2, FS_Subset
    <2>4. Cardinality(B) \in Nat /\ Cardinality(links) \in Nat
        BY <2>2, <2>3, FS_CardinalityType
    <2>5. Cardinality(B) \in 0 .. Cardinality(links)
        BY <2>3, <2>4
    <2>6. Rank[Cardinality(B)] \in Nat
        BY <2>5, GraphAssumption
    <2> QED BY <2>1, <2>6 DEF link_num
<1>2. R \subseteq Nat /\ R # {}
    BY <1>1
<1>3. PICK m \in R : \A n \in R : m <= n
    BY <1>2, Smallest
<1>4. PICK l \in S : m = Rank[num[l]]
    BY <1>3
<1>5. \A k \in S : Rank[num[l]] <= Rank[num[k]]
    BY <1>3, <1>4
<1> HIDE DEF num
<1>6. /\ First(num, S) \in S
      /\ \A k \in S : Rank[num[First(num, S)]] <= Rank[num[k]]
    BY <1>5 DEF First
<1> QED BY <1>6 DEF num

(* The links of a turn are of the edge and cost the least, and each user   *)
(* that such a link leads to gets the one of the lowest rank.              *)
LEMMA ChoiceIsBest ==
    ASSUME links \in Graphs, NEW x, NEW t
    PROVE  /\ Choice(x, t) \subseteq get_min_cost(t)
           /\ \A k, l \in Choice(x, t) : k.b = l.b => k = l
           /\ \A l \in Choice(x, t), k \in get_min_cost(t) :
                 k.b = l.b => Rank[link_num(x, l)] <= Rank[link_num(x, k)]
<1> DEFINE num == [l \in links |-> link_num(x, l)]
           best == get_min_cost(t)
           To(u) == {k \in best : k.b = u}
<1>1. best \subseteq links
    BY DEF get_min_cost, Edge
<1>2. ASSUME NEW u \in {l.b : l \in best}
      PROVE  /\ First(num, To(u)) \in To(u)
             /\ \A k \in To(u) : Rank[num[First(num, To(u))]] <= Rank[num[k]]
    <2>1. To(u) # {} /\ To(u) \subseteq links
        BY <1>1
    <2> HIDE DEF To
    <2> QED BY <2>1, FirstIsIn
<1>3. Choice(x, t) = {First(num, To(u)) : u \in {l.b : l \in best}}
    BY DEF Choice
<1> HIDE DEF num, best
<1>4. ASSUME NEW k \in Choice(x, t)
      PROVE  k \in best /\ k = First(num, To(k.b))
    <2>1. PICK u \in {l.b : l \in best} : k = First(num, To(u))
        BY <1>3
    <2>2. k \in To(u)
        BY <1>2, <2>1
    <2> QED BY <2>1, <2>2
<1>5. ASSUME NEW l \in Choice(x, t), NEW k \in best, k.b = l.b
      PROVE  Rank[link_num(x, l)] <= Rank[link_num(x, k)]
    <2>1. l \in best /\ l = First(num, To(l.b)) /\ k \in To(l.b)
        BY <1>4, <1>5
    <2>2. Rank[num[l]] <= Rank[num[k]]
        BY <1>2, <2>1
    <2> QED BY <1>1, <2>1, <2>2 DEF num
<1> QED BY <1>4, <1>5 DEF best

-----------------------------------------------------------------------------
(* One turn                                                                *)

(* The links that a turn adds *)
New(t, new) ==
    /\ new \subseteq get_min_cost(t)
    /\ \A k, l \in new : k.b = l.b => k = l

(* What a turn changes: the users that the new links lead to, at the one   *)
(* cost that all of the new links have.                                    *)
LEMMA AddFwdSet ==
    ASSUME links \in Graphs, NEW t \in Tree, NEW new, New(t, new)
    PROVE  LET r == add_fwd_set(t, new)
           IN  /\ r \in Tree
               /\ r.visit = t.visit \union {l.b : l \in new}
               /\ r.fwd = t.fwd \union new
               /\ \A u \in t.visit : r.cost[u] = t.cost[u] /\ r.src[u] = t.src[u]
               /\ \A l \in new : /\ l \in Edge(t)
                                 /\ r.cost[l.b] = PathCost(t, l)
                                 /\ r.src[l.b] = SrcLink(t, l)
               /\ \A l \in new, e \in Edge(t) : PathCost(t, l) <= PathCost(t, e)
<1> DEFINE r == add_fwd_set(t, new)
           Into(u) == {l \in new : l.b = u}
           The(u)  == CHOOSE l \in new : l.b = u
<1>1. new \subseteq Edge(t) /\ Edge(t) \subseteq links /\ links \subseteq Link
    BY GraphType DEF New, get_min_cost, Edge
<1>2. ASSUME NEW l \in new
      PROVE  The(l.b) = l /\ Into(l.b) # {}
    BY DEF New
<1>3. ASSUME NEW u \in t.visit PROVE Into(u) = {}
    BY <1>1 DEF Edge
<1>4. ASSUME NEW l \in Link PROVE PathCost(t, l) \in Nat /\ SrcLink(t, l) \in Nat
    BY DEF PathCost, SrcLink, Link, Tree
<1>5. ASSUME NEW u \in User, Into(u) # {} PROVE The(u) \in Link
    BY <1>1, <1>5
<1>6. t.visit \subseteq User
    BY DEF Tree
<1>7. /\ r.visit = t.visit \union {l.b : l \in new}
      /\ r.fwd = t.fwd \union new
      /\ r.cost = [u \in User |-> IF Into(u) # {} THEN PathCost(t, The(u))
                                                 ELSE t.cost[u]]
      /\ r.src = [u \in User |-> IF Into(u) # {} THEN SrcLink(t, The(u))
                                                ELSE t.src[u]]
      /\ r = [visit |-> r.visit, cost |-> r.cost, src |-> r.src, fwd |-> r.fwd]
    BY DEF add_fwd_set
<1>8. \A l \in new : l.b \in User
    BY <1>1 DEF Link
<1>9. r \in Tree
    <2>1. r.visit \in SUBSET User /\ r.fwd \in SUBSET Link
        BY <1>1, <1>7, <1>8 DEF Tree
    <2>2. r.cost \in [User -> Nat] /\ r.src \in [User -> Nat]
        <3> HIDE DEF Into, The, r
        <3>1. t.cost \in [User -> Nat] /\ t.src \in [User -> Nat]
            BY DEF Tree
        <3> QED BY <3>1, <1>4, <1>5, <1>7
    <2> HIDE DEF r
    <2> QED BY <1>7, <2>1, <2>2 DEF Tree
<1>10. \A u \in t.visit : r.cost[u] = t.cost[u] /\ r.src[u] = t.src[u]
    <2> HIDE DEF Into, The, r
    <2> QED BY <1>3, <1>6, <1>7
<1>11. \A l \in new : r.cost[l.b] = PathCost(t, l) /\ r.src[l.b] = SrcLink(t, l)
    <2> HIDE DEF Into, The, r
    <2> QED BY <1>2, <1>7, <1>8
<1>12. \A l \in new, e \in Edge(t) : PathCost(t, l) <= PathCost(t, e)
    BY DEF New, get_min_cost
<1> QED BY <1>1, <1>7, <1>9, <1>10, <1>11, <1>12

(* A turn of compute_forward_set keeps what Grown says. *)
LEMMA AddGrown ==
    ASSUME links \in Graphs, NEW s \in User, NEW t, Grown(s, t),
           NEW new, New(t, new), new # {}
    PROVE  Grown(s, add_fwd_set(t, new))
<1> DEFINE r == add_fwd_set(t, new)
<1>t. t \in Tree
    BY DEF Grown
<1>a. /\ r \in Tree
      /\ r.visit = t.visit \union {l.b : l \in new}
      /\ r.fwd = t.fwd \union new
      /\ \A u \in t.visit : r.cost[u] = t.cost[u] /\ r.src[u] = t.src[u]
      /\ \A l \in new : /\ l \in Edge(t)
                        /\ r.cost[l.b] = PathCost(t, l)
                        /\ r.src[l.b] = SrcLink(t, l)
      /\ \A l \in new, e \in Edge(t) : PathCost(t, l) <= PathCost(t, e)
    BY <1>t, AddFwdSet
<1> HIDE DEF r
<1>b. links \subseteq Link /\ Edge(t) \subseteq links
    BY GraphType DEF Edge
<1>c. PICK n \in new : TRUE
    OBVIOUS
<1> DEFINE m == PathCost(t, n)
<1>d. \A l \in Link : l.a \in User /\ l.b \in User /\ l.cost \in Nat /\ l.cost > 0
    BY DEF Link
<1>e. \A u \in User : t.cost[u] \in Nat /\ r.cost[u] \in Nat
    BY <1>t, <1>a DEF Tree
<1>f. \A l \in Link : PathCost(t, l) \in Nat /\ PathCost(r, l) \in Nat
    BY <1>d, <1>e DEF PathCost
<1>g. n \in Link /\ m \in Nat
    BY <1>a, <1>b, <1>f
(* all of the new users cost m, the others no more *)
<1>h. ASSUME NEW l \in new PROVE r.cost[l.b] = m /\ l.a \in t.visit /\ l.b \notin t.visit
    <2>1. PathCost(t, l) <= m /\ m <= PathCost(t, l) /\ l \in Link
        BY <1>a, <1>b
    <2> QED BY <1>a, <1>f, <1>g, <2>1 DEF Edge
<1>i. ASSUME NEW u \in r.visit PROVE r.cost[u] <= m /\ u \in User
    <2>1. CASE u \in t.visit
        BY <2>1, <1>a, <1>t DEF Grown, Tree
    <2>2. CASE u \notin t.visit
        <3>1. PICK l \in new : u = l.b
            BY <2>2, <1>a
        <3> QED BY <3>1, <1>h, <1>g, <1>a, <1>b, <1>d
    <2> QED BY <2>1, <2>2
<1>j. ASSUME NEW u \in r.visit \ t.visit PROVE \E l \in new : l.b = u
    BY <1>a
<1>k. ASSUME NEW u \in r.visit \ t.visit PROVE r.cost[u] = m
    BY <1>h, <1>j
<1>1. OptimalTree(s, r)
    <2>1. s \in r.visit /\ r.cost[s] = 0 /\ s \in t.visit
        BY <1>a DEF Grown, OptimalTree
    <2>2. ASSUME NEW u \in r.visit \ {s}
          PROVE  \E l \in r.fwd :
                    /\ l.b = u /\ l.a \in r.visit
                    /\ r.cost[u] = PathCost(r, l)
                    /\ \A k \in r.fwd : k.b = u => k = l
        <3>1. CASE u \in t.visit
            <4>1. PICK l \in t.fwd : /\ l.b = u /\ l.a \in t.visit
                                     /\ t.cost[u] = PathCost(t, l)
                                     /\ \A k \in t.fwd : k.b = u => k = l
                BY <3>1 DEF Grown, OptimalTree
            <4>2. \A k \in new : k.b # u
                BY <3>1, <1>h
            <4>3. r.cost[u] = PathCost(r, l)
                BY <3>1, <4>1, <1>a DEF PathCost
            <4> QED BY <4>1, <4>2, <4>3, <1>a
        <3>2. CASE u \notin t.visit
            <4>1. PICK l \in new : l.b = u
                BY <3>2, <1>j
            <4>2. \A k \in t.fwd : k.b # u
                BY <3>2 DEF Grown, OptimalTree
            <4>3. r.cost[u] = PathCost(r, l) /\ l.a \in r.visit
                BY <4>1, <1>a, <1>h DEF PathCost
            <4>4. \A k \in r.fwd : k.b = u => k = l
                BY <4>1, <4>2, <1>a DEF New
            <4> QED BY <4>1, <4>3, <4>4, <1>a
        <3> QED BY <3>1, <3>2
    <2>3. ASSUME NEW l \in r.fwd PROVE l \in links /\ l.b \in r.visit \ {s}
        <3>1. CASE l \in t.fwd
            BY <3>1, <1>a DEF Grown, OptimalTree
        <3>2. CASE l \in new
            BY <3>2, <2>1, <1>a, <1>b, <1>h
        <3> QED BY <3>1, <3>2, <1>a
    <2>4. ASSUME NEW l \in links, l.a \in r.visit, l.b \in r.visit
          PROVE  r.cost[l.b] <= PathCost(r, l)
        <3>0. l \in Link /\ PathCost(r, l) = r.cost[l.a] + l.cost
            BY <1>b DEF PathCost
        <3>1. CASE l.a \in t.visit /\ l.b \in t.visit
            BY <3>1, <1>a DEF Grown, OptimalTree, PathCost
        <3>2. CASE l.a \in t.visit /\ l.b \notin t.visit
            <4>1. l \in Edge(t) /\ PathCost(r, l) = PathCost(t, l)
                BY <3>2, <1>a DEF Edge, PathCost
            <4> QED BY <4>1, <2>4, <3>2, <1>a, <1>k
        <3>3. CASE l.a \notin t.visit
            <4>1. r.cost[l.a] = m /\ r.cost[l.b] <= m
                BY <3>3, <2>4, <1>i, <1>k
            <4>2. r.cost[l.b] \in Nat /\ l.cost \in Nat
                BY <3>0, <1>d, <1>e
            <4> HIDE DEF m
            <4> QED BY <3>0, <4>1, <4>2, <1>g
        <3> QED BY <3>1, <3>2, <3>3
    <2> QED BY <2>1, <2>2, <2>3, <2>4 DEF OptimalTree
<1>2. ASSUME NEW u \in r.visit, NEW e \in Edge(r) PROVE r.cost[u] <= PathCost(r, e)
    <2>0. /\ e \in links /\ e.a \in r.visit /\ e.b \notin r.visit
          /\ e \in Link /\ PathCost(r, e) = r.cost[e.a] + e.cost
        BY <1>b DEF Edge, PathCost
    <2>1. r.cost[u] <= m /\ r.cost[u] \in Nat /\ e.cost \in Nat
        BY <2>0, <1>d, <1>e, <1>i
    <2>2. CASE e.a \in t.visit
        <3>1. e \in Edge(t) /\ PathCost(r, e) = PathCost(t, e)
            BY <2>0, <2>2, <1>a DEF Edge, PathCost
        <3>2. m <= PathCost(r, e) /\ PathCost(r, e) \in Nat
            BY <2>0, <3>1, <1>a, <1>f
        <3> HIDE DEF m
        <3> QED BY <2>1, <3>2, <1>g
    <2>3. CASE e.a \notin t.visit
        <3>1. r.cost[e.a] = m
            BY <2>0, <2>3, <1>k
        <3> HIDE DEF m
        <3> QED BY <2>0, <2>1, <3>1, <1>g
    <2> QED BY <2>2, <2>3
<1>3. \A l \in r.fwd : l.a \in r.visit
    BY <1>a, <1>h DEF Grown
<1>4. ASSUME NEW u \in r.visit \ {s} PROVE r.cost[u] > 0
    <2>1. CASE u \in t.visit
        BY <2>1, <1>a DEF Grown
    <2>2. CASE u \notin t.visit
        <3>1. n.cost \in Nat /\ n.cost > 0 /\ t.cost[n.a] \in Nat
            BY <1>d, <1>e, <1>g
        <3>2. m > 0
            BY <3>1 DEF PathCost
        <3> QED BY <2>2, <3>2, <1>k
    <2> QED BY <2>1, <2>2
<1>5. ASSUME NEW u \in r.visit \ {s}
      PROVE  \E l \in r.fwd : l.a = s /\ l.tid = r.src[u]
    <2>1. CASE u \in t.visit
        BY <2>1, <1>a DEF Grown
    <2>2. CASE u \notin t.visit
        <3>1. PICK l \in new : l.b = u
            BY <2>2, <1>j
        <3>2. l \in r.fwd /\ r.src[u] = SrcLink(t, l) /\ l.a \in t.visit
            BY <3>1, <1>a, <1>h
        <3>3. CASE l.a = s
            <4>1. t.cost[s] = 0
                BY DEF Grown, OptimalTree
            <4> QED BY <3>2, <3>3, <4>1 DEF SrcLink
        <3>4. CASE l.a # s
            <4>1. t.cost[l.a] > 0 /\ \E k \in t.fwd : k.a = s /\ k.tid = t.src[l.a]
                BY <3>2, <3>4 DEF Grown
            <4>2. t.cost[l.a] # 0
                BY <4>1, <3>2, <1>t, <1>e DEF Tree
            <4> QED BY <3>2, <4>1, <4>2, <1>a DEF SrcLink
        <3> QED BY <3>3, <3>4
    <2> QED BY <2>1, <2>2
<1>6. Grown(s, r)
    BY <1>a, <1>1, <1>2, <1>3, <1>4, <1>5 DEF Grown
<1> QED BY <1>6 DEF r

(* There is a best link while there is one to a user not reached. *)
LEMMA ChoiceNotEmpty ==
    ASSUME links \in Graphs, NEW x, NEW t \in Tree, Edge(t) # {}
    PROVE  Choice(x, t) # {}
<1> DEFINE C == {PathCost(t, l) : l \in Edge(t)}
<1>1. ASSUME NEW l \in Edge(t) PROVE PathCost(t, l) \in Nat
    <2>1. l \in Link
        BY GraphType DEF Edge
    <2> QED BY <2>1 DEF PathCost, Link, Tree
<1>2. C \subseteq Nat /\ C # {}
    BY <1>1
<1>3. PICK c \in C : \A d \in C : c <= d
    BY <1>2, Smallest
<1>4. PICK l \in Edge(t) : c = PathCost(t, l)
    BY <1>3
<1>5. l \in get_min_cost(t)
    BY <1>3, <1>4 DEF get_min_cost
<1> DEFINE num  == [k \in links |-> link_num(x, k)]
           best == get_min_cost(t)
           Pick(u) == First(num, {k \in best : k.b = u})
<1>6. Choice(x, t) = {Pick(u) : u \in {k.b : k \in best}}
    BY DEF Choice
<1>7. l.b \in {k.b : k \in best}
    BY <1>5
<1> HIDE DEF Pick, best
<1>8. Pick(l.b) \in Choice(x, t)
    BY <1>6, <1>7
<1> QED BY <1>8

(* A turn for one node and one source. *)
LEMMA TurnGrown ==
    ASSUME links \in Graphs, NEW x, NEW s \in User, NEW t, Grown(s, t)
    PROVE  Grown(s, Turn(x, t))
<1>1. CASE Edge(t) = {}
    BY <1>1 DEF Turn
<1>2. CASE Edge(t) # {}
    <2>1. New(t, Choice(x, t))
        BY ChoiceIsBest DEF New
    <2>2. Choice(x, t) # {}
        BY <1>2, ChoiceNotEmpty DEF Grown
    <2>3. Grown(s, add_fwd_set(t, Choice(x, t)))
        BY <2>1, <2>2, AddGrown
    <2> QED BY <1>2, <2>3 DEF Turn
<1> QED BY <1>1, <1>2

(* The set that a source starts with. *)
LEMMA StartGrown ==
    ASSUME links \in Graphs, NEW s \in User
    PROVE  Grown(s, Start(s))
<1> DEFINE t == Start(s)
<1>1. /\ t.visit = {s} /\ t.fwd = {} /\ t.cost = [u \in User |-> 0]
      /\ t \in Tree
    BY DEF Start, Tree
<1>2. ASSUME NEW l \in links
      PROVE  l \in Link /\ l.a # l.b /\ l.cost \in Nat /\ l.a \in User
    BY GraphType DEF Link
<1> HIDE DEF t
<1>3. OptimalTree(s, t)
    BY <1>1, <1>2 DEF OptimalTree
<1>4. ASSUME NEW u \in t.visit, NEW e \in Edge(t) PROVE t.cost[u] <= PathCost(t, e)
    BY <1>1, <1>2 DEF Edge, PathCost
<1>5. Grown(s, t)
    BY <1>1, <1>3, <1>4 DEF Grown
<1> QED BY <1>5 DEF t

-----------------------------------------------------------------------------
(* The graph in a behaviour                                                *)

LEMMA GraphInvInit ==
    ASSUME GraphInit
    PROVE  GraphInv
<1>1. ASSUME NEW x \in User, NEW s \in User
      PROVE  Grown(s, tree[x][s]) /\ tree[x][s] = Start(s)
    BY StartGrown DEF GraphInit
<1>2. \A s \in User : Start(s) \in Tree
    BY <1>1 DEF Grown
<1> QED BY <1>1, <1>2 DEF GraphInit, GraphInv

LEMMA GraphInvStep ==
    ASSUME GraphInv, compute_forward_set
    PROVE  GraphInv'
<1>1. links' = links /\ uid' = uid
    BY DEF compute_forward_set
<1>2. ASSUME NEW x \in User, NEW s \in User
      PROVE  Grown(s, tree'[x][s])
    <2>1. tree'[x][s] = Turn(x, tree[x][s])
        BY DEF compute_forward_set
    <2> QED BY <2>1, TurnGrown DEF GraphInv
<1>3. tree' \in [User -> [User -> Tree]]
    <2>1. \A x, s \in User : tree'[x][s] \in Tree
        BY <1>2 DEF Grown
    <2>2. tree' = [x \in User |-> [s \in User |-> tree'[x][s]]]
        BY DEF compute_forward_set
    <2> QED BY <2>1, <2>2
<1>4. ASSUME NEW x \in User, NEW s \in User
      PROVE  Grown(s, tree[x][s])'
    BY <1>1, <1>2 DEF Grown, OptimalTree, Edge, PathCost
<1> QED BY <1>1, <1>3, <1>4 DEF GraphInv

LEMMA GraphInvSame ==
    ASSUME GraphInv, UNCHANGED <<links, uid, tree>>
    PROVE  GraphInv'
BY DEF GraphInv, Grown, OptimalTree, Edge, PathCost

(* GraphInv holds in every state. *)
LEMMA GraphInvariant == Spec => []GraphInv
<1>1. Init => GraphInv
    BY GraphInvInit DEF Init
<1>2. GraphInv /\ [Next]_vars => GraphInv'
    <2> SUFFICES ASSUME GraphInv, [Next]_vars PROVE GraphInv'
        OBVIOUS
    <2>1. CASE compute_forward_set
        BY <2>1, GraphInvStep
    <2>2. CASE UNCHANGED <<links, uid, tree>>
        BY <2>2, GraphInvSame
    <2> QED BY <2>1, <2>2 DEF Next, vars, publish, on_msg
<1> QED BY <1>1, <1>2, PTL DEF Spec

(* Forward sets are shortest path trees: AdjGraph::compute_forward_set.    *)
THEOREM ForwardSetsOptimal == Spec => []Optimal
<1>1. GraphInv => Optimal
    BY DEF GraphInv, Grown, Optimal
<1> QED BY <1>1, GraphInvariant, PTL

-----------------------------------------------------------------------------
(* Connections with two ends                                               *)

(* All nodes have the same forward set for a source *)
Same == \A x, y, s \in User : tree[x][s] = tree[y][s]

(* The number of a link does not depend on the node. *)
LEMMA SameNumber ==
    ASSUME PointToPoint, links \in Graphs, uid \in [User -> Uids],
           NEW x \in User, NEW y \in User
    PROVE  [l \in links |-> link_num(x, l)] = [l \in links |-> link_num(y, l)]
<1>1. ASSUME NEW k \in links, NEW l \in links
      PROVE  Before(x, k, l) <=> Before(y, k, l)
    <2>1. CASE k.a = l.a /\ k.tid = l.tid
        <3>1. k = l
            BY <2>1 DEF PointToPoint
        <3>2. uid[x][k.b] \in Nat /\ uid[y][k.b] \in Nat
            <4>1. uid[x] \in Uids /\ uid[y] \in Uids
                OBVIOUS
            <4>2. uid[x] \in [User -> Nat] /\ uid[y] \in [User -> Nat]
                BY <4>1, GraphAssumption, Zenon
            <4>3. k.b \in User
                BY GraphType DEF Link
            <4> QED BY <4>2, <4>3
        <3>3. ~(uid[x][k.b] < uid[x][l.b]) /\ ~(uid[y][k.b] < uid[y][l.b])
            BY <3>1, <3>2
        <3> QED BY <3>3 DEF Before
    <2>2. CASE ~(k.a = l.a /\ k.tid = l.tid)
        BY <2>2 DEF Before
    <2> QED BY <2>1, <2>2
<1>2. ASSUME NEW l \in links
      PROVE  {k \in links : Before(x, k, l)} = {k \in links : Before(y, k, l)}
    BY <1>1
<1>3. \A l \in links : link_num(x, l) = link_num(y, l)
    BY <1>2 DEF link_num
<1> QED BY <1>3

(* Nor does a turn. *)
LEMMA SameTurn ==
    ASSUME PointToPoint, links \in Graphs, uid \in [User -> Uids],
           NEW x \in User, NEW y \in User, NEW t
    PROVE  Turn(x, t) = Turn(y, t)
<1>1. Choice(x, t) = Choice(y, t)
    BY SameNumber DEF Choice
<1> QED BY <1>1 DEF Turn

(* The message follows the forward set F of its source: a link that        *)
(* carries it comes from a user that has it and leads to one that has not, *)
(* and a user that has it got it from one that has it                      *)
Follows(F) ==
    /\ \A u \in User : recv[u] <= 1
    /\ recv[source] = 1
    /\ \A l \in way : l \in F /\ recv[l.a] = 1 /\ recv[l.b] = 0
    /\ \A u \in User \ {source} : recv[u] = 1 =>
          \E k \in F : k.b = u /\ recv[k.a] = 1

IndInv ==
    /\ TypeOK
    /\ GraphInv
    /\ Same
    /\ source = 0 => way = {} /\ recv = [u \in User |-> 0]
    /\ source # 0 => Computed /\ Follows(tree[source][source].fwd)

LEMMA IndInvInit ==
    ASSUME Init
    PROVE  IndInv
<1>1. GraphInv
    BY GraphInvInit DEF Init
<1>2. TypeOK
    BY <1>1, GraphType DEF Init, GraphInit, GraphInv, TypeOK, GraphTypeOK
<1>3. Same
    BY DEF Init, GraphInit, Same
<1> QED BY <1>1, <1>2, <1>3 DEF Init, IndInv

LEMMA ComputeStep ==
    ASSUME PointToPoint, IndInv, compute_forward_set,
           UNCHANGED <<source, sub, way, recv>>
    PROVE  IndInv'
<1>1. GraphInv'
    BY GraphInvStep DEF IndInv
<1>2. source = 0
    BY DEF IndInv, Computed, compute_forward_set
<1>3. Same'
    <2> SUFFICES ASSUME NEW x \in User, NEW y \in User, NEW s \in User
                 PROVE  tree'[x][s] = tree'[y][s]
        BY DEF Same
    <2>1. tree'[x][s] = Turn(x, tree[x][s]) /\ tree'[y][s] = Turn(y, tree[y][s])
        BY DEF compute_forward_set
    <2>2. tree[x][s] = tree[y][s]
        BY DEF IndInv, Same
    <2> QED BY <2>1, <2>2, SameTurn DEF IndInv, GraphInv
<1>4. TypeOK'
    BY <1>1 DEF IndInv, TypeOK, GraphTypeOK, GraphInv, compute_forward_set
<1> QED BY <1>1, <1>2, <1>3, <1>4 DEF IndInv

(* A transport of the forward set leads to the other end of its link. *)
LEMMA ForwardInSet ==
    ASSUME PointToPoint, links \in Graphs, NEW F \in SUBSET links,
           NEW u, NEW S, NEW subs,
           \A c \in S : \E k \in F : k.a = u /\ k.tid = c
    PROVE  forward(u, S, subs) \subseteq {l \in F : l.a = u}
<1> SUFFICES ASSUME NEW l \in forward(u, S, subs) PROVE l \in F /\ l.a = u
    OBVIOUS
<1>1. l \in links /\ l.a = u /\ l.tid \in S
    BY DEF forward
<1>2. PICK k \in F : k.a = u /\ k.tid = l.tid
    BY <1>1
<1>3. k = l
    BY <1>1, <1>2 DEF PointToPoint
<1> QED BY <1>1, <1>2, <1>3

LEMMA PublishStep ==
    ASSUME PointToPoint, IndInv, NEW s \in User, NEW S \in Subs, publish(s, S)
    PROVE  IndInv'
<1> DEFINE F == tree[s][s].fwd
<1>1. GraphInv'
    BY GraphInvSame DEF IndInv, publish
<1>2. Same' /\ Computed'
    BY DEF IndInv, Same, publish, Computed, Edge
<1>3. way = {} /\ recv = [u \in User |-> 0] /\ s # 0
    BY ZeroIsNoUser DEF IndInv, publish
<1>4. Grown(s, tree[s][s])
    BY DEF IndInv, GraphInv
<1>5. F \in SUBSET links /\ \A l \in F : l.b # s
    BY <1>4 DEF Grown, OptimalTree
<1>6. \A c \in calc_path(s) : \E k \in F : k.a = s /\ k.tid = c
    BY <1>4 DEF calc_path, Grown
<1>7. forward(s, calc_path(s), S) \subseteq {l \in F : l.a = s}
    BY <1>5, <1>6, ForwardInSet DEF IndInv, GraphInv
<1>8. recv' = [u \in User |-> IF u = s THEN 1 ELSE 0]
    BY <1>3 DEF publish
<1>9. TypeOK'
    <2>1. recv' \in [User -> Nat]
        BY <1>8
    <2> QED BY <2>1, <1>5, <1>7 DEF IndInv, TypeOK, GraphTypeOK, publish
<1>10. \A l \in way' : l \in F /\ l.a = s /\ l.b # s /\ l.b \in User
    BY <1>5, <1>7 DEF publish, IndInv, TypeOK, GraphTypeOK, Link
<1>11. Follows(tree[source][source].fwd)'
    <2>1. source' = s /\ tree'[s][s].fwd = F
        BY DEF publish
    <2> HIDE DEF F
    <2> QED BY <2>1, <1>8, <1>10 DEF Follows
<1> QED BY <1>1, <1>2, <1>3, <1>9, <1>11 DEF IndInv, publish

LEMMA OnMsgStep ==
    ASSUME PointToPoint, IndInv, NEW l \in way, on_msg(l)
    PROVE  IndInv'
<1> DEFINE F == tree[source][source].fwd
           u == l.b
<1>1. source \in User /\ Computed /\ Follows(F)
    BY DEF IndInv, TypeOK
<1>2. GraphInv'
    BY GraphInvSame DEF IndInv, on_msg
<1>3. Same' /\ Computed'
    BY <1>1 DEF IndInv, Same, on_msg, Computed, Edge
<1>4. Grown(source, tree[source][source])
    BY <1>1 DEF IndInv, GraphInv
<1>5. /\ F \in SUBSET links
      /\ \A k \in F : k.b # source /\ k.a \in User /\ k.b \in User
      /\ \A k, m \in F : k.b = m.b => k = m
    <2>1. F \in SUBSET links /\ \A k \in F : k.b \in tree[source][source].visit \ {source}
        BY <1>4 DEF Grown, OptimalTree
    <2>2. \A k \in F : k.a \in User /\ k.b \in User
        BY <2>1 DEF IndInv, TypeOK, GraphTypeOK, Link
    <2>3. \A k, m \in F : k.b = m.b => k = m
        BY <2>1, <1>4 DEF Grown, OptimalTree
    <2> QED BY <2>1, <2>2, <2>3
<1>6. l \in F /\ recv[l.a] = 1 /\ recv[u] = 0
    BY <1>1 DEF Follows
<1>7. u \in User /\ u # source /\ l.a \in User /\ l.a # u
    BY <1>5, <1>6
<1>8. Onward(l) \subseteq {k \in F : k.a = u}
    <2>1. tree[u][source].fwd = F
        BY <1>1, <1>7 DEF IndInv, Same
    <2>2. \A c \in calc_source_path(u) \ {l.tid} : \E k \in F : k.a = u /\ k.tid = c
        BY <2>1 DEF calc_source_path
    <2>3. forward(u, calc_source_path(u) \ {l.tid}, sub) \subseteq {k \in F : k.a = u}
        BY <2>2, <1>5, ForwardInSet DEF IndInv, GraphInv
    <2> QED BY <2>3, <1>6 DEF Onward
<1>9. recv' = [w \in User |-> IF w = u THEN 1 ELSE recv[w]]
    <2>1. recv \in [User -> Nat]
        BY DEF IndInv, TypeOK
    <2>2. recv' = [recv EXCEPT ![u] = recv[u] + 1]
        BY DEF on_msg
    <2>3. recv[u] + 1 = 1
        BY <1>6
    <2> HIDE DEF u
    <2> QED BY <2>1, <2>2, <2>3, <1>7
<1>10. way' = (way \ {l}) \union Onward(l)
    BY DEF on_msg
<1>11. TypeOK'
    <2>1. recv' \in [User -> Nat]
        BY <1>9 DEF IndInv, TypeOK
    <2>2. way' \subseteq links
        BY <1>5, <1>8, <1>10 DEF IndInv, TypeOK
    <2> QED BY <2>1, <2>2 DEF IndInv, TypeOK, GraphTypeOK, on_msg
<1>12. Follows(F)'
    <2>0. source' = source /\ F' = F
        BY DEF on_msg
    <2>1. \A w \in User : recv'[w] <= 1
        BY <1>1, <1>9 DEF Follows
    <2>2. recv'[source] = 1
        BY <1>1, <1>7, <1>9 DEF Follows
    <2>3. ASSUME NEW k \in way' PROVE k \in F /\ recv'[k.a] = 1 /\ recv'[k.b] = 0
        <3>1. CASE k \in way \ {l}
            <4>1. k \in F /\ recv[k.a] = 1 /\ recv[k.b] = 0
                BY <3>1, <1>1 DEF Follows
            <4>2. k.b # u /\ k.a # u /\ k.a \in User /\ k.b \in User
                BY <3>1, <4>1, <1>5, <1>6
            <4> QED BY <4>1, <4>2, <1>9
        <3>2. CASE k \in Onward(l)
            <4>1. k \in F /\ k.a = u /\ k.b \in User /\ k.b # source
                BY <3>2, <1>5, <1>8
            <4>2. k.b # u
                BY <4>1, <1>5, GraphType DEF IndInv, GraphInv
            <4>3. recv[k.b] = 0
                <5>1. recv[k.b] # 1
                    BY <4>1, <1>1, <1>5, <1>6 DEF Follows
                <5>2. recv[k.b] \in Nat /\ recv[k.b] <= 1
                    BY <4>1, <1>1 DEF Follows, IndInv, TypeOK
                <5> QED BY <5>1, <5>2
            <4> QED BY <4>1, <4>2, <4>3, <1>7, <1>9
        <3> QED BY <3>1, <3>2, <1>10
    <2>4. ASSUME NEW w \in User \ {source}, recv'[w] = 1
          PROVE  \E k \in F : k.b = w /\ recv'[k.a] = 1
        <3>1. CASE w = u
            BY <3>1, <1>6, <1>7, <1>9
        <3>2. CASE w # u
            <4>1. PICK k \in F : k.b = w /\ recv[k.a] = 1
                BY <2>4, <3>2, <1>1, <1>9 DEF Follows
            <4> QED BY <4>1, <1>5, <1>9
        <3> QED BY <3>1, <3>2
    <2> HIDE DEF F
    <2> QED BY <2>0, <2>1, <2>2, <2>3, <2>4 DEF Follows
<1>13. source' = source /\ source # 0
    BY <1>1, ZeroIsNoUser DEF on_msg
<1> QED BY <1>2, <1>3, <1>11, <1>12, <1>13 DEF IndInv

(* IndInv holds in every state. *)
LEMMA Invariant ==
    ASSUME PointToPoint
    PROVE  Spec => []IndInv
<1>1. Init => IndInv
    BY IndInvInit
<1>2. IndInv /\ [Next]_vars => IndInv'
    <2> SUFFICES ASSUME IndInv, [Next]_vars PROVE IndInv'
        OBVIOUS
    <2>1. CASE compute_forward_set /\ UNCHANGED <<source, sub, way, recv>>
        BY <2>1, ComputeStep
    <2>2. CASE \E s \in User, S \in Subs : publish(s, S)
        BY <2>2, PublishStep
    <2>3. CASE \E l \in way : on_msg(l)
        BY <2>3, OnMsgStep
    <2>4. CASE UNCHANGED vars
        <3>1. GraphInv'
            BY <2>4, GraphInvSame DEF IndInv, vars
        <3> QED BY <2>4, <3>1 DEF vars, IndInv, TypeOK, GraphTypeOK, Same,
                                  Computed, Edge, Follows
    <2> QED BY <2>1, <2>2, <2>3, <2>4 DEF Next
<1> QED BY <1>1, <1>2, PTL DEF Spec

(* State variables keep their types, in a network of connections with two  *)
(* ends.                                                                   *)
THEOREM ForwardTypes ==
    ASSUME PointToPoint
    PROVE  Spec => []TypeOK
<1>1. IndInv => TypeOK
    BY DEF IndInv
<1> QED BY <1>1, Invariant, PTL

(* No node receives a message twice: TransportRoute::on_msg sends it on by *)
(* the transports of one forward set, which leads to each user once.       *)
THEOREM ReceivedAtMostOnce ==
    ASSUME PointToPoint
    PROVE  Spec => []AtMostOnce
<1>1. IndInv => AtMostOnce
    BY DEF IndInv, AtMostOnce, Follows
<1> QED BY <1>1, Invariant, PTL

-----------------------------------------------------------------------------
(* Refinement                                                              *)

(* The state of Multicast *)
Want  == IF source = 0 THEN {}
         ELSE (sub \intersect tree[source][source].visit) \ {source}
Given == [u \in User |-> IF u \in sub \ {source} THEN recv[u] ELSE 0]

LEMMA PublishMaps ==
    ASSUME PointToPoint, IndInv, NEW s \in User, NEW S \in Subs, publish(s, S)
    PROVE  M!Publish
<1>1. source = 0 /\ source' = s /\ recv = [u \in User |-> 0]
    BY DEF publish, IndInv
<1>2. recv' = [u \in User |-> IF u = s THEN 1 ELSE 0]
    BY <1>1 DEF publish
<1>3. Given = [u \in User |-> 0] /\ Given' = [u \in User |-> 0]
    BY <1>1, <1>2 DEF Given
<1>4. Want = {} /\ Want' \in SUBSET User
    <2>1. S \subseteq User
        BY SubsAssumption
    <2> QED BY <1>1, <2>1 DEF Want, publish
<1> QED BY <1>3, <1>4 DEF M!Publish, Want, Given

LEMMA OnMsgMaps ==
    ASSUME PointToPoint, IndInv, NEW l \in way, on_msg(l)
    PROVE  M!Next \/ UNCHANGED <<Want, Given>>
<1> DEFINE u == l.b
<1>1. source \in User /\ source # 0 /\ Follows(tree[source][source].fwd)
    BY ZeroIsNoUser DEF IndInv, TypeOK
<1>2. /\ recv[u] = 0 /\ u \in User /\ u # source
      /\ u \in tree[source][source].visit
    <2>1. Grown(source, tree[source][source])
        BY <1>1 DEF IndInv, GraphInv
    <2> QED BY <1>1, <2>1 DEF Follows, Grown, OptimalTree, Tree
<1>3. UNCHANGED Want
    BY DEF on_msg, Want
<1>4. recv' = [recv EXCEPT ![u] = 1] /\ recv \in [User -> Nat]
    BY <1>2 DEF on_msg, IndInv, TypeOK
<1> HIDE DEF u
<1>5. CASE u \in sub
    <2>1. u \in Want /\ Given[u] = 0
        BY <1>1, <1>2, <1>5 DEF Want, Given
    <2>2. Given' = [Given EXCEPT ![u] = 1]
        BY <1>2, <1>4, <1>5 DEF Given, on_msg
    <2>3. M!Deliver(u)
        BY <2>1, <2>2, <1>3 DEF M!Deliver, Want, Given
    <2> QED BY <2>3, <1>2 DEF M!Next
<1>6. CASE u \notin sub
    <2>1. Given' = Given
        BY <1>2, <1>4, <1>6 DEF Given, on_msg
    <2> QED BY <2>1, <1>3
<1> QED BY <1>5, <1>6

(* Forwarding implements Multicast: a message goes to the subscribers that *)
(* the publisher is connected to, and to each one time.                    *)
THEOREM ForwardImplementsMulticast ==
    ASSUME PointToPoint
    PROVE  Spec => Promise
<1>1. Init => M!Init
    BY DEF Init, M!Init
<1>2. IndInv /\ [Next]_vars => [M!Next]_<<Want, Given>>
    <2> SUFFICES ASSUME IndInv, [Next]_vars PROVE [M!Next]_<<Want, Given>>
        OBVIOUS
    <2>1. CASE compute_forward_set /\ UNCHANGED <<source, sub, way, recv>>
        <3>1. source = 0
            BY <2>1 DEF IndInv, Computed, compute_forward_set
        <3> QED BY <2>1, <3>1 DEF Want, Given
    <2>2. CASE \E s \in User, S \in Subs : publish(s, S)
        BY <2>2, PublishMaps DEF M!Next
    <2>3. CASE \E l \in way : on_msg(l)
        BY <2>3, OnMsgMaps
    <2>4. CASE UNCHANGED vars
        BY <2>4 DEF vars, Want, Given
    <2> QED BY <2>1, <2>2, <2>3, <2>4 DEF Next
<1>3. [M!Next]_<<Want, Given>> <=> [M!Next]_(M!vars)
    BY DEF M!vars, Want, Given
<1> QED BY <1>1, <1>2, <1>3, Invariant, PTL DEF Spec, Promise, M!Spec

-----------------------------------------------------------------------------
(* Routes                                                                  *)

(* Different links have different hashes on a path *)
RanksDiffer ==
    \A L \in Graphs : \A m, n \in 0 .. Cardinality(L) : Rank[m] = Rank[n] => m = n

(* the hash of a link, at any node *)
Key(l) == Rank[link_num(1, l)]

(* Of the links that lead to a user at its cost the first one is used, and *)
(* the transport of the source is that of the user it comes from           *)
Chosen(t) ==
    /\ \A l \in t.fwd, k \in links :
          k.b = l.b /\ k.a \in t.visit /\ PathCost(t, k) = t.cost[l.b] => Key(l) <= Key(k)
    /\ \A l \in t.fwd : t.src[l.b] = SrcLink(t, l)

RouteInv == \A x, s \in User : Chosen(tree[x][s])

(* Every link of a graph has a hash of its own. *)
LEMMA KeysDiffer ==
    ASSUME PointToPoint, RanksDiffer, links \in Graphs, uid \in [User -> Uids]
    PROVE  /\ \A l \in links : Key(l) \in Nat
           /\ \A k, l \in links : Key(k) = Key(l) => k = l
<1> DEFINE B(l) == {k \in links : Before(1, k, l)}
<1>0. 1 \in User
    <2>1. N \in Nat \ {0}
        BY GraphAssumption, Zenon
    <2> QED BY <2>1 DEF User
<1>1. ASSUME NEW l \in links
      PROVE  /\ IsFiniteSet(B(l)) /\ B(l) \subseteq links
             /\ link_num(1, l) = Cardinality(B(l))
             /\ link_num(1, l) \in 0 .. Cardinality(links)
    <2>2. B(l) \in SUBSET links /\ IsFiniteSet(links)
        BY GraphType
    <2> HIDE DEF B
    <2>3. Cardinality(B(l)) <= Cardinality(links) /\ IsFiniteSet(B(l))
        BY <2>2, FS_Subset
    <2>4. Cardinality(B(l)) \in Nat /\ Cardinality(links) \in Nat
        BY <2>2, <2>3, FS_CardinalityType
    <2> QED BY <2>2, <2>3, <2>4 DEF link_num, B
<1>2. \A l \in links : Key(l) \in Nat
    BY <1>1, GraphAssumption DEF Key
<1>3. ASSUME NEW k \in links PROVE uid[1][k.b] \in Nat /\ k.a \in Nat /\ k.tid \in Nat
    <2>1. uid[1] \in [User -> Nat]
        BY <1>0, GraphAssumption
    <2>2. k.b \in User /\ k.a \in User /\ k.tid \in Nat /\ User \subseteq Nat
        BY GraphType DEF Link, User
    <2> QED BY <2>1, <2>2
(* of two links one is the first, and the other has a higher number *)
<1>4. ASSUME NEW k \in links, NEW l \in links, Before(1, k, l)
      PROVE  link_num(1, k) # link_num(1, l)
    <2>1. B(k) \subseteq B(l)
        <3> SUFFICES ASSUME NEW m \in links, Before(1, m, k) PROVE Before(1, m, l)
            OBVIOUS
        <3>1. /\ uid[1][k.b] \in Nat /\ k.a \in Nat /\ k.tid \in Nat
              /\ uid[1][l.b] \in Nat /\ l.a \in Nat /\ l.tid \in Nat
              /\ uid[1][m.b] \in Nat /\ m.a \in Nat /\ m.tid \in Nat
            BY <1>3
        <3> QED BY <3>1, <1>4 DEF Before
    <2>2. k \in B(l) /\ k \notin B(k)
        <3>1. uid[1][k.b] \in Nat /\ k.a \in Nat /\ k.tid \in Nat
            BY <1>3
        <3> QED BY <3>1, <1>4 DEF Before
    <2>3. IsFiniteSet(B(l)) /\ IsFiniteSet(B(k))
        BY <1>1
    <2>4. link_num(1, k) = Cardinality(B(k)) /\ link_num(1, l) = Cardinality(B(l))
        BY <1>1
    <2> HIDE DEF B
    <2>5. B(k) \in SUBSET B(l) /\ B(k) # B(l)
        BY <2>1, <2>2
    <2>6. Cardinality(B(k)) # Cardinality(B(l))
        BY <2>3, <2>5, FS_Subset
    <2> QED BY <2>4, <2>6
<1>5. ASSUME NEW k \in links, NEW l \in links, k # l
      PROVE  Before(1, k, l) \/ Before(1, l, k)
    <2>1. k.a # l.a \/ k.tid # l.tid
        BY <1>5 DEF PointToPoint
    <2>2. k.a \in Nat /\ k.tid \in Nat /\ l.a \in Nat /\ l.tid \in Nat
        BY <1>3
    <2> QED BY <2>1, <2>2 DEF Before
<1>6. ASSUME NEW k \in links, NEW l \in links, Key(k) = Key(l) PROVE k = l
    <2>1. link_num(1, k) = link_num(1, l)
        BY <1>1, <1>6 DEF Key, RanksDiffer
    <2> QED BY <2>1, <1>4, <1>5
<1> QED BY <1>2, <1>6

(* A turn takes the first of the links that lead to a user at its cost. *)
LEMMA AddChosen ==
    ASSUME PointToPoint, RanksDiffer, links \in Graphs, uid \in [User -> Uids],
           NEW x \in User, NEW s \in User, NEW t, Grown(s, t), Chosen(t), Edge(t) # {}
    PROVE  Chosen(add_fwd_set(t, Choice(x, t)))
<1> DEFINE new == Choice(x, t)
           r == add_fwd_set(t, new)
<1>t. t \in Tree
    BY DEF Grown
<1>n. New(t, new) /\ new # {}
    BY <1>t, ChoiceIsBest, ChoiceNotEmpty DEF New
<1>a. /\ r \in Tree
      /\ r.visit = t.visit \union {l.b : l \in new}
      /\ r.fwd = t.fwd \union new
      /\ \A u \in t.visit : r.cost[u] = t.cost[u] /\ r.src[u] = t.src[u]
      /\ \A l \in new : /\ l \in Edge(t)
                        /\ r.cost[l.b] = PathCost(t, l)
                        /\ r.src[l.b] = SrcLink(t, l)
      /\ \A l \in new, e \in Edge(t) : PathCost(t, l) <= PathCost(t, e)
    BY <1>t, <1>n, AddFwdSet
<1>1. ASSUME NEW l \in new, NEW k \in get_min_cost(t), k.b = l.b
      PROVE  Key(l) <= Key(k)
    <2>1. Rank[link_num(x, l)] <= Rank[link_num(x, k)]
        BY <1>1, ChoiceIsBest
    <2>2. 1 \in User
        <3>1. N \in Nat \ {0}
            BY GraphAssumption, Zenon
        <3> QED BY <3>1 DEF User
    <2>3. [i \in links |-> link_num(x, i)] = [i \in links |-> link_num(1, i)]
        BY <2>2, SameNumber
    <2>4. l \in links /\ k \in links
        BY <1>1, <1>n DEF New, get_min_cost, Edge
    <2>5. link_num(x, l) = link_num(1, l) /\ link_num(x, k) = link_num(1, k)
        BY <2>3, <2>4
    <2> QED BY <2>1, <2>5 DEF Key
<1> HIDE DEF r, new
<1>b. links \subseteq Link /\ Edge(t) \subseteq links
    BY GraphType DEF Edge
<1>d. \A l \in Link : l.a \in User /\ l.b \in User /\ l.cost \in Nat /\ l.cost > 0
    BY DEF Link
<1>e. \A u \in User : t.cost[u] \in Nat /\ r.cost[u] \in Nat
    BY <1>t, <1>a DEF Tree
<1>f. \A l \in Link : PathCost(t, l) \in Nat /\ PathCost(r, l) \in Nat
    BY <1>d, <1>e DEF PathCost
<1>g. \A l \in t.fwd : l \in links /\ l.a \in t.visit /\ l.b \in t.visit
    BY DEF Grown, OptimalTree
(* a link from a new user leads to no user that is reached for less *)
<1>h. ASSUME NEW l \in r.fwd, NEW k \in links, k.a \in r.visit, k.a \notin t.visit
      PROVE  PathCost(r, k) # r.cost[l.b]
    <2>1. PICK m \in new : k.a = m.b
        BY <1>a, <1>h
    <2>2. m \in Link /\ k \in Link /\ m \in Edge(t)
        BY <1>a, <1>b
    <2>3. PathCost(r, k) = PathCost(t, m) + k.cost /\ k.cost \in Nat /\ k.cost > 0
        BY <1>a, <1>d, <2>1, <2>2 DEF PathCost
    <2>4. r.cost[l.b] <= PathCost(t, m) /\ r.cost[l.b] \in Nat
        <3>1. CASE l \in t.fwd
            BY <3>1, <1>a, <1>b, <1>d, <1>e, <1>g, <2>2 DEF Grown
        <3>2. CASE l \in new
            BY <3>2, <1>a, <1>b, <1>f, <2>2
        <3> QED BY <3>1, <3>2, <1>a
    <2>5. PathCost(t, m) \in Nat
        BY <1>f, <2>2
    <2> QED BY <2>3, <2>4, <2>5
<1>2. ASSUME NEW l \in r.fwd, NEW k \in links, k.b = l.b, k.a \in r.visit,
             PathCost(r, k) = r.cost[l.b]
      PROVE  Key(l) <= Key(k)
    <2>1. k.a \in t.visit
        BY <1>h, <1>2
    <2>2. PathCost(r, k) = PathCost(t, k)
        BY <2>1, <1>a DEF PathCost
    <2>3. CASE l \in t.fwd
        BY <2>1, <2>2, <2>3, <1>2, <1>a, <1>g DEF Chosen
    <2>4. CASE l \in new
        <3>1. PathCost(t, k) = PathCost(t, l) /\ l \in Edge(t)
            BY <2>2, <2>4, <1>2, <1>a
        <3>2. k \in Edge(t)
            BY <2>1, <3>1, <1>2 DEF Edge
        <3>3. k \in get_min_cost(t)
            BY <2>4, <3>1, <3>2, <1>a DEF get_min_cost
        <3> QED BY <2>4, <3>3, <1>1, <1>2
    <2> QED BY <2>3, <2>4, <1>a
<1>3. ASSUME NEW l \in r.fwd PROVE r.src[l.b] = SrcLink(r, l)
    <2>1. CASE l \in t.fwd
        BY <2>1, <1>a, <1>g DEF Chosen, SrcLink
    <2>2. CASE l \in new
        <3>1. l.a \in t.visit
            BY <2>2, <1>a DEF Edge
        <3> QED BY <2>2, <3>1, <1>a DEF SrcLink
    <2> QED BY <2>1, <2>2, <1>a
<1>4. Chosen(r)
    BY <1>2, <1>3 DEF Chosen
<1> QED BY <1>4 DEF r, new

(* RouteInv holds in every state. *)
LEMMA RouteInvariant ==
    ASSUME PointToPoint, RanksDiffer
    PROVE  Spec => []RouteInv
<1>1. Init => RouteInv
    <2> SUFFICES ASSUME Init, NEW x \in User, NEW s \in User PROVE Chosen(tree[x][s])
        BY DEF RouteInv
    <2>1. tree[x][s].fwd = {}
        BY DEF Init, GraphInit, Start
    <2> QED BY <2>1 DEF Chosen
<1>2. GraphInv /\ RouteInv /\ [Next]_vars => RouteInv'
    <2> SUFFICES ASSUME GraphInv, RouteInv, [Next]_vars PROVE RouteInv'
        OBVIOUS
    <2>1. CASE compute_forward_set
        <3> SUFFICES ASSUME NEW x \in User, NEW s \in User PROVE Chosen(tree[x][s])'
            BY DEF RouteInv
        <3>1. tree'[x][s] = Turn(x, tree[x][s]) /\ links' = links /\ uid' = uid
            BY <2>1 DEF compute_forward_set
        <3>2. /\ Grown(s, tree[x][s]) /\ Chosen(tree[x][s])
              /\ links \in Graphs /\ uid \in [User -> Uids]
            BY DEF GraphInv, RouteInv
        <3>3. Chosen(Turn(x, tree[x][s]))
            <4>1. CASE Edge(tree[x][s]) = {}
                BY <3>2, <4>1 DEF Turn
            <4>2. CASE Edge(tree[x][s]) # {}
                BY <3>2, <4>2, AddChosen DEF Turn
            <4> QED BY <4>1, <4>2
        <3>4. Chosen(tree'[x][s])
            BY <3>1, <3>3
        <3> QED BY <3>1, <3>4 DEF Chosen, PathCost, SrcLink, Key, link_num, Before
    <2>2. CASE UNCHANGED <<links, uid, tree>>
        BY <2>2 DEF RouteInv, Chosen, PathCost, SrcLink, Key, link_num, Before
    <2> QED BY <2>1, <2>2 DEF Next, vars, publish, on_msg
<1> QED BY <1>1, <1>2, GraphInvariant, PTL DEF Spec

(* B is the recursion of Onwards up to K *)
Reached(B, L, u, K) ==
    B = [k \in 0 .. K |-> IF k = 0 THEN {u}
                          ELSE B[k - 1] \union {l.b : l \in {m \in L : m.a \in B[k - 1]}}]

(* The recursion has a solution. *)
LEMMA Recursion ==
    ASSUME NEW L, NEW u, NEW K \in Nat
    PROVE  \E B : Reached(B, L, u, K)
<1> DEFINE Bad == {n \in Nat : ~ \E B : Reached(B, L, u, n)}
<1> SUFFICES ASSUME Bad # {} PROVE FALSE
    OBVIOUS
<1>1. PICK n \in Bad : \A m \in Bad : n <= m
    <2>1. Bad \subseteq Nat
        OBVIOUS
    <2> HIDE DEF Bad
    <2> QED BY <2>1, Smallest
<1>2. n \in Nat /\ ~ \E B : Reached(B, L, u, n)
    BY <1>1
<1>3. CASE n = 0
    <2>1. Reached([k \in 0 .. 0 |-> {u}], L, u, 0)
        BY DEF Reached
    <2> QED BY <1>2, <1>3, <2>1
<1>4. CASE n # 0
    <2>1. n - 1 \in Nat /\ n - 1 \notin Bad
        BY <1>1, <1>2, <1>4
    <2>2. PICK B : Reached(B, L, u, n - 1)
        BY <2>1
    <2> DEFINE On(b) == b \union {l.b : l \in {m \in L : m.a \in b}}
               C == [k \in 0 .. n |-> IF k = n THEN On(B[n - 1]) ELSE B[k]]
    <2>3. \A k \in 0 .. n - 1 : B[k] = IF k = 0 THEN {u} ELSE On(B[k - 1])
        BY <2>2 DEF Reached
    <2>4. \A k \in 0 .. n : C[k] = IF k = 0 THEN {u} ELSE On(C[k - 1])
        <3> TAKE k \in 0 .. n
        <3>1. C[n] = On(B[n - 1]) /\ \A i \in 0 .. n - 1 : C[i] = B[i]
            BY <1>2, <1>4
        <3> HIDE DEF C, On
        <3>2. CASE k = n
            <4>1. n - 1 \in 0 .. n - 1
                BY <1>2, <1>4
            <4> QED BY <3>1, <3>2, <4>1, <1>4
        <3>3. CASE k # n
            <4>1. k \in 0 .. n - 1 /\ (k # 0 => k - 1 \in 0 .. n - 1)
                BY <1>2, <3>3
            <4> QED BY <2>3, <3>1, <4>1
        <3> QED BY <3>2, <3>3
    <2>5. C = [k \in 0 .. n |-> IF k = 0 THEN {u} ELSE On(C[k - 1])]
        <3>1. C = [k \in 0 .. n |-> C[k]]
            OBVIOUS
        <3> HIDE DEF C, On
        <3> QED BY <2>4, <3>1
    <2>6. Reached(C, L, u, n)
        <3> HIDE DEF C
        <3> QED BY <2>5 DEF Reached
    <2> QED BY <1>2, <2>6
<1> QED BY <1>3, <1>4

(* Onwards stays within a set that the links do not leave. *)
LEMMA OnwardsWithin ==
    ASSUME NEW L, NEW u, NEW G, u \in G, \A l \in L : l.a \in G => l.b \in G
    PROVE  Onwards(L, u) \subseteq G
<1> DEFINE B == CHOOSE B : B = [k \in 0 .. N |->
                    IF k = 0 THEN {u}
                    ELSE B[k - 1] \union {l.b : l \in {m \in L : m.a \in B[k - 1]}}]
<1>1. Onwards(L, u) = B[N]
    BY DEF Onwards
<1>2. N \in Nat
    BY GraphAssumption, Zenon
<1>3. Reached(B, L, u, N)
    <2>1. \E C : Reached(C, L, u, N)
        BY <1>2, Recursion
    <2> QED BY <2>1 DEF Reached
<1> HIDE DEF B
<1>4. \A k \in 0 .. N : B[k] = IF k = 0 THEN {u}
             ELSE B[k - 1] \union {l.b : l \in {m \in L : m.a \in B[k - 1]}}
    BY <1>3 DEF Reached
<1> DEFINE Bad == {k \in 0 .. N : ~(B[k] \subseteq G)}
<1>5. Bad = {}
    <2> SUFFICES ASSUME Bad # {} PROVE FALSE
        OBVIOUS
    <2>1. PICK n \in Bad : \A m \in Bad : n <= m
        <3>1. Bad \subseteq Nat
            BY <1>2
        <3> HIDE DEF Bad
        <3> QED BY <3>1, Smallest
    <2>2. n \in 0 .. N /\ ~(B[n] \subseteq G)
        BY <2>1
    <2>3. n # 0
        BY <1>4, <2>2
    <2>4. n - 1 \in 0 .. N /\ n - 1 \notin Bad
        BY <1>2, <2>1, <2>2, <2>3
    <2>5. B[n - 1] \subseteq G
        BY <2>4
    <2>6. B[n] = B[n - 1] \union {l.b : l \in {m \in L : m.a \in B[n - 1]}}
        BY <1>4, <2>2, <2>3
    <2> QED BY <2>2, <2>5, <2>6
<1>6. N \in 0 .. N
    BY <1>2
<1> QED BY <1>1, <1>5, <1>6

(* The routes of a user that a source reaches: no user is nearer to the    *)
(* source by way of another than by way of it.                             *)
LEMMA Triangle ==
    ASSUME links \in Graphs, NEW s \in User, NEW u \in User,
           NEW t, Grown(s, t), Edge(t) = {}, u \in t.visit,
           NEW r, Grown(u, r)
    PROVE  \A v \in r.visit : v \in t.visit /\ t.cost[v] <= t.cost[u] + r.cost[v]
<1>1. /\ t \in Tree /\ r \in Tree /\ r.visit \subseteq User
      /\ \A v \in User : t.cost[v] \in Nat /\ r.cost[v] \in Nat
    BY DEF Grown, Tree
<1> DEFINE Near(v) == v \in t.visit /\ t.cost[v] <= t.cost[u] + r.cost[v]
           Bad == {v \in r.visit : ~Near(v)}
           C == {r.cost[v] : v \in Bad}
<1> SUFFICES ASSUME Bad # {} PROVE FALSE
    OBVIOUS
<1>2. C \subseteq Nat /\ C # {}
    <2> HIDE DEF Near
    <2> QED BY <1>1
<1>3. PICK c \in C : \A d \in C : c <= d
    <2> HIDE DEF C
    <2> QED BY <1>2, Smallest
<1>4. PICK v \in Bad : c = r.cost[v]
    BY <1>3
<1>5. \A w \in r.visit : r.cost[w] < r.cost[v] => Near(w)
    <2> SUFFICES ASSUME NEW w \in r.visit, r.cost[w] < r.cost[v], ~Near(w) PROVE FALSE
        OBVIOUS
    <2>1. r.cost[w] \in C
        <3> HIDE DEF Near
        <3> QED OBVIOUS
    <2>2. r.cost[v] <= r.cost[w] /\ r.cost[v] \in Nat /\ r.cost[w] \in Nat
        <3> HIDE DEF C, Near
        <3> QED BY <1>1, <1>3, <1>4, <2>1
    <2> QED BY <2>2
<1>6. v \in r.visit /\ v \in User /\ ~Near(v)
    BY <1>1, <1>4
<1>7. v # u
    <2>1. r.cost[u] = 0 /\ t.cost[u] \in Nat
        BY <1>1 DEF Grown, OptimalTree
    <2>2. Near(u)
        BY <2>1
    <2> QED BY <1>6, <2>2
<1>8. PICK l \in r.fwd : l.b = v /\ l.a \in r.visit /\ r.cost[v] = PathCost(r, l) /\ l \in links
    BY <1>6, <1>7 DEF Grown, OptimalTree
<1>9. l.cost \in Nat /\ l.cost > 0 /\ r.cost[v] = r.cost[l.a] + l.cost /\ l.a \in User
    BY <1>8, GraphType DEF Link, PathCost
<1>10. Near(l.a)
    BY <1>1, <1>5, <1>8, <1>9
<1>11. v \in t.visit
    BY <1>8, <1>10 DEF Edge
<1>12. t.cost[v] <= t.cost[l.a] + l.cost
    BY <1>8, <1>10, <1>11 DEF Grown, OptimalTree, PathCost
<1>13. t.cost[v] <= t.cost[u] + r.cost[v]
    <2>1. /\ t.cost[v] \in Nat /\ t.cost[l.a] \in Nat /\ t.cost[u] \in Nat
          /\ r.cost[l.a] \in Nat /\ r.cost[v] \in Nat
        BY <1>1, <1>6, <1>9
    <2>2. t.cost[l.a] <= t.cost[u] + r.cost[l.a]
        BY <1>10
    <2> QED BY <1>9, <1>12, <2>1, <2>2
<1> QED BY <1>6, <1>11, <1>13

(* A link by which messages of s go on below u is a link of the routes of  *)
(* u itself.                                                               *)
LEMMA Carried ==
    ASSUME PointToPoint, RanksDiffer, links \in Graphs, uid \in [User -> Uids],
           NEW s \in User, NEW u \in User,
           NEW t, Grown(s, t), Chosen(t), Edge(t) = {}, u \in t.visit,
           NEW r, Grown(u, r), Chosen(r), Edge(r) = {},
           NEW l \in t.fwd, l.a \in r.visit, r.cost[l.a] + t.cost[u] = t.cost[l.a]
    PROVE  /\ l \in r.fwd /\ l.b \in r.visit
           /\ r.cost[l.b] + t.cost[u] = t.cost[l.b]
           /\ r.cost[l.b] > 0
<1> DEFINE v == l.b
<1>1. /\ t \in Tree /\ r \in Tree
      /\ \A w \in User : t.cost[w] \in Nat /\ r.cost[w] \in Nat
    BY DEF Grown, Tree
<1>2. l \in links /\ l.a \in t.visit /\ v \in t.visit
    BY DEF Grown, OptimalTree
<1>3. l.a \in User /\ v \in User /\ l.cost \in Nat /\ l.cost > 0
    BY <1>2, GraphType DEF Link
<1>4. t.cost[v] = t.cost[l.a] + l.cost
    BY <1>2 DEF Grown, OptimalTree, PathCost
<1>5. v \in r.visit
    BY <1>2 DEF Edge
<1>6. r.cost[v] <= r.cost[l.a] + l.cost
    BY <1>2, <1>5 DEF Grown, OptimalTree, PathCost
<1>7. \A w \in r.visit : w \in t.visit /\ t.cost[w] <= t.cost[u] + r.cost[w]
    BY Triangle
<1> HIDE DEF v
<1>8. /\ t.cost[u] \in Nat /\ t.cost[v] \in Nat /\ r.cost[v] \in Nat
      /\ t.cost[l.a] \in Nat /\ r.cost[l.a] \in Nat
    BY <1>1, <1>3
<1>9. r.cost[v] + t.cost[u] = t.cost[v] /\ r.cost[v] = r.cost[l.a] + l.cost /\ r.cost[v] > 0
    <2>1. t.cost[v] <= t.cost[u] + r.cost[v]
        BY <1>5, <1>7
    <2> QED BY <1>3, <1>4, <1>6, <1>8, <2>1
<1>10. v # u
    BY <1>9 DEF Grown, OptimalTree
<1>11. PICK k \in r.fwd : k.b = v /\ k.a \in r.visit /\ r.cost[v] = PathCost(r, k) /\ k \in links
    BY <1>5, <1>10 DEF Grown, OptimalTree
<1>12. /\ k.a \in User /\ k.cost \in Nat /\ r.cost[v] = r.cost[k.a] + k.cost
       /\ k.a \in t.visit /\ t.cost[k.a] <= t.cost[u] + r.cost[k.a]
    BY <1>7, <1>11, GraphType DEF Link, PathCost
(* the link that u uses costs no more for s, *)
<1>13. PathCost(t, k) = t.cost[v]
    <2>1. t.cost[v] <= t.cost[k.a] + k.cost
        BY <1>2, <1>11, <1>12 DEF Grown, OptimalTree, PathCost, v
    <2>2. t.cost[k.a] \in Nat /\ r.cost[k.a] \in Nat
        BY <1>1, <1>12
    <2>3. t.cost[k.a] + k.cost = t.cost[v]
        BY <1>8, <1>9, <1>12, <2>1, <2>2
    <2> QED BY <2>3 DEF PathCost
<1>14. Key(l) <= Key(k)
    BY <1>2, <1>11, <1>12, <1>13 DEF Chosen, v
(* and the link that s uses costs no more for u *)
<1>15. Key(k) <= Key(l)
    <2>1. PathCost(r, l) = r.cost[v]
        BY <1>9 DEF PathCost
    <2> QED BY <1>2, <1>11, <2>1 DEF Chosen, v
<1>16. k = l
    <2>1. Key(k) \in Nat /\ Key(l) \in Nat
        BY <1>2, <1>11, KeysDiffer
    <2>2. Key(k) = Key(l)
        BY <1>14, <1>15, <2>1
    <2> QED BY <1>2, <1>11, <2>2, KeysDiffer
<1> QED BY <1>5, <1>9, <1>11, <1>16 DEF v

(* What the routes of m.a say of the users that messages of s get to by m *)
Below(s, m) ==
    LET t == tree[s][s]
        r == tree[m.a][m.a]
    IN  {d \in r.visit : /\ r.cost[d] + t.cost[m.a] = t.cost[d]
                         /\ r.cost[d] > 0 /\ r.src[d] = m.tid}

(* The other end of m is such a user, and links of the forward set do not  *)
(* leave them.                                                             *)
LEMMA BelowClosed ==
    ASSUME PointToPoint, RanksDiffer, GraphInv, RouteInv, Computed,
           NEW s \in User, NEW m \in tree[s][s].fwd
    PROVE  /\ m.b \in Below(s, m)
           /\ \A l \in tree[s][s].fwd : l.a \in Below(s, m) => l.b \in Below(s, m)
<1> DEFINE t == tree[s][s]
           u == m.a
           r == tree[u][u]
           G == {d \in r.visit : /\ r.cost[d] + t.cost[u] = t.cost[d]
                                 /\ r.cost[d] > 0 /\ r.src[d] = m.tid}
<1>1. links \in Graphs /\ uid \in [User -> Uids]
    BY DEF GraphInv
<1>2. Grown(s, t) /\ Chosen(t) /\ Edge(t) = {}
    BY DEF GraphInv, RouteInv, Computed
<1>3. u \in t.visit /\ u \in User
    BY <1>2 DEF Grown, Tree
<1>4. Grown(u, r) /\ Chosen(r) /\ Edge(r) = {}
    BY <1>3 DEF GraphInv, RouteInv, Computed
<1>5. m \in t.fwd /\ Below(s, m) = G
    BY DEF Below
<1> HIDE DEF t, r
<1>6. m.b \in G
    <2>1. u \in r.visit /\ r.cost[u] = 0
        BY <1>4 DEF Grown, OptimalTree
    <2>2. r.cost[u] + t.cost[u] = t.cost[u]
        BY <1>2, <1>3, <2>1 DEF Grown, Tree
    <2>3. /\ m \in r.fwd /\ m.b \in r.visit
          /\ r.cost[m.b] + t.cost[u] = t.cost[m.b] /\ r.cost[m.b] > 0
        BY <1>1, <1>2, <1>3, <1>4, <1>5, <2>1, <2>2, Carried
    <2>4. r.src[m.b] = m.tid
        BY <1>4, <2>1, <2>3 DEF Chosen, SrcLink
    <2> QED BY <2>3, <2>4
<1>7. ASSUME NEW l \in t.fwd, l.a \in G PROVE l.b \in G
    <2>1. /\ l.a \in r.visit /\ r.cost[l.a] + t.cost[u] = t.cost[l.a]
          /\ r.cost[l.a] > 0 /\ r.src[l.a] = m.tid
        BY <1>7
    <2>2. /\ l \in r.fwd /\ l.b \in r.visit
          /\ r.cost[l.b] + t.cost[u] = t.cost[l.b] /\ r.cost[l.b] > 0
        BY <1>1, <1>2, <1>3, <1>4, <2>1, Carried
    <2>3. r.cost[l.a] # 0
        BY <2>1
    <2>4. r.src[l.b] = m.tid
        BY <1>4, <2>1, <2>2, <2>3 DEF Chosen, SrcLink
    <2> QED BY <2>2, <2>4
<1> HIDE DEF G
<1> QED BY <1>5, <1>6, <1>7 DEF t

(* In a network of connections with two ends and with a hash per link: the *)
(* transport by which a node passes on messages of s to d is the one that  *)
(* find_adjacent_routes takes for its own route to d, where the filter of  *)
(* d is.                                                                   *)
THEOREM RoutesAgree ==
    ASSUME PointToPoint, RanksDiffer
    PROVE  Spec => []SameRoute
<1>1. GraphInv /\ RouteInv => SameRoute
    <2> SUFFICES ASSUME GraphInv, RouteInv, Computed,
                        NEW s \in User, NEW m \in tree[s][s].fwd
                 PROVE  \A d \in Onwards(tree[s][s].fwd, m.b) :
                           tree[m.a][m.a].src[d] = m.tid
        BY DEF SameRoute
    <2>1. Onwards(tree[s][s].fwd, m.b) \subseteq Below(s, m)
        BY BelowClosed, OnwardsWithin
    <2>2. \A d \in Below(s, m) : tree[m.a][m.a].src[d] = m.tid
        BY DEF Below
    <2> QED BY <2>1, <2>2
<1> QED BY <1>1, GraphInvariant, RouteInvariant, PTL

-----------------------------------------------------------------------------
(* Delivery                                                                *)

(* the users that F leads to from u: they are in every set with u that F   *)
(* does not leave                                                          *)
Leads(F, u) ==
    {d \in User : \A G \in SUBSET User :
                     u \in G /\ (\A l \in F : l.a \in G => l.b \in G) => d \in G}

(* A path goes on by a link, *)
LEMMA LeadsOn ==
    ASSUME NEW F, NEW u \in User
    PROVE  /\ u \in Leads(F, u)
           /\ \A l \in F : l.a \in Leads(F, u) /\ l.b \in User => l.b \in Leads(F, u)
BY DEF Leads

(* and begins with one. *)
LEMMA LeadsBy ==
    ASSUME NEW F, \A l \in F : l.b \in User, NEW u \in User, NEW d \in Leads(F, u), d # u
    PROVE  \E m \in F : m.a = u /\ d \in Leads(F, m.b)
<1> DEFINE G == {u} \union {v \in User : \E m \in F : m.a = u /\ v \in Leads(F, m.b)}
<1>1. G \in SUBSET User /\ u \in G
    OBVIOUS
<1>2. ASSUME NEW l \in F, l.a \in G PROVE l.b \in G
    <2>1. CASE l.a = u
        <3>1. l.b \in User /\ l.b \in Leads(F, l.b)
            BY LeadsOn
        <3> QED BY <2>1, <3>1
    <2>2. CASE l.a # u
        <3>1. PICK m \in F : m.a = u /\ l.a \in Leads(F, m.b)
            BY <1>2, <2>2
        <3>2. l.b \in User /\ l.b \in Leads(F, m.b)
            BY <3>1, LeadsOn
        <3> QED BY <3>1, <3>2
    <2> QED BY <2>1, <2>2
<1> HIDE DEF G
<1>3. d \in G
    BY <1>1, <1>2 DEF Leads
<1> QED BY <1>3 DEF G

(* The transport src of a user is that of a link of the source which leads *)
(* to the user.                                                            *)
LEMMA LeadsFromSource ==
    ASSUME links \in Graphs, NEW s \in User, NEW t, Grown(s, t), Chosen(t)
    PROVE  \A u \in t.visit \ {s} :
              \E l \in t.fwd : l.a = s /\ l.tid = t.src[u] /\ u \in Leads(t.fwd, l.b)
<1> DEFINE Led(u) == \E l \in t.fwd : /\ l.a = s /\ l.tid = t.src[u]
                                       /\ u \in Leads(t.fwd, l.b)
           Bad == {u \in t.visit \ {s} : ~Led(u)}
           C == {t.cost[u] : u \in Bad}
<1> SUFFICES ASSUME Bad # {} PROVE FALSE
    OBVIOUS
<1>1. /\ t.visit \subseteq User /\ t.cost[s] = 0
      /\ \A u \in User : t.cost[u] \in Nat
      /\ \A l \in t.fwd : l \in links /\ l.a \in t.visit /\ l.b \in t.visit
    BY DEF Grown, OptimalTree, Tree
<1> HIDE DEF Led
<1>2. C \subseteq Nat /\ C # {}
    BY <1>1
<1>3. PICK c \in C : \A d \in C : c <= d
    <2> HIDE DEF C
    <2> QED BY <1>2, Smallest
<1>4. PICK u \in Bad : c = t.cost[u]
    BY <1>3
<1>5. u \in t.visit \ {s} /\ ~Led(u) /\ u \in User
    BY <1>1, <1>4
<1>6. PICK l \in t.fwd : l.b = u /\ l.a \in t.visit /\ t.cost[u] = PathCost(t, l)
    BY <1>5 DEF Grown, OptimalTree
<1>7. /\ l.a \in User /\ l.b \in User /\ l.cost \in Nat /\ l.cost > 0
      /\ t.cost[u] = t.cost[l.a] + l.cost
    BY <1>1, <1>6, GraphType DEF Link, PathCost
<1>8. t.src[u] = SrcLink(t, l)
    BY <1>6 DEF Chosen
<1>9. CASE l.a = s
    <2>1. t.src[u] = l.tid
        BY <1>1, <1>8, <1>9 DEF SrcLink
    <2>2. u \in Leads(t.fwd, l.b)
        BY <1>5, <1>6, LeadsOn
    <2>3. Led(u)
        BY <1>9, <2>1, <2>2 DEF Led
    <2> QED BY <1>5, <2>3
<1>10. CASE l.a # s
    <2>1. Led(l.a)
        <3> SUFFICES ASSUME ~Led(l.a) PROVE FALSE
            OBVIOUS
        <3>1. t.cost[l.a] \in C
            BY <1>6, <1>10
        <3>2. t.cost[u] <= t.cost[l.a] /\ t.cost[u] \in Nat /\ t.cost[l.a] \in Nat
            <4> HIDE DEF C
            <4> QED BY <1>1, <1>3, <1>4, <1>5, <1>7, <3>1
        <3> QED BY <1>7, <3>2
    <2>2. PICK k \in t.fwd : k.a = s /\ k.tid = t.src[l.a] /\ l.a \in Leads(t.fwd, k.b)
        BY <2>1 DEF Led
    <2>3. t.cost[l.a] > 0
        BY <1>6, <1>10 DEF Grown
    <2>4. t.src[u] = t.src[l.a]
        BY <1>7, <1>8, <2>3 DEF SrcLink
    <2>5. u \in Leads(t.fwd, k.b)
        BY <1>1, <1>5, <1>6, <2>2, LeadsOn
    <2>6. Led(u)
        BY <2>2, <2>4, <2>5 DEF Led
    <2> QED BY <1>5, <2>6
<1> QED BY <1>9, <1>10

(* A subscriber that has not received the message is ahead of it *)
Owed ==
    source # 0 =>
        \A d \in (sub \intersect tree[source][source].visit) \ {source} :
            recv[d] = 0 =>
                \E l \in way : d \in Leads(tree[source][source].fwd, l.b)

(* publish sends it the way of every subscriber. *)
LEMMA PublishOwes ==
    ASSUME PointToPoint, IndInv, RouteInv, NEW s \in User, NEW S \in Subs, publish(s, S)
    PROVE  Owed'
<1> DEFINE t == tree[s][s]
<1>1. source' = s /\ sub' = S /\ tree' = tree /\ way' = forward(s, calc_path(s), S)
    BY DEF publish
<1> SUFFICES ASSUME NEW d \in (S \intersect t.visit) \ {s}
             PROVE  \E l \in way' : d \in Leads(t.fwd, l.b)
    BY <1>1 DEF Owed
<1>2. Grown(s, t) /\ Chosen(t) /\ links \in Graphs
    BY DEF IndInv, GraphInv, RouteInv
<1>3. PICK l \in t.fwd : l.a = s /\ l.tid = t.src[d] /\ d \in Leads(t.fwd, l.b)
    <2> HIDE DEF t
    <2> QED BY <1>2, LeadsFromSource
<1>4. l \in links
    BY <1>2 DEF Grown, OptimalTree
<1>5. l.tid \in calc_path(s) /\ l.tid \in bloom_rt(s, S)
    BY <1>3 DEF calc_path, bloom_rt
<1>6. l \in way'
    BY <1>1, <1>3, <1>4, <1>5 DEF forward
<1> QED BY <1>3, <1>6

(* on_msg sends it on to every subscriber further down. *)
LEMMA OnMsgOwes ==
    ASSUME PointToPoint, RanksDiffer, IndInv, RouteInv, Owed, NEW l \in way, on_msg(l)
    PROVE  Owed'
<1> DEFINE t == tree[source][source]
           F == t.fwd
           u == l.b
<1>1. /\ source' = source /\ sub' = sub /\ tree' = tree
      /\ way' = (way \ {l}) \union Onward(l)
      /\ recv' = [recv EXCEPT ![u] = @ + 1]
    BY DEF on_msg
<1>2. source \in User /\ source # 0 /\ Computed /\ Follows(F) /\ GraphInv
    BY ZeroIsNoUser DEF IndInv, TypeOK
<1>3. Grown(source, t) /\ links \in Graphs
    BY <1>2 DEF GraphInv
<1>4. l \in F /\ recv[u] = 0
    BY <1>2 DEF Follows
<1>5. /\ F \subseteq links
      /\ \A k \in F : k.a \in User /\ k.b \in User /\ k.cost \in Nat \ {0}
    BY <1>3, GraphType DEF Grown, OptimalTree, Link
<1> SUFFICES ASSUME NEW d \in (sub \intersect t.visit) \ {source}, recv'[d] = 0
             PROVE  \E k \in way' : d \in Leads(F, k.b)
    BY <1>1 DEF Owed
<1>6. d \in User /\ recv \in [User -> Nat]
    BY <1>3 DEF Grown, Tree, IndInv, TypeOK
<1>7. d # u /\ recv[d] = 0
    BY <1>1, <1>4, <1>5, <1>6
<1>8. PICK k \in way : d \in Leads(F, k.b)
    BY <1>2, <1>7 DEF Owed
<1>9. CASE k # l
    BY <1>1, <1>8, <1>9
<1>10. CASE k = l
    <2>1. PICK m \in F : m.a = u /\ d \in Leads(F, m.b)
        <3> HIDE DEF F
        <3> QED BY <1>4, <1>5, <1>7, <1>8, <1>10, LeadsBy
    (* not back by the connection that it came by, *)
    <2>2. m.tid # l.tid
        <3> SUFFICES ASSUME m.tid = l.tid PROVE FALSE
            OBVIOUS
        <3> DEFINE back == [l EXCEPT !.a = l.b, !.b = l.a]
        <3>1. back \in links
            BY <1>3, <1>4, <1>5, GraphAssumption
        <3>2. l \in Link
            BY <1>3, <1>4, <1>5, GraphType
        <3>3. back.a = u /\ back.b = l.a /\ back.tid = l.tid
            BY <3>2 DEF Link
        <3> HIDE DEF back
        <3>4. m = back
            BY <1>3, <1>5, <2>1, <3>1, <3>3 DEF PointToPoint
        <3>5. m.b = l.a
            BY <3>3, <3>4
        <3>6. t.cost[l.b] = t.cost[l.a] + l.cost /\ t.cost[m.b] = t.cost[m.a] + m.cost
            BY <1>3, <1>4 DEF Grown, OptimalTree, PathCost
        <3>7. t.cost[l.a] \in Nat /\ t.cost[l.b] \in Nat
            BY <1>3, <1>4, <1>5 DEF Grown, Tree
        <3>8. l.cost \in Nat \ {0} /\ m.cost \in Nat \ {0}
            BY <1>4, <1>5
        <3>9. t.cost[l.a] = t.cost[l.b] + m.cost
            BY <2>1, <3>5, <3>6
        <3> HIDE DEF t
        <3> QED BY <3>6, <3>7, <3>8, <3>9
    (* and the filter of d is on the transport *)
    <2>3. m.tid \in bloom_rt(u, sub)
        <3>1. /\ m.b \in Below(source, m)
              /\ \A i \in F : i.a \in Below(source, m) => i.b \in Below(source, m)
            BY <1>2, BelowClosed
        <3>2. Below(source, m) \in SUBSET User
            <4>1. u \in User /\ Grown(u, tree[u][u])
                BY <1>2, <1>4, <1>5 DEF GraphInv
            <4>2. tree[u][u].visit \subseteq User
                BY <4>1 DEF Grown, Tree
            <4> QED BY <2>1, <4>2 DEF Below
        <3>3. d \in Below(source, m)
            <4> HIDE DEF F
            <4> QED BY <2>1, <3>1, <3>2 DEF Leads
        <3>4. /\ d \in tree[u][u].visit /\ tree[u][u].src[d] = m.tid
            BY <2>1, <3>3 DEF Below
        <3> QED BY <1>7, <3>4 DEF bloom_rt
    <2>4. m.tid \in calc_source_path(u)
        <3>1. tree[u][source].fwd = F
            BY <1>2, <1>4, <1>5 DEF IndInv, Same
        <3> QED BY <2>1, <3>1 DEF calc_source_path
    <2>5. m \in Onward(l)
        BY <1>4, <1>5, <2>1, <2>2, <2>3, <2>4 DEF Onward, forward
    <2> QED BY <1>1, <2>1, <2>5
<1> QED BY <1>9, <1>10

(* The safety half of what doc/linkstate.adoc says of a converged network  *)
(* of connections with two ends, with a hash per link: when mcast_pub and  *)
(* on_msg have no more to send, every subscriber that is connected to the  *)
(* publisher has the message, exactly once.                                *)
THEOREM EverySubscriberOnce ==
    ASSUME PointToPoint, RanksDiffer
    PROVE  Spec => []AllGiven
<1>1. Init => Owed
    BY DEF Init, Owed
<1>2. IndInv /\ RouteInv /\ Owed /\ [Next]_vars => Owed'
    <2> SUFFICES ASSUME IndInv, RouteInv, Owed, [Next]_vars PROVE Owed'
        OBVIOUS
    <2>1. CASE compute_forward_set /\ UNCHANGED <<source, sub, way, recv>>
        BY <2>1 DEF IndInv, Computed, compute_forward_set, Owed
    <2>2. CASE \E s \in User, S \in Subs : publish(s, S)
        BY <2>2, PublishOwes
    <2>3. CASE \E l \in way : on_msg(l)
        BY <2>3, OnMsgOwes
    <2>4. CASE UNCHANGED vars
        BY <2>4 DEF vars, Owed
    <2> QED BY <2>1, <2>2, <2>3, <2>4 DEF Next
<1>3. IndInv /\ Owed => AllGiven
    <2> SUFFICES ASSUME IndInv, Owed, source # 0, way = {},
                        NEW d \in (sub \intersect tree[source][source].visit) \ {source}
                 PROVE  recv[d] = 1
        BY DEF AllGiven
    <2>1. recv[d] # 0
        BY DEF Owed
    <2>2. source \in User
        BY DEF IndInv, TypeOK
    <2>3. d \in User
        BY <2>2 DEF IndInv, GraphInv, Grown, Tree
    <2>4. recv[d] \in Nat /\ recv[d] <= 1
        BY <2>3 DEF IndInv, TypeOK, Follows
    <2> QED BY <2>1, <2>4
<1> QED BY <1>1, <1>2, <1>3, Invariant, RouteInvariant, PTL DEF Spec
=============================================================================

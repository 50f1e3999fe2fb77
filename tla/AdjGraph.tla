------------------------------- MODULE AdjGraph -------------------------------
(***************************************************************************)
(* The forward sets that every node computes from its copy of the links    *)
(* (src/src/adj_graph.cpp, adjacency.cpp), for one of the paths.  The      *)
(* copies agree: the network is converged.  What differs from node to node *)
(* is the uid it has for each user, and with it the order of the links of  *)
(* a transport with several members.                                       *)
(*                                                                         *)
(* The loop of compute_forward_set is one action per turn, taken for all   *)
(* nodes and sources at once: they do not depend on each other.            *)
(***************************************************************************)
EXTENDS Naturals, FiniteSets

CONSTANTS
    N,          \* number of users
    Graphs,     \* the sets of links to compute with
    Uids,       \* orders in which a node may have met the users
    Rank        \* order of the link numbers on this path, by their hash

User == 1 .. N   \* in the order of their start times

Link == [a : User, b : User, tid : Nat, cost : Nat \ {0}]

ASSUME GraphAssumption ==
    /\ N \in Nat \ {0}
    /\ \A L \in Graphs :
          /\ L \subseteq Link /\ IsFiniteSet(L)
          /\ \A l \in L : l.a # l.b
          /\ \A l \in L : [l EXCEPT !.a = l.b, !.b = l.a] \in L
    /\ \A L \in Graphs : \A n \in 0 .. Cardinality(L) : Rank[n] \in Nat
    /\ \A f \in Uids : f \in [User -> Nat]

VARIABLES
    links,    \* the adjacency of all users
    uid,      \* uid[x][u]: the uid of u at x
    tree      \* tree[x][s]: what x computed for messages of s

graphVars == <<links, uid, tree>>

(* AdjVisit and AdjFwdTab of one source *)
Tree ==
    [visit : SUBSET User,            \* users reached
     cost  : [User -> Nat],          \* cost to a user
     src   : [User -> Nat],          \* transport of the source that leads there
     fwd   : SUBSET Link]            \* links used

Start(s) ==
    [visit |-> {s}, cost |-> [u \in User |-> 0],
     src |-> [u \in User |-> 0], fwd |-> {}]

-----------------------------------------------------------------------------
(* The graph                                                               *)

(* update_graph adds the links by user, transport and uid of the member *)
Before(x, k, l) ==
    \/ k.a < l.a
    \/ k.a = l.a /\ k.tid < l.tid
    \/ k.a = l.a /\ k.tid = l.tid /\ uid[x][k.b] < uid[x][l.b]

(* mutant: the users are not sorted, the own one is the first *)
link_num_Own(x, l) ==
    Cardinality({k \in links : \/ k.a = x /\ l.a # x
                               \/ (k.a = x <=> l.a = x) /\ Before(x, k, l)})

link_num(x, l) == Cardinality({k \in links : Before(x, k, l)})

-----------------------------------------------------------------------------
(* compute_forward_set                                                     *)

Edge(t) == {l \in links : l.a \in t.visit /\ l.b \notin t.visit}

PathCost(t, l) == t.cost[l.a] + l.cost

(* mutant: the cost up to the link is not added *)
get_min_cost_Local(t) ==
    {l \in Edge(t) : \A k \in Edge(t) : l.cost <= k.cost}

get_min_cost(t) ==
    {l \in Edge(t) : \A k \in Edge(t) : PathCost(t, l) <= PathCost(t, k)}

(* the first of the links to a user that cost the same *)
First(num, S) ==
    CHOOSE l \in S : \A k \in S : Rank[num[l]] <= Rank[num[k]]

Choice(x, t) ==
    LET num  == [l \in links |-> link_num(x, l)]
        best == get_min_cost(t)
    IN  {First(num, {k \in best : k.b = u}) : u \in {l.b : l \in best}}

(* mutant: the transport of the last link *)
SrcLink_Last(t, l) == l.tid

(* the transport of the source, inherited along the path *)
SrcLink(t, l) == IF t.cost[l.a] = 0 THEN l.tid ELSE t.src[l.a]

add_fwd_set(t, new) ==
    LET Into(u) == {l \in new : l.b = u}
        The(u)  == CHOOSE l \in new : l.b = u
    IN  [visit |-> t.visit \union {l.b : l \in new},
         cost  |-> [u \in User |-> IF Into(u) # {} THEN PathCost(t, The(u))
                                                   ELSE t.cost[u]],
         src   |-> [u \in User |-> IF Into(u) # {} THEN SrcLink(t, The(u))
                                                   ELSE t.src[u]],
         fwd   |-> t.fwd \union new]

Turn(x, t) == IF Edge(t) = {} THEN t ELSE add_fwd_set(t, Choice(x, t))

compute_forward_set ==
    /\ \E x, s \in User : Edge(tree[x][s]) # {}
    /\ tree' = [x \in User |-> [s \in User |-> Turn(x, tree[x][s])]]
    /\ UNCHANGED <<links, uid>>

Computed == \A x, s \in User : Edge(tree[x][s]) = {}

GraphInit ==
    /\ links \in Graphs
    /\ uid \in [User -> Uids]
    /\ tree = [x \in User |-> [s \in User |-> Start(s)]]

-----------------------------------------------------------------------------
(* Properties of one forward set                                           *)

GraphTypeOK ==
    /\ links \subseteq Link
    /\ uid \in [User -> Uids]
    /\ tree \in [User -> [User -> Tree]]

(* Every user that was reached but the source has one link of the set that *)
(* leads there, from a user that was reached, at the cost of the path; and *)
(* no link of the graph leads there for less                               *)
OptimalTree(s, t) ==
    /\ s \in t.visit /\ t.cost[s] = 0
    /\ \A u \in t.visit \ {s} :
          \E l \in t.fwd :
             /\ l.b = u /\ l.a \in t.visit
             /\ t.cost[u] = PathCost(t, l)
             /\ \A k \in t.fwd : k.b = u => k = l
    /\ \A l \in t.fwd : l \in links /\ l.b \in t.visit \ {s}
    /\ \A l \in links :
          l.a \in t.visit /\ l.b \in t.visit => t.cost[l.b] <= PathCost(t, l)

(* Forward sets are shortest path trees, after every turn of the loop      *)
Optimal == \A x, s \in User : OptimalTree(s, tree[x][s])

(* the users that L leads to from u *)
Onwards(L, u) ==
    LET B[k \in 0 .. N] ==
            IF k = 0 THEN {u}
            ELSE LET b == B[k - 1]
                 IN  b \union {l.b : l \in {m \in L : m.a \in b}}
    IN  B[N]

(* Where messages of s to d pass u, u forwards them by the transport that  *)
(* its own route to d takes: the filter of d is on it                      *)
SameRoute ==
    Computed => \A s \in User : \A l \in tree[s][s].fwd :
       \A d \in Onwards(tree[s][s].fwd, l.b) : tree[l.a][l.a].src[d] = l.tid
=============================================================================

------------------------------- MODULE Forward -------------------------------
(***************************************************************************)
(* A message on its way through a converged network: every node sends it   *)
(* on by the transports of its forward set for the publisher, where a      *)
(* filter of a subscriber lets it pass (src/src/transport.cpp,             *)
(* session.cpp, user_db.cpp).                                              *)
(***************************************************************************)
EXTENDS AdjGraph

CONSTANT Subs   \* the sets of subscribers to consider

VARIABLES
    source,   \* the publisher, 0 before it publishes
    sub,      \* the subscribers
    way,      \* links that carry the message
    recv      \* how often a user received it

vars == <<links, uid, tree, source, sub, way, recv>>

ASSUME SubsAssumption == Subs \subseteq SUBSET User

-----------------------------------------------------------------------------
(* transports of u in the forward set of the publisher *)
calc_source_path(u) ==
    {l.tid : l \in {k \in tree[u][source].fwd : k.a = u}}

calc_path(s) == {tree[s][s].src[d] : d \in tree[s][s].visit \ {s}}

(* find_adjacent_routes puts the filter of d on the transport of the route *)
bloom_rt(u, subs) ==
    {tree[u][u].src[d] : d \in (subs \intersect tree[u][u].visit) \ {u}}

(* all members of these transports get the message *)
forward(u, tports, subs) ==
    {l \in links : l.a = u /\ l.tid \in tports \intersect bloom_rt(u, subs)}

publish(s, S) ==
    /\ Computed /\ source = 0
    /\ source' = s /\ sub' = S
    /\ recv' = [recv EXCEPT ![s] = 1]
    /\ way' = forward(s, calc_path(s), S)
    /\ UNCHANGED <<links, uid, tree>>

(* mutant: the message is sent on again when it comes a second time, and   *)
(* to the transport it came from                                           *)
Onward_All(l) == {k \in links : k.a = l.b}

(* a repeated message is dropped, and not sent back where it came from *)
Onward(l) ==
    IF recv[l.b] > 0 THEN {}
    ELSE forward(l.b, calc_source_path(l.b) \ {l.tid}, sub)

(* TransportRoute::on_msg *)
on_msg(l) ==
    /\ way' = (way \ {l}) \union Onward(l)
    /\ recv' = [recv EXCEPT ![l.b] = @ + 1]
    /\ UNCHANGED <<links, uid, tree, source, sub>>

Init ==
    /\ GraphInit
    /\ source = 0 /\ sub = {}
    /\ way = {}
    /\ recv = [u \in User |-> 0]

Next ==
    \/ compute_forward_set /\ UNCHANGED <<source, sub, way, recv>>
    \/ \E s \in User, S \in Subs : publish(s, S)
    \/ \E l \in way : on_msg(l)

Spec == Init /\ [][Next]_vars

(* transports deliver *)
FairSpec == Spec /\ WF_vars(\E l \in way : on_msg(l))

-----------------------------------------------------------------------------
TypeOK ==
    /\ GraphTypeOK
    /\ source \in {0} \union User /\ sub \in {{}} \union Subs
    /\ way \subseteq links
    /\ recv \in [User -> Nat]

(* No user receives a message twice, also one that only sends it on *)
AtMostOnce == \A u \in User : recv[u] <= 1

(* When no link carries the message any more, every subscriber that is     *)
(* connected to the publisher has received it exactly once                 *)
AllGiven ==
    source # 0 /\ way = {} =>
        \A d \in (sub \intersect tree[source][source].visit) \ {source} : recv[d] = 1

M == INSTANCE Multicast WITH
        want  <- IF source = 0 THEN {}
                 ELSE (sub \intersect tree[source][source].visit) \ {source},
        given <- [u \in User |-> IF u \in sub \ {source} THEN recv[u] ELSE 0]

(* The steps are those of Multicast: subscribers that are connected to the *)
(* publisher are given the message, each at most once                      *)
Promise == M!Spec

(* Each of them sees it                                                    *)
Delivered == M!Delivered
=============================================================================

------------------------------ MODULE MCForward ------------------------------
(* Instances of Forward *)
EXTENDS Forward

Conn(a, b, t, c) ==
    {[a |-> a, b |-> b, tid |-> t, cost |-> c],
     [a |-> b, b |-> a, tid |-> t, cost |-> c]}

MCPair == {p \in User \X User : p[1] < p[2]}

Network(c) ==
    UNION {Conn(p[1], p[2], N * p[1] + p[2], c[p]) :
             p \in {q \in MCPair : c[q] > 0}}

(* every network of connections with two ends, of cost 1 or 2, and those   *)
(* of cost 1 with a second connection between the first two                *)
MCGraphs ==
    {Network(c) : c \in [MCPair -> 0 .. 2]}
    \union {Network(c) \union Conn(1, 2, 1, 1) : c \in [MCPair -> 0 .. 1]}

MCUids == {[u \in User |-> u]}

(* a network with a multicast transport, of 2, 4 and 5 *)
Mcast ==
    {Conn(1, 2, 1, 1) \union Conn(1, 3, 2, 1) \union Conn(3, 5, 3, 1) \union
     Conn(2, 4, 4, 1) \union Conn(2, 5, 4, 1) \union Conn(4, 5, 4, 1)}

(* 4 and 5 were met in this order, and in the other *)
Met == {[u \in User |-> u], [u \in User |-> IF u > 3 THEN 9 - u ELSE u]}

MCRank == [n \in 0 .. 16 |-> (7 * n) % 17]

MCSubs == {User} \union {{u} : u \in User}
=============================================================================

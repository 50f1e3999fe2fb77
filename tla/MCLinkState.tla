----------------------------- MODULE MCLinkState -----------------------------
(* Instances of LinkState for TLC: a link to each of the peers.            *)
EXTENDS LinkState, TLC

LinkTo == {<<1, x>> : x \in Peers}
EndOf  == [l \in Links |-> l[2]]

(* the replicas know all the peers, or none, at the start *)
AllFound  == [r \in Replicas |-> Peers]
NoneFound == [r \in Replicas |-> {}]

ReplicaSymmetry == Permutations(Replicas)

=============================================================================

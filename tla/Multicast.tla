------------------------------ MODULE Multicast ------------------------------
(***************************************************************************)
(* What forwarding promises for one message: "all subscribers of it will   *)
(* see the message exactly one time, when the network is converged and     *)
(* stable" (src/doc/linkstate.adoc).                                       *)
(***************************************************************************)
EXTENDS Naturals

CONSTANT User

VARIABLES
    want,     \* the subscribers that are connected to the publisher
    given     \* how often each user was given the message

vars == <<want, given>>

TypeOK == want \subseteq User /\ given \in [User -> Nat]

Init ==
    /\ want = {}
    /\ given = [u \in User |-> 0]

Publish ==
    /\ want = {}
    /\ want' \in SUBSET User
    /\ UNCHANGED given

Deliver(u) ==
    /\ u \in want /\ given[u] = 0
    /\ given' = [given EXCEPT ![u] = 1]
    /\ UNCHANGED want

Next == Publish \/ \E u \in User : Deliver(u)

Spec == Init /\ [][Next]_vars

Delivered == \A u \in User : u \in want ~> given[u] > 0
=============================================================================

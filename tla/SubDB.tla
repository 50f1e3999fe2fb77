-------------------------------- MODULE SubDB --------------------------------
(***************************************************************************)
(* The subscriptions of one node, the owner, and the copies the other      *)
(* nodes route by (src/src/sub.cpp, src/src/pat.cpp).                      *)
(*                                                                         *)
(* The owner keeps a route for every subject and pattern that its console  *)
(* or a program on one of its ipc transports subscribes, a bloom filter of *)
(* their hashes, and a filter for the console and for the ipc transports   *)
(* alone.  The filters count: a hash is in a filter while it was added     *)
(* more often than deleted.  The first start of a route and its last stop  *)
(* are flooded, numbered by sub_seqno; a filter that became too small is   *)
(* built again from the routes and flooded as a whole (_Z.BLM).            *)
(*                                                                         *)
(* A peer keeps a copy of the filter in its UserBridge of the owner,       *)
(* applies starts and stops in sequence, and asks the owner, or another    *)
(* peer, for the whole filter when its number is behind.  Floods may be    *)
(* lost, repeated and reordered; requests and replies may be lost and pass *)
(* each other.                                                             *)
(***************************************************************************)
EXTENDS SubList, FiniteSets

CONSTANTS
    Subs,        \* subjects
    Pats,        \* patterns
    Hash,        \* the hash of a subject, or of the prefix of a pattern
    Console,     \* the console, as a holder of subscriptions
    Tports,      \* ipc transports, the other holders
    Peers,       \* nodes that hold a copy of the owner's filter
    Askers,      \* those of them that synchronize with another peer too
    Owner,       \* the owner, as the target of a request
    Resizes,     \* the sets of filters that an add may make too small
    MaxSeqno,    \* bound: starts and stops flooded
    MaxBlm,      \* bound: _Z.BLM messages sent
    MaxReqs,     \* bound: requests and replies in flight between two nodes
    MaxEvents    \* bound: requests and replies lost and owners dropped

Routes  == Subs \union Pats
Holders == Tports \union {Console}
Hashes  == {Hash[r] : r \in Routes}
Filters == {"bloom", "console", "ipc"}

ASSUME SubDBAssumption ==
    /\ Hash \in [Routes -> Nat]
    /\ Subs \intersect Pats = {} /\ IsFiniteSet(Subs) /\ IsFiniteSet(Pats)
    /\ Console \notin Tports /\ IsFiniteSet(Tports)
    /\ Owner \notin Peers /\ Askers \subseteq Peers
    /\ Resizes \subseteq SUBSET Filters /\ {} \in Resizes
    /\ {MaxSeqno, MaxBlm, MaxReqs, MaxEvents} \subseteq Nat

VARIABLES
    ref,         \* SubRefs of a route: who holds it; no route if empty
    start,       \* start_seqno of a route
    filter,      \* the filters bloom, console and ipc
    sub_seqno,   \* number of the last start or stop flooded
    list,        \* SubList, for replay
    sent,        \* the start or stop flooded with each number
    blm,         \* the _Z.BLM messages sent, in order
    active,      \* history: the routes when each number was the last
    auth,        \* AUTHENTICATED_STATE of the owner at a peer
    seen,        \* sub_seqno of the owner's UserBridge at a peer
    copy,        \* bloom of the owner's UserBridge at a peer
    recvd,       \* peer_recv_seqno: the last _Z.BLM handled
    asking,      \* ADJACENCY_REQUEST_STATE: the targets of open requests
    reqs,        \* adj_req messages in flight
    rpys,        \* adj_rpy messages in flight
    events       \* history: the events that MaxEvents bounds

owner   == <<ref, start, filter, sub_seqno, list, sent, blm, active>>
bridge  == <<auth, seen, copy, recvd>>
network == <<asking, reqs, rpys, events>>
vars    == <<owner, bridge, network>>

-----------------------------------------------------------------------------
(* Filters (BloomBits, of the kv library).  A hash is some bits, counted,  *)
(* that other hashes may share: to delete one that is not there takes bits *)
(* of others, here of those in lost ("dropping subs which have no start    *)
(* will cause corruption of the bloom", session.cpp).                      *)

Empty == [x \in Hashes |-> 0]

Add(f, x) == [f EXCEPT ![x] = @ + 1]

Del(f, x, lost) ==
    IF f[x] > 0 THEN [f EXCEPT ![x] = @ - 1]
    ELSE [y \in Hashes |-> IF y \in lost /\ f[y] > 0 THEN f[y] - 1 ELSE f[y]]

AddIf(b, f, x)       == IF b THEN Add(f, x) ELSE f
DelIf(b, f, x, lost) == IF b THEN Del(f, x, lost) ELSE f

(* what the deletion of x may cost *)
MayLose(x) == SUBSET (Hashes \ {x})

(* index_bloom: the hash of every route that has a holder in H *)
index_bloom(rf, H) ==
    [x \in Hashes |-> Cardinality({r \in Routes : Hash[r] = x /\ rf[r] \intersect H # {}})]

(* the filters in S built again, by resize_bloom and reseed_bloom *)
Rebuilt(S, f, rf) ==
    [bloom   |-> IF "bloom" \in S THEN index_bloom(rf, Holders) ELSE f.bloom,
     console |-> IF "console" \in S THEN index_bloom(rf, {Console}) ELSE f.console,
     ipc     |-> IF "ipc" \in S THEN index_bloom(rf, Tports) ELSE f.ipc]

-----------------------------------------------------------------------------
(* The owner                                                               *)

Active == {r \in Routes : ref[r] # {}}

(* the other subjects of the same hash *)
Colliding(r) == {q \in Subs \intersect Active : q # r /\ Hash[q] = Hash[r]}

(* resolve_coll looks at the references of the route itself: those of a    *)
(* new route are not set yet, those of a route that stops are not empty    *)
StartColl(r) == IF r \in Subs /\ Colliding(r) # {} THEN BOOLEAN ELSE {FALSE}

(* mutant: the bit of a subject that stops is deleted, shared or not *)
StopColl_Never(r) == FALSE

StopColl(r) == r \in Subs /\ Colliding(r) # {}

(* update_bloom of a start by holder h; rf are the references after it.    *)
(* For a subject the console and the ipc filter follow the first start     *)
(* alone.                                                                  *)
StartFilter(r, h, rf, upd) ==
    LET x == Hash[r]
    IN  [bloom   |-> AddIf(upd, filter.bloom, x),
         console |-> AddIf(h = Console /\ (r \in Subs => upd), filter.console, x),
         ipc     |-> AddIf(/\ h \in Tports
                           /\ Cardinality(rf[r] \intersect Tports) = 1
                           /\ r \in Subs => upd, filter.ipc, x)]

(* and of a stop, which deletes from the console's or the ipc filter what  *)
(* it may not have                                                         *)
StopFilter(r, h, rf, upd, lost) ==
    LET x == Hash[r]
    IN  [bloom   |-> DelIf(upd, filter.bloom, x, lost),
         console |-> DelIf(h = Console /\ (r \in Subs => upd), filter.console, x, lost),
         ipc     |-> DelIf(/\ h \in Tports
                           /\ rf[r] \intersect Tports = {}
                           /\ r \in Subs => upd, filter.ipc, x, lost)]

(* fwd_sub, fwd_psub: flood a first start or a last stop *)
fwd_sub(r, join, upd, rf) ==
    /\ sub_seqno < MaxSeqno
    /\ sub_seqno' = sub_seqno + 1
    /\ sent' = Append(sent, [sub |-> r, join |-> join, upd |-> upd])
    /\ active' = [s \in 0 .. sub_seqno + 1 |->
                    IF s = sub_seqno + 1 THEN {q \in Routes : rf[q] # {}} ELSE active[s]]

(* mutant: the number of the start or stop to come *)
Resize_Ahead(S, f, rf) ==
    /\ filter' = Rebuilt(S, f, rf)
    /\ IF "bloom" \in S
         THEN /\ Len(blm) < MaxBlm
              /\ blm' = Append(blm, [seqno |-> sub_seqno' + 1, bloom |-> filter'.bloom])
         ELSE UNCHANGED blm

(* resize_bloom of the filters in S; a new bloom filter is flooded with    *)
(* the number of the last start or stop                                    *)
Resize(S, f, rf) ==
    LET g == Rebuilt(S, f, rf)
    IN  /\ filter' = g
        /\ IF "bloom" \in S
             THEN /\ Len(blm) < MaxBlm
                  /\ blm' = Append(blm, [seqno |-> sub_seqno', bloom |-> g.bloom])
             ELSE UNCHANGED blm

(* sub_start and psub_start by the console or an ipc transport.  Only an   *)
(* add can leave a filter too small.                                       *)
sub_start(r, h) ==
    LET rf  == [ref EXCEPT ![r] = @ \union {h}]
        new == ref[r] = {}
    IN  /\ h \notin ref[r]
        /\ ref' = rf
        /\ \E coll \in StartColl(r) :
             LET f == StartFilter(r, h, rf, new /\ ~coll)
             IN  /\ IF new
                      THEN /\ start' = [start EXCEPT ![r] = sub_seqno + 1]
                           /\ list' = ListPush(list, [seqno |-> sub_seqno + 1, hash |-> Hash[r],
                                                      pat |-> r \in Pats])
                           /\ fwd_sub(r, TRUE, ~coll, rf)
                      ELSE UNCHANGED <<start, list, sub_seqno, sent, active>>
                 /\ \E S \in (IF f = filter THEN {{}} ELSE Resizes) : Resize(S, f, rf)
        /\ UNCHANGED <<bridge, network>>

(* sub_stop and psub_stop by a holder *)
sub_stop(r, h) ==
    LET rf   == [ref EXCEPT ![r] = @ \ {h}]
        gone == ref[r] = {h}
        upd  == gone /\ ~StopColl(r)
    IN  /\ h \in ref[r]
        /\ ref' = rf
        /\ filter' \in {StopFilter(r, h, rf, upd, lost) : lost \in MayLose(Hash[r])}
        /\ IF gone
             THEN /\ list' = ListPop(list, start[r])
                  /\ start' = [start EXCEPT ![r] = 0]
                  /\ fwd_sub(r, FALSE, upd, rf)
             ELSE UNCHANGED <<start, list, sub_seqno, sent, active>>
        /\ UNCHANGED <<blm, bridge, network>>

(* reseed_bloom, a console command *)
reseed_bloom ==
    /\ UNCHANGED sub_seqno
    /\ Resize(Filters, filter, ref)
    /\ UNCHANGED <<ref, start, list, sent, active, bridge, network>>

-----------------------------------------------------------------------------
(* Requests                                                                *)

Event == events < MaxEvents /\ events' = events + 1

(* the requests of p to t and their replies in flight *)
InFlight(p, t) ==
    Cardinality({m \in reqs : m.src = p /\ m.dst = t})
      + Cardinality({m \in rpys : m.src = t /\ m.dst = p})

(* send_adjacency_request of peer p to t, unless one is open.  It names    *)
(* the number p has for the owner: its own field if t is the owner, a      *)
(* record of peer_db if t is another peer.                                 *)
Request(p, t) ==
    /\ t \notin asking[p]
    /\ InFlight(p, t) < MaxReqs
    /\ asking' = [asking EXCEPT ![p] = @ \union {t}]
    /\ reqs' = reqs \union {[src |-> p, dst |-> t, seqno |-> seen[p]]}

(* a heartbeat of the owner, its handshake, or a start or stop after a gap *)
(* shows that p is behind                                                  *)
recv_hello(p) ==
    /\ auth[p]
    /\ seen[p] < sub_seqno
    /\ Request(p, Owner)
    /\ UNCHANGED <<owner, bridge, rpys, events>>

(* peer p synchronizes with peer t, for reasons of its own *)
AskPeer(p, t) ==
    /\ p \in Askers /\ auth[p] /\ t # p
    /\ Request(p, t)
    /\ UNCHANGED <<owner, bridge, rpys, events>>

(* send_adjacency; full if the reply has a filter (SYNC_SUB) *)
Reply(m, full, n, f) ==
    [src |-> m.dst, dst |-> m.src, full |-> full, seqno |-> n, bloom |-> f]

(* recv_adjacency_request at the owner *)
OwnerReply(m) ==
    /\ m.dst = Owner
    /\ reqs' = reqs \ {m}
    /\ rpys' = rpys \union {IF sub_seqno > m.seqno THEN Reply(m, TRUE, sub_seqno, filter.bloom)
                                                   ELSE Reply(m, FALSE, 0, Empty)}
    /\ UNCHANGED <<owner, bridge, asking, events>>

(* recv_adjacency_request at another peer, for the record of the owner: it *)
(* replies with its copy if it is newer ...                                *)
PeerReplyCopy(m) ==
    LET q == m.dst
    IN  /\ q \in Peers
        /\ auth[q] /\ seen[q] > m.seqno
        /\ reqs' = reqs \ {m}
        /\ rpys' = rpys \union {Reply(m, TRUE, seen[q], copy[q])}
        /\ UNCHANGED <<owner, bridge, asking, events>>

(* ... and otherwise with nothing; it asks the owner if its copy is older *)
PeerReplyNone(m) ==
    LET q   == m.dst
        ask == auth[q] /\ seen[q] < m.seqno /\ Owner \notin asking[q]
    IN  /\ q \in Peers
        /\ auth[q] => seen[q] <= m.seqno
        /\ rpys' = rpys \union {Reply(m, FALSE, 0, Empty)}
        /\ asking' = [asking EXCEPT ![q] = IF ask THEN @ \union {Owner} ELSE @]
        /\ reqs' = (reqs \ {m}) \union
              (IF ask THEN {[src |-> q, dst |-> Owner, seqno |-> seen[q]]} ELSE {})
        /\ UNCHANGED <<owner, bridge, events>>

(* mutant: nothing takes an unanswered request out of adj_queue *)
RequestTimeout_Never(p, t) == FALSE /\ UNCHANGED vars

(* check_user_timeout: the adj_queue entry of an unanswered request *)
RequestTimeout(p, t) ==
    /\ t \in asking[p]
    /\ asking' = [asking EXCEPT ![p] = @ \ {t}]
    /\ UNCHANGED <<owner, bridge, reqs, rpys, events>>

(* the network loses a message, or the inbox seqno test drops it *)
Lose(m) ==
    /\ Event
    /\ reqs' = reqs \ {m}
    /\ rpys' = rpys \ {m}
    /\ UNCHANGED <<owner, bridge, asking>>

-----------------------------------------------------------------------------
(* The copy of a peer                                                      *)

(* recv_sub_start, recv_sub_stop and the same for patterns *)
Apply(f, m, lost) ==
    IF m.join THEN AddIf(m.upd, f, Hash[m.sub]) ELSE DelIf(m.upd, f, Hash[m.sub], lost)

(* mutant: a start or a stop after a gap is applied too *)
Next_Gap(p, s) == s > seen[p]

(* the only number SessionMgr::on_msg takes *)
NextSub(p, s) == s = seen[p] + 1

(* U_SUB_JOIN, U_SUB_LEAVE, U_PSUB_START, U_PSUB_STOP of SessionMgr::on_msg *)
on_sub(p, s) ==
    /\ auth[p]
    /\ NextSub(p, s)
    /\ seen' = [seen EXCEPT ![p] = s]
    /\ copy' \in {[copy EXCEPT ![p] = Apply(@, sent[s], lost)] :
                     lost \in MayLose(Hash[sent[s].sub])}
    /\ UNCHANGED <<owner, auth, recvd, network>>

(* U_BLOOM_FILTER of SessionMgr::on_msg and recv_bloom_result *)
recv_bloom_result(p, k) ==
    /\ auth[p]
    /\ k > recvd[p]
    /\ recvd' = [recvd EXCEPT ![p] = k]
    /\ IF blm[k].seqno >= seen[p]
         THEN /\ seen' = [seen EXCEPT ![p] = blm[k].seqno]
              /\ copy' = [copy EXCEPT ![p] = blm[k].bloom]
         ELSE UNCHANGED <<seen, copy>>
    /\ UNCHANGED <<owner, auth, network>>

(* recv_adjacency_result.  A peer that dropped the owner takes it back     *)
(* when another peer still has it.                                         *)
recv_adjacency_result(m) ==
    LET p     == m.dst
        newer == m.full /\ m.seqno > seen[p]
    IN  /\ auth[p] \/ m.src # Owner
        /\ auth' = [auth EXCEPT ![p] = @ \/ m.full]
        /\ asking' = [asking EXCEPT ![p] = @ \ {m.src}]
        /\ rpys' = rpys \ {m}
        /\ seen' = [seen EXCEPT ![p] = IF newer THEN m.seqno ELSE @]
        /\ copy' = [copy EXCEPT ![p] = IF newer THEN m.bloom ELSE @]
        /\ UNCHANGED <<owner, recvd, reqs, events>>

(* a reply of the owner to a peer that does not trust it is ignored *)
Ignore(m) ==
    /\ ~auth[m.dst]
    /\ m.src = Owner
    /\ rpys' = rpys \ {m}
    /\ UNCHANGED <<owner, bridge, asking, reqs, events>>

(* mutant: the number of the copy survives its filter *)
Forgotten_Number(p) == seen[p]

(* sub_seqno of a user that was dropped *)
ForgottenSeqno(p) == 0

(* mutant: the filter of the copy survives its number *)
Forgotten_Filter(p) == copy[p]

(* bloom of a user that was dropped *)
ForgottenFilter(p) == Empty

(* remove_authenticated of the owner *)
Forget(p) ==
    /\ auth[p]
    /\ Event
    /\ auth' = [auth EXCEPT ![p] = FALSE]
    /\ seen' = [seen EXCEPT ![p] = ForgottenSeqno(p)]
    /\ copy' = [copy EXCEPT ![p] = ForgottenFilter(p)]
    /\ asking' = [asking EXCEPT ![p] = @ \ {Owner}]
    /\ UNCHANGED <<owner, recvd, reqs, rpys>>

(* add_authenticated of the owner, by a handshake *)
Trust(p) ==
    /\ ~auth[p]
    /\ auth' = [auth EXCEPT ![p] = TRUE]
    /\ UNCHANGED <<owner, seen, copy, recvd, network>>

-----------------------------------------------------------------------------
Init ==
    /\ ref = [r \in Routes |-> {}]
    /\ start = [r \in Routes |-> 0]
    /\ filter = [bloom |-> Empty, console |-> Empty, ipc |-> Empty]
    /\ sub_seqno = 0
    /\ list = << >>
    /\ sent = << >>
    /\ blm = << >>
    /\ active = [s \in {0} |-> {}]
    /\ auth = [p \in Peers |-> TRUE]
    /\ seen = [p \in Peers |-> 0]
    /\ copy = [p \in Peers |-> Empty]
    /\ recvd = [p \in Peers |-> 0]
    /\ asking = [p \in Peers |-> {}]
    /\ reqs = {} /\ rpys = {}
    /\ events = 0

Next ==
    \/ \E r \in Routes, h \in Holders : sub_start(r, h) \/ sub_stop(r, h)
    \/ reseed_bloom
    \/ \E p \in Peers :
         \/ recv_hello(p)
         \/ Forget(p)
         \/ Trust(p)
         \/ \E t \in Peers : AskPeer(p, t)
         \/ \E t \in Peers \union {Owner} : RequestTimeout(p, t)
         \/ \E s \in 1 .. sub_seqno : on_sub(p, s)
         \/ \E k \in 1 .. Len(blm) : recv_bloom_result(p, k)
    \/ \E m \in reqs : OwnerReply(m) \/ PeerReplyCopy(m) \/ PeerReplyNone(m) \/ Lose(m)
    \/ \E m \in rpys : recv_adjacency_result(m) \/ Ignore(m) \/ Lose(m)

Spec == Init /\ [][Next]_vars

-----------------------------------------------------------------------------
(* Properties                                                              *)

Requests == [src : Peers, dst : Peers \union {Owner}, seqno : Nat]
Filter   == [Hashes -> Nat]
Replies  == [src : Peers \union {Owner}, dst : Peers, full : BOOLEAN, seqno : Nat, bloom : Filter]

(* The types of the state; the number a peer, a filter or a reply names is *)
(* one the owner has given out.                                            *)
TypeOK ==
    /\ ref \in [Routes -> SUBSET Holders]
    /\ start \in [Routes -> Nat]
    /\ filter \in [bloom : Filter, console : Filter, ipc : Filter]
    /\ sub_seqno \in Nat
    /\ sent \in Seq([sub : Routes, join : BOOLEAN, upd : BOOLEAN]) /\ Len(sent) = sub_seqno
    /\ blm \in Seq([seqno : 0 .. sub_seqno, bloom : Filter])
    /\ active \in [0 .. sub_seqno -> SUBSET Routes]
    /\ auth \in [Peers -> BOOLEAN]
    /\ seen \in [Peers -> 0 .. sub_seqno]
    /\ copy \in [Peers -> Filter]
    /\ recvd \in [Peers -> Nat]
    /\ asking \in [Peers -> SUBSET (Peers \union {Owner})]
    /\ reqs \subseteq Requests
    /\ rpys \subseteq Replies
    /\ \A m \in reqs \union rpys : m.seqno <= sub_seqno
    /\ events \in Nat

(* what a filter needs for the routes in R: a hash that subjects share is  *)
(* there once, and once more for every pattern that has it                 *)
Need(R, x) ==
    (IF \E r \in R \intersect Subs : Hash[r] = x THEN 1 ELSE 0)
      + Cardinality({r \in R \intersect Pats : Hash[r] = x})

Covers(f, R) == \A r \in R : f[Hash[r]] > 0

(* No subscriber is left out: the filter by which a node takes messages    *)
(* has the hash of every subscription, and the copy by which a peer sends  *)
(* them that of every subscription the owner had at the peer's number, so  *)
(* a peer that is not behind reaches all of them (update_bloom with        *)
(* resolve_coll, index_bloom, the sequence test of SessionMgr::on_msg,     *)
(* recv_bloom, send_adjacency).                                            *)
NoneMissed ==
    /\ Covers(filter.bloom, Active)
    /\ \A p \in Peers : Covers(copy[p], active[seen[p]])

Shared(x) == \E r, q \in Subs : r # q /\ Hash[r] = x /\ Hash[q] = x

(* Nor does a copy keep what was stopped, as long as no two subjects have  *)
(* the same hash: it counts the subscriptions of its number, neither one   *)
(* twice after a repeat nor one less after a stop it saw twice ("the       *)
(* leave, stop must be updated in order", session.cpp).                    *)
CopyExact ==
    \A p \in Peers : auth[p] =>
        \A x \in Hashes :
            Shared(x) \/ copy[p][x] = Cardinality({r \in active[seen[p]] : Hash[r] = x})

(* The list replays each subscription once, in the order they started, and *)
(* finds its route by the hash and the number it keeps (recv_subs_request, *)
(* find_fwd_sub, find_fwd_psub).                                           *)
ListExact ==
    LET replay == Replay(list, 1, sub_seqno)
    IN  /\ Len(replay) = Cardinality(Active)
        /\ \A i, j \in DOMAIN replay : i < j => replay[i].seqno < replay[j].seqno
        /\ \A r \in Active :
             \E i \in DOMAIN replay :
                replay[i] = [seqno |-> start[r], hash |-> Hash[r], pat |-> r \in Pats]

(* The console and the ipc transports take the messages of what they hold: *)
(* their own filter has the hash ("test() separates console, ipc and also  *)
(* adds to bloom", index_bloom of sub.cpp).  update_bloom does not keep    *)
(* this for subjects, and a subject may then take a pattern's bits.        *)
HolderTakes(r) ==
    /\ Console \in ref[r] => filter.console[Hash[r]] > 0
    /\ ref[r] \intersect Tports # {} => filter.ipc[Hash[r]] > 0

SubjectsLocal == \A r \in Subs : HolderTakes(r)
PatternsLocal == \A r \in Pats : HolderTakes(r)

-----------------------------------------------------------------------------
(* Fairness: heartbeats are sent and heard, timers run, what is not lost   *)
(* arrives, and a dropped owner that is alive authenticates again.         *)

Fairness ==
    /\ \A p \in Peers : /\ WF_vars(recv_hello(p))
                        /\ WF_vars(Trust(p))
                        /\ \A t \in Peers \union {Owner} : WF_vars(RequestTimeout(p, t))
                        /\ WF_vars(\E m \in reqs : m.src = p /\ OwnerReply(m))
                        /\ WF_vars(\E m \in rpys : /\ m.dst = p /\ m.src = Owner
                                                   /\ recv_adjacency_result(m) \/ Ignore(m))

FairSpec == Spec /\ Fairness

(* Once the owner's subscriptions are quiet every peer gets to its number, *)
(* whatever floods, requests and replies are lost, refused or late.        *)
Synced == \A p \in Peers : <>[](auth[p] /\ seen[p] = sub_seqno)
=============================================================================

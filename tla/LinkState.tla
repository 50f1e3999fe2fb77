------------------------------ MODULE LinkState ------------------------------
(***************************************************************************)
(* Replication of one node's adjacency (src/src/link_state.cpp).           *)
(*                                                                         *)
(* The owner keeps the set of links it has (uid_connected of each of its   *)
(* transports), queues a record for every link that goes up or down        *)
(* (adjacency_change) and floods the queue in one _Z.ADJ message numbered  *)
(* by its link_state_seqno.  Every other node keeps a copy of the owner's  *)
(* adjacency in the UserBridge it has for the owner, applies the changes   *)
(* in sequence, defers the records that name a node it does not know       *)
(* (adjacency_unknown) and resynchronizes with adj_req / adj_rpy, either   *)
(* from the owner or from another node that holds a copy.                  *)
(*                                                                         *)
(* _Z.ADJ messages may be lost and arrive late; a late or repeated one is  *)
(* dropped by the peer_recv_seqno test of SessionMgr::on_msg.  Requests    *)
(* and replies travel on the inbox path, unordered with _Z.ADJ, and may be *)
(* lost.                                                                   *)
(***************************************************************************)
EXTENDS Integers, Sequences, FiniteSets

CONSTANTS
    Replicas,    \* nodes that hold a copy of the owner's adjacency
    Peers,       \* nodes the owner may have a link to
    Links,       \* links of the owner: a transport and the peer on it
    PeerOf,      \* the peer a link leads to
    Owner,       \* the owner, as the target of a request
    NoPending,   \* no AdjPending of the owner in adjacency_unknown
    FoundInit,   \* the peers each replica knows at the start
    MaxSeqno,    \* bound: _Z.ADJ messages the owner sends
    MaxReqs,     \* bound: adj_req and adj_rpy in flight
    NullLimit,   \* null_sync_res above which a sync restarts (5 in the code)
    MaxForget,   \* bound: times a replica drops the owner
    Remaps,      \* the owner may see a link move to another descriptor
    Timeouts     \* the owner of a deferred record may time out

ASSUME LinkStateAssumption ==
    /\ PeerOf \in [Links -> Peers]
    /\ Owner \notin Replicas
    /\ NoPending \notin [seqno : Nat, recs : UNION {[D -> BOOLEAN] : D \in SUBSET Links}]
    /\ FoundInit \in [Replicas -> SUBSET Peers]
    /\ NullLimit \in Nat
    /\ MaxSeqno \in Nat /\ MaxReqs \in Nat /\ MaxForget \in Nat
    /\ Remaps \in BOOLEAN /\ Timeouts \in BOOLEAN

VARIABLES
    links,       \* uid_connected of the owner's transports
    change,      \* adjacency_change of the owner
    seqno,       \* link_state_seqno of the owner
    sent,        \* the records of each _Z.ADJ, by link_state_seqno
    hist,        \* history: links when each _Z.ADJ was sent
    misreported, \* history: links the queue ever described wrongly
    auth,        \* AUTHENTICATED_STATE of the owner at a replica
    found,       \* peers in node_ht or zombie_ht of a replica
    forgot,      \* history: times the owner was dropped
    copy,        \* what a replica's UserBridge for the owner holds
    recvd,       \* peer_recv_seqno: last _Z.ADJ handled
    asking,      \* ADJACENCY_REQUEST_STATE: the targets of open requests
    nullRes,     \* null_sync_res, capped above NullLimit
    lastReq,     \* last_req_seqno
    reqs,        \* adj_req messages in flight
    rpys         \* adj_rpy and sync_rpy messages in flight

owner   == <<links, change, seqno, sent, hist, misreported>>
nodes   == <<auth, found, forgot>>
session == <<recvd, asking, nullRes, lastReq>>
network == <<reqs, rpys>>
vars    == <<owner, nodes, copy, session, network>>

-----------------------------------------------------------------------------
(* Adjacency records.  The records of one message are applied in order, so *)
(* for each link the last one decides: a record list is a function from    *)
(* the links it mentions to "added".                                       *)

RecLists == UNION {[D -> BOOLEAN] : D \in SUBSET Links}

Apply(S, recs) ==
    {l \in DOMAIN recs : recs[l]} \union (S \ DOMAIN recs)

Merge(recs, more) ==
    [l \in DOMAIN recs \union DOMAIN more |->
        IF l \in DOMAIN more THEN more[l] ELSE recs[l]]

Only(recs, D) == [l \in DOMAIN recs \intersect D |-> recs[l]]

Snapshot(S) == [l \in S |-> TRUE]

(* the links whose peer is in F *)
To(F) == {l \in Links : PeerOf[l] \in F}

Queued(q) == {q[i].link : i \in DOMAIN q}

(* what the queue of the owner says, once it is applied in order *)
Net(q) ==
    [l \in Queued(q) |->
        \E i \in DOMAIN q : /\ q[i] = [link |-> l, add |-> TRUE]
                            /\ \A j \in DOMAIN q : j > i => q[j].link # l]

(* mutant: any record of the link stands for the new one *)
Enqueue_ByLink(q, l, a) ==
    IF l \in Queued(q) THEN q ELSE Append(q, [link |-> l, add |-> a])

(* AdjChangeList::append: a record equal to one in the queue is not added *)
Enqueue(q, l, a) ==
    IF \E i \in DOMAIN q : q[i] = [link |-> l, add |-> a]
      THEN q
      ELSE Append(q, [link |-> l, add |-> a])

(* the links for which the queue q does not lead from the adjacency last   *)
(* sent to the adjacency S                                                 *)
Wrong(S, q) == {l \in Links : (l \in S) # (l \in Apply(hist[seqno], Net(q)))}

-----------------------------------------------------------------------------
(* The owner                                                               *)

Requeue(S, q) ==
    /\ links' = S
    /\ change' = q
    /\ misreported' = misreported \union Wrong(S, q)
    /\ UNCHANGED <<seqno, sent, hist>>

(* mutant: the message takes the number of the one before *)
Flush_KeepsSeqno(S, q) ==
    /\ seqno < MaxSeqno
    /\ links' = S
    /\ change' = << >>
    /\ sent' = [k \in 1 .. seqno + 1 |-> IF k = seqno + 1 THEN Net(q) ELSE sent[k]]
    /\ UNCHANGED <<seqno, hist, misreported>>

(* the same, followed by send_adjacency_change *)
Flush(S, q) ==
    /\ seqno < MaxSeqno
    /\ links' = S
    /\ change' = << >>
    /\ misreported' = misreported \union Wrong(S, q)
    /\ seqno' = seqno + 1
    /\ sent' = [k \in 1 .. seqno + 1 |-> IF k = seqno + 1 THEN Net(q) ELSE sent[k]]
    /\ hist' = [k \in 0 .. seqno + 1 |-> IF k = seqno + 1 THEN S ELSE hist[k]]

(* push_connected_user_route; add_authenticated flushes the queue unless   *)
(* the peer is at the first stage of the handshake                         *)
PushConnectedUserRoute(l, flush) ==
    /\ l \notin links
    /\ IF flush THEN Flush(links \union {l}, Enqueue(change, l, TRUE))
                ELSE Requeue(links \union {l}, Enqueue(change, l, TRUE))
    /\ UNCHANGED <<nodes, copy, session, network>>

(* pop_user_route from retire_source or remove_authenticated, which flush *)
PopUserRoute(l) ==
    /\ l \in links
    /\ Flush(links \ {l}, Enqueue(change, l, FALSE))
    /\ UNCHANGED <<nodes, copy, session, network>>

(* add_user_route when a message of the peer arrives from another          *)
(* descriptor of the transport: the route is popped and pushed again, as a *)
(* direct link when the message is a heartbeat, not direct otherwise       *)
RemapUserRoute(l, direct) ==
    /\ Remaps
    /\ l \in links
    /\ LET popped == Enqueue(change, l, FALSE)
       IN  IF direct THEN Requeue(links, Enqueue(popped, l, TRUE))
                     ELSE Requeue(links \ {l}, popped)
    /\ UNCHANGED <<nodes, copy, session, network>>

(* TransportRoute::update_cost: the link is advertised again *)
UpdateCost(l) ==
    /\ Remaps
    /\ l \in links
    /\ Requeue(links, Enqueue(change, l, TRUE))
    /\ UNCHANGED <<nodes, copy, session, network>>

(* send_adjacency_change from the idle loop or the timer *)
SendAdjacencyChange ==
    /\ change # << >>
    /\ Flush(links, change)
    /\ UNCHANGED <<nodes, copy, session, network>>

-----------------------------------------------------------------------------
(* The copy of a replica, an operator for each way it changes             *)

(* ls      : link_state_seqno         refs : unknown_adj_refs # 0          *)
(* adj     : adjacency                unk  : unknown_link_seqno            *)
(* pend    : the AdjPending of the owner in adjacency_unknown              *)
(* suspect : history, the links that deferral touched since the last       *)
(*           adjacency that replaced the copy                              *)
EmptyCopy == [ls |-> 0, adj |-> {}, refs |-> FALSE, unk |-> 0,
              pend |-> NoPending, suspect |-> {}]

(* save_unknown_adjacency for a change: the records join the ones already  *)
(* deferred                                                                *)
SaveUnknown(p, s, recs) ==
    [seqno |-> s, recs |-> IF p = NoPending THEN recs ELSE Merge(p.recs, recs)]

(* recv_adjacency_change, the next change in sequence: apply the records   *)
(* of the peers in F, save the others, advance if none is outstanding      *)
NextChange(c, s, F) ==
    LET unknown == Only(sent[s], Links \ To(F))
        changed == [c EXCEPT !.adj = Apply(@, Only(sent[s], To(F))),
                             !.suspect = @ \union IF c.refs THEN DOMAIN sent[s]
                                                            ELSE DOMAIN unknown]
    IN  IF DOMAIN unknown # {}
          THEN [changed EXCEPT !.refs = TRUE, !.unk = s,
                               !.pend = SaveUnknown(@, s, unknown)]
          ELSE IF c.refs THEN changed ELSE [changed EXCEPT !.ls = s]

(* recv_adjacency_change, the change that follows the deferred ones *)
UnknownChange(c, s, F) ==
    LET unknown == Only(sent[s], Links \ To(F))
    IN  [c EXCEPT !.adj = Apply(@, Only(sent[s], To(F))),
                  !.refs = @ \/ DOMAIN unknown # {},
                  !.unk = s,
                  !.pend = SaveUnknown(@, s, unknown),
                  !.suspect = @ \union DOMAIN unknown]

(* mutant: unknown_link_seqno is not reset *)
ClearUnknown_KeepsSeqno(c) == [c EXCEPT !.refs = FALSE, !.pend = NoPending]

(* clear_unknown_adjacency *)
ClearUnknown(c) == [c EXCEPT !.refs = FALSE, !.unk = 0, !.pend = NoPending]

(* add_unknown_adjacency discards what no longer follows from the copy *)
Outdated(c, authentic) ==
    \/ ~authentic
    \/ c.ls >= c.pend.seqno
    \/ c.unk # c.pend.seqno

(* add_unknown_adjacency( &n ), where the deferred records of the peers in *)
(* X are applied; the copy advances when no deferred record is left        *)
AddUnknown(c, authentic, X) ==
    LET rest == Only(c.pend.recs, Links \ To(X))
        adj  == Apply(c.adj, Only(c.pend.recs, To(X)))
    IN  CASE c.pend = NoPending -> c
          [] c.pend # NoPending /\ Outdated(c, authentic) -> ClearUnknown(c)
          [] c.pend # NoPending /\ ~Outdated(c, authentic) ->
               IF DOMAIN rest = {}
                 THEN [ClearUnknown(c) EXCEPT !.ls = c.pend.seqno, !.adj = adj]
                 ELSE [c EXCEPT !.adj = adj, !.pend.recs = rest]

(* add_unknown_adjacency( NULL ): the peers in X are gone for good *)
DiscardUnknown(c, authentic, X) ==
    IF /\ c.pend # NoPending
       /\ \/ Outdated(c, authentic)
          \/ DOMAIN c.pend.recs \intersect To(X) # {}
          \/ DOMAIN c.pend.recs = {}
      THEN ClearUnknown(c)
      ELSE c

(* mutant: the sets of the copy are not zeroed first *)
ReplaceCopy_NoZero(c, m, F) ==
    [ClearUnknown(c) EXCEPT !.ls = m.seqno, !.adj = @ \union m.links,
                            !.suspect = m.suspect]

(* recv_adjacency_result, an adjacency that replaces the copy *)
ReplaceCopy(c, m, F) ==
    LET unknown == m.links \ To(F)
        cleared == IF c.refs THEN ClearUnknown(c) ELSE c
        changed == [cleared EXCEPT !.adj = m.links \intersect To(F),
                                   !.suspect = m.suspect \union unknown]
    IN  IF unknown = {}
          THEN [changed EXCEPT !.ls = m.seqno]
          ELSE [changed EXCEPT !.refs = TRUE, !.unk = m.seqno,
                  !.pend = [seqno |-> m.seqno, recs |-> Snapshot(unknown)],
                  !.suspect = IF m.seqno < c.ls THEN Links ELSE @]

(* mutant: the adjacency is reset and its seqno is not *)
ResetCopy_KeepsSeqno(c, keep) == [EmptyCopy EXCEPT !.ls = c.ls]

(* remove_authenticated: the copy is reset, but what was deferred stays    *)
(* after a heartbeat timeout                                               *)
ResetCopy(c, keep) ==
    IF keep /\ c.refs
      THEN [c EXCEPT !.ls = 0, !.adj = {}, !.suspect = Links]
      ELSE EmptyCopy

-----------------------------------------------------------------------------
(* Requests for the adjacency of the owner                                 *)

(* send_adjacency_request: one open request for each target.  A request    *)
(* that find_inconsistent makes of the owner asks for everything (seqno 0) *)
(* when earlier ones brought nothing; the reason of a request to another   *)
(* replica q depends on the copy of q's own adjacency and is arbitrary.    *)
Request(r, to, dijkstra, null) ==
    LET s == IF null /\ to = Owner THEN 0 ELSE copy[r].ls
    IN  /\ to \notin asking[r]
        /\ Cardinality(reqs) + Cardinality(rpys) < MaxReqs
        /\ asking' = [asking EXCEPT ![r] = @ \union {to}]
        /\ lastReq' = IF to = Owner THEN [lastReq EXCEPT ![r] = s] ELSE lastReq
        /\ reqs' = reqs \union {[src |-> r, dst |-> to, seqno |-> s, has |-> auth[r],
                                 dijkstra |-> dijkstra, null |-> null]}
        /\ UNCHANGED rpys

(* throttle_request: the request is open or the last one was too recent *)
Throttled == UNCHANGED <<asking, lastReq, network>>

(* on_heartbeat, recv_mcast_sync_request, on_inbox_auth and on_msg, which  *)
(* compare what the owner announced (link_state, sub_seqno, uid_csum) with *)
(* what the replica has; sub_seqno and uid_csum are not modelled, so the   *)
(* test may come out either way                                            *)
SyncRequest(r) ==
    /\ auth[r]
    /\ Request(r, Owner, FALSE, FALSE)
    /\ UNCHANGED <<owner, nodes, copy, recvd, nullRes>>

(* find_inconsistent: the copy and the adjacency of the node at the other  *)
(* end of a link disagree.  That adjacency may be stale as well, so the    *)
(* test may come out either way.                                           *)
DijkstraRequest(r) ==
    /\ auth[r]
    /\ LET null == \/ nullRes[r] > NullLimit
                   \/ nullRes[r] > 0 /\ lastReq[r] = copy[r].ls
       IN  Request(r, Owner, TRUE, null)
    /\ UNCHANGED <<owner, nodes, copy, recvd, nullRes>>

(* a request to another replica, with the seqno of the copy in its peer_db *)
RelayRequest(r, q, dijkstra, null) ==
    /\ r # q
    /\ null => dijkstra
    /\ Request(r, q, dijkstra, null)
    /\ UNCHANGED <<owner, nodes, copy, recvd, nullRes>>

Reply(m, s, S, full, doubt) ==
    [src |-> m.dst, dst |-> m.src, seqno |-> s, links |-> S, full |-> full,
     dijkstra |-> m.dijkstra, null |-> m.null, suspect |-> doubt]

(* recv_adjacency_request at the owner: the whole adjacency if it is newer *)
OwnerRecvRequest(m) ==
    /\ m.dst = Owner
    /\ reqs' = reqs \ {m}
    /\ rpys' = rpys \union
          {IF seqno > m.seqno THEN Reply(m, seqno, links, TRUE, {})
                              ELSE Reply(m, 0, {}, FALSE, {})}
    /\ UNCHANGED <<owner, nodes, copy, session>>

(* recv_adjacency_request at a replica, for the owner's record of peer_db: *)
(* reply with the copy if it is newer, or if the reason is that uid_csum   *)
(* differs and the requester has no record of the owner ...                *)
RelayReplyCopy(m) ==
    LET q == m.dst
    IN  /\ q \in Replicas
        /\ auth[q]
        /\ copy[q].ls > m.seqno \/ ~m.has
        /\ reqs' = reqs \ {m}
        /\ rpys' = rpys \union {Reply(m, copy[q].ls, copy[q].adj, TRUE, copy[q].suspect)}
        /\ UNCHANGED <<owner, nodes, copy, session>>

(* ... and otherwise with nothing, asking the owner if the copy is older *)
RelayReplyNone(m) ==
    LET q == m.dst
    IN  /\ q \in Replicas
        /\ auth[q] /\ m.has => copy[q].ls <= m.seqno
        /\ rpys' = rpys \union {Reply(m, 0, {}, FALSE, {})}
        /\ \/ /\ auth[q] /\ m.has
              /\ copy[q].ls < m.seqno
              /\ Owner \notin asking[q]
              /\ asking' = [asking EXCEPT ![q] = @ \union {Owner}]
              /\ lastReq' = [lastReq EXCEPT ![q] = copy[q].ls]
              /\ reqs' = (reqs \ {m}) \union
                    {[src |-> q, dst |-> Owner, seqno |-> copy[q].ls, has |-> TRUE,
                      dijkstra |-> FALSE, null |-> FALSE]}
           \/ /\ reqs' = reqs \ {m}
              /\ UNCHANGED <<asking, lastReq>>
        /\ UNCHANGED <<owner, nodes, copy, recvd, nullRes>>

(* check_user_timeout: the adj_queue entry of an unanswered request *)
RequestTimeout(r, to) ==
    /\ to \in asking[r]
    /\ asking' = [asking EXCEPT ![r] = @ \ {to}]
    /\ UNCHANGED <<owner, nodes, copy, recvd, nullRes, lastReq, network>>

(* the network loses a message, or the inbox seqno test drops it *)
LoseRequest(m) ==
    /\ reqs' = reqs \ {m}
    /\ UNCHANGED <<owner, nodes, copy, session, rpys>>

LoseReply(m) ==
    /\ rpys' = rpys \ {m}
    /\ UNCHANGED <<owner, nodes, copy, session, reqs>>

-----------------------------------------------------------------------------
(* Changes and replies received by a replica                               *)

(* recv_adjacency_change; the session drops a _Z.ADJ that is not newer     *)
(* than the last one                                                       *)
RecvAdjacencyChange(r, s) ==
    LET c == copy[r]
    IN  /\ auth[r]
        /\ s > recvd[r]
        /\ recvd' = [recvd EXCEPT ![r] = s]
        /\ \/ /\ s = c.ls + 1
              /\ copy' = [copy EXCEPT ![r] = NextChange(c, s, found[r])]
              /\ UNCHANGED <<asking, lastReq, network>>
           \/ /\ s > c.ls + 1 /\ s = c.unk + 1
              /\ copy' = [copy EXCEPT ![r] = UnknownChange(c, s, found[r])]
              /\ UNCHANGED <<asking, lastReq, network>>
           \/ /\ s > c.ls + 1 /\ s # c.unk + 1
              /\ Request(r, Owner, FALSE, FALSE) \/ Throttled
              /\ UNCHANGED copy
           \/ /\ s <= c.ls
              /\ UNCHANGED <<copy, asking, lastReq, network>>
        /\ UNCHANGED <<owner, nodes, nullRes>>

(* recv_adjacency_result.  A replica that dropped the owner takes it back  *)
(* when another replica still has it.  null_sync_res counts the replies    *)
(* that brought nothing, unless a node was authenticated just before.      *)
RecvAdjacencyResult(m) ==
    LET r     == m.dst
        c     == IF auth[r] THEN copy[r] ELSE AddUnknown(copy[r], TRUE, {})
        newer == /\ m.full
                 /\ \/ m.seqno > c.ls
                    \/ m.null
                    \/ nullRes[r] > NullLimit /\ m.seqno = c.ls
    IN  /\ auth[r] \/ (m.full /\ m.src # Owner)
        /\ auth' = [auth EXCEPT ![r] = TRUE]
        /\ rpys' = rpys \ {m}
        /\ asking' = [asking EXCEPT ![r] = @ \ {m.src}]
        /\ copy' = [copy EXCEPT ![r] = IF newer THEN ReplaceCopy(c, m, found[r]) ELSE c]
        /\ \/ newer /\ nullRes' = [nullRes EXCEPT ![r] = 0]
           \/ ~newer /\ UNCHANGED nullRes
           \/ /\ ~newer /\ m.dijkstra /\ nullRes[r] <= NullLimit
              /\ nullRes' = [nullRes EXCEPT ![r] = @ + 1]
        /\ UNCHANGED <<owner, found, forgot, recvd, lastReq, reqs>>

-----------------------------------------------------------------------------
(* Nodes that come and go at a replica                                     *)

(* add_user: a peer is known from its hello, not authenticated yet *)
AddUser(r, x) ==
    /\ x \notin found[r]
    /\ found' = [found EXCEPT ![r] = @ \union {x}]
    /\ UNCHANGED <<owner, auth, forgot, copy, session, network>>

(* add_authenticated of a peer, new or known.  A peer that is removed      *)
(* later stays in zombie_ht, where add_adjacency_change finds it.          *)
AddAuthenticated(r, x) ==
    /\ found' = [found EXCEPT ![r] = @ \union {x}]
    /\ copy' = [copy EXCEPT ![r] = AddUnknown(@, auth[r], {x})]
    /\ UNCHANGED <<owner, auth, forgot, session, network>>

(* recv_peer_add answering a sync_req for a peer that is gone *)
RecvByeUnknown(r, x) ==
    /\ x \notin found[r]
    /\ copy' = [copy EXCEPT ![r] = DiscardUnknown(@, auth[r], {x})]
    /\ copy' # copy
    /\ UNCHANGED <<owner, nodes, session, network>>

(* process_unknown_adjacency: nobody could tell who the unknown peer is,   *)
(* or no deferred record is left                                           *)
PendingTimeout(r) ==
    /\ copy[r].pend # NoPending
    /\ Timeouts \/ DOMAIN copy[r].pend.recs = {}
    /\ copy' = [copy EXCEPT ![r].pend = NoPending]
    /\ UNCHANGED <<owner, nodes, session, network>>

(* remove_authenticated of the owner, by heartbeat timeout if keep *)
RemoveOwner(r, keep) ==
    /\ auth[r]
    /\ forgot[r] < MaxForget
    /\ forgot' = [forgot EXCEPT ![r] = @ + 1]
    /\ auth' = [auth EXCEPT ![r] = FALSE]
    /\ copy' = [copy EXCEPT ![r] = ResetCopy(@, keep)]
    /\ asking' = [asking EXCEPT ![r] = @ \ {Owner}]
    /\ UNCHANGED <<owner, found, recvd, nullRes, lastReq, network>>

(* add_authenticated of the owner, by a handshake or by _Z.ADD *)
AddOwner(r) ==
    /\ ~auth[r]
    /\ auth' = [auth EXCEPT ![r] = TRUE]
    /\ copy' = [copy EXCEPT ![r] = AddUnknown(@, TRUE, {})]
    /\ UNCHANGED <<owner, found, forgot, session, network>>

-----------------------------------------------------------------------------
Init ==
    /\ links = {} /\ change = << >> /\ seqno = 0
    /\ sent = << >> /\ hist = [k \in {0} |-> {}] /\ misreported = {}
    /\ auth = [r \in Replicas |-> TRUE]
    /\ found = FoundInit
    /\ forgot = [r \in Replicas |-> 0]
    /\ copy = [r \in Replicas |-> EmptyCopy]
    /\ recvd = [r \in Replicas |-> 0]
    /\ asking = [r \in Replicas |-> {}]
    /\ nullRes = [r \in Replicas |-> 0]
    /\ lastReq = [r \in Replicas |-> 0]
    /\ reqs = {} /\ rpys = {}

OwnerNext ==
    \/ \E l \in Links : \/ \E flush \in BOOLEAN : PushConnectedUserRoute(l, flush)
                       \/ PopUserRoute(l)
                       \/ \E direct \in BOOLEAN : RemapUserRoute(l, direct)
                       \/ UpdateCost(l)
    \/ SendAdjacencyChange

NodeNext(r) ==
    \/ \E x \in Peers : \/ AddUser(r, x)
                       \/ AddAuthenticated(r, x)
                       \/ RecvByeUnknown(r, x)
    \/ PendingTimeout(r)
    \/ \E keep \in BOOLEAN : RemoveOwner(r, keep)
    \/ AddOwner(r)

SyncNext(r) ==
    \/ \E s \in 1 .. seqno : RecvAdjacencyChange(r, s)
    \/ SyncRequest(r)
    \/ DijkstraRequest(r)
    \/ \E q \in Replicas, dijkstra, null \in BOOLEAN : RelayRequest(r, q, dijkstra, null)
    \/ \E to \in Replicas \union {Owner} : RequestTimeout(r, to)

NetworkNext ==
    \/ \E m \in reqs : OwnerRecvRequest(m) \/ RelayReplyCopy(m) \/ RelayReplyNone(m)
                     \/ LoseRequest(m)
    \/ \E m \in rpys : RecvAdjacencyResult(m) \/ LoseReply(m)

Next ==
    \/ OwnerNext
    \/ \E r \in Replicas : NodeNext(r) \/ SyncNext(r)
    \/ NetworkNext

Spec == Init /\ [][Next]_vars

-----------------------------------------------------------------------------
Copies == [ls : Nat, adj : SUBSET Links, refs : BOOLEAN, unk : Nat,
           pend : {NoPending} \union [seqno : Nat, recs : RecLists],
           suspect : SUBSET Links]

Requests == [src : Replicas, dst : Replicas \union {Owner}, seqno : Nat,
             has : BOOLEAN, dijkstra : BOOLEAN, null : BOOLEAN]

Replies == [src : Replicas \union {Owner}, dst : Replicas, seqno : Nat,
            links : SUBSET Links, full : BOOLEAN, dijkstra : BOOLEAN,
            null : BOOLEAN, suspect : SUBSET Links]

(* Types of the owner's state, the copies and the messages in flight. *)
TypeOK ==
    /\ links \in SUBSET Links
    /\ change \in Seq([link : Links, add : BOOLEAN])
    /\ seqno \in Nat
    /\ sent \in [1 .. seqno -> RecLists]
    /\ hist \in [0 .. seqno -> SUBSET Links]
    /\ misreported \in SUBSET Links
    /\ auth \in [Replicas -> BOOLEAN]
    /\ found \in [Replicas -> SUBSET Peers]
    /\ forgot \in [Replicas -> Nat]
    /\ copy \in [Replicas -> Copies]
    /\ recvd \in [Replicas -> Nat]
    /\ asking \in [Replicas -> SUBSET (Replicas \union {Owner})]
    /\ nullRes \in [Replicas -> Nat]
    /\ lastReq \in [Replicas -> Nat]
    /\ reqs \in SUBSET Requests
    /\ rpys \in SUBSET Replies

(* Link l is mentioned by a change after seqno s, sent or still queued. *)
Touched(l, s) ==
    \/ l \in Queued(change)
    \/ \E k \in s + 1 .. seqno : l \in DOMAIN sent[k]

(* An adjacency S numbered s differs from the owner's adjacency at s only  *)
(* on links that a later change mentions, setting aside the links in D.    *)
Faithful(s, S, D) ==
    \A l \in Links \ (D \union misreported) :
        (l \in S) # (l \in hist[s]) => Touched(l, s)

(* A copy numbered s is the owner's adjacency at s, up to changes that the *)
(* replica has still to receive, whatever changes were lost, came late or  *)
(* were overtaken by replies of the owner or of other replicas: replaying  *)
(* the changes after s gives the owner's adjacency.  Links on which the    *)
(* owner's queue or the deferral of records went wrong are set aside.      *)
CopyFaithful ==
    \A r \in Replicas :
        /\ copy[r].ls <= seqno
        /\ Faithful(copy[r].ls, copy[r].adj, copy[r].suspect)

(* A replica never has a deferred record of a list that is no longer the   *)
(* one unknown_link_seqno names, and owes records as long as it has one    *)
(* (the discard tests of add_unknown_adjacency rely on it).                *)
PendingCurrent ==
    \A r \in Replicas : LET c == copy[r] IN
        /\ c.pend # NoPending => c.refs /\ c.unk = c.pend.seqno
        /\ c.refs => c.unk <= seqno
        /\ ~c.refs => c.unk = 0

(* As long as no route is remapped and no cost is updated, the queue of    *)
(* the owner leads from the links last sent to its links, although append  *)
(* drops a record that is queued already: a link that goes up and down is  *)
(* never announced in the wrong state.                                     *)
QueueExact == ~Remaps => misreported = {}

(* A replica that has the seqno of the owner, with nothing queued there,   *)
(* has the owner's links, those set aside apart: no lost, late or repeated *)
(* message leaves it with the right number and the wrong adjacency.        *)
CaughtUpFaithful ==
    \A r \in Replicas :
        copy[r].ls = seqno /\ change = << >> =>
            LET aside == copy[r].suspect \union misreported
            IN  copy[r].adj \ aside = links \ aside

(* With nothing queued at the owner, a replica that has the owner's seqno  *)
(* has the owner's links: "peers apply this update only when the link      *)
(* state reflects the current state, otherwise a RPC synchronization       *)
(* request is used" (doc/protocol.adoc).                                   *)
CaughtUpIsExact ==
    \A r \in Replicas :
        auth[r] /\ copy[r].ls = seqno /\ change = << >> => copy[r].adj = links

-----------------------------------------------------------------------------
(* The inductive invariant behind CopyFaithful and PendingCurrent.         *)

(* Outside misreported, the records of each message lead from the links at *)
(* the message before to the links at that message, the queue leads from   *)
(* the last message to the present links, and a link whose state differs   *)
(* at two messages is mentioned by one in between.                         *)
OwnerFaithful ==
    /\ hist[0] = {}
    /\ \A l \in Links \ misreported :
          /\ l \in links <=> l \in Apply(hist[seqno], Net(change))
          /\ \A k \in 1 .. seqno : l \in hist[k] <=> l \in Apply(hist[k - 1], sent[k])
          /\ \A j, k \in 0 .. seqno :
                j <= k /\ (l \in hist[j]) # (l \in hist[k])
                  => \E i \in j + 1 .. k : l \in DOMAIN sent[i]

(* A copy is faithful at its own seqno and, while records are deferred, at *)
(* the seqno it will have once they are applied.                           *)
GoodCopy(c) ==
    /\ c.ls <= seqno
    /\ Faithful(c.ls, c.adj, c.suspect)
    /\ c.unk <= seqno
    /\ c.refs => Faithful(c.unk, c.adj, c.suspect)
    /\ ~c.refs => c.unk = 0
    /\ c.pend # NoPending => /\ c.refs
                             /\ c.unk = c.pend.seqno
                             /\ DOMAIN c.pend.recs \subseteq c.suspect

GoodReply(m) ==
    m.full => m.seqno <= seqno /\ Faithful(m.seqno, m.links, m.suspect)

IndInv ==
    /\ TypeOK
    /\ OwnerFaithful
    /\ \A r \in Replicas : GoodCopy(copy[r])
    /\ \A m \in rpys : GoodReply(m)

=============================================================================

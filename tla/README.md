# Verification of raims

raims routes multicast messages over a mesh of nodes.  Nodes authenticate each
other, flood the changes of their links, compute from them who forwards what,
replicate subscriptions, number the messages of every subject so that
subscribers notice loss, and talk to each other directly over a reliable UDP
protocol, the inbox.  This directory has TLA+ models of the parts that are
hard to test, the TLC runs that check them on small instances, and TLAPS proofs
of the properties that matter most for every value of the constants.

`PROJECT.json` lists the components, the runs, the lines each definition
models, the hazards found in the code and what covers them.

```
tlc -workers 2 -config LinkState_relay.cfg MCLinkState
tlapm InboxTransportProof.tla
```

Paths below are relative to `src/`.

## 1. Inventory

| component | state | operations | what makes it correct |
|---|---|---|---|
| Link state replication: `src/link_state.cpp`, `include/raims/peer.h` | the owner's links (`uid_connected`), its change queue, `link_state_seqno`; at every other node a copy of them with deferred records (`adjacency_unknown`) | queue and flood a change (`_Z.ADJ`), receive one, ask for an adjacency (`adj_req`), answer it from one's own links or from a copy, time out, drop and take back a node | a copy with the owner's number is the owner's adjacency; no late, lost or relayed message makes the number claim more than the copy holds |
| Message sequencing: `include/raims/sub.h`, `src/sub.cpp`, `src/session.cpp` | publisher: last number of a subject in two rotating tables; subscriber: last number of each publisher in three | number a message, rotate, match a message, start and stop a subscription | numbers increase; a message is given once and in order; loss is reported and counted right |
| UDP inbox: `src/ev_inbox_transport.cpp` | send and receive windows of each peer, acknowledged numbers, three timers | post (whole or fragmented), write, process, dispatch, repair, acknowledge | packets come out once, in order and complete, and are kept until they are taken; each is taken in the end |
| Authentication: `src/auth.cpp` | stage, challenge and retry count of each user, keys | hello, three stages of challenge, retry, trust, bye | who completes the exchange is trusted already; live nodes end up trusting each other; a bye is final |
| Heartbeats: `src/heartbeat.cpp` | number and time of the last heartbeat and ping, queues of timers | hello, heartbeat, ping, time out | a live node is kept and a dead one dropped for good |
| Users and routes: `src/user_db.cpp` | `UserBridge` and its routes, reference counts of inboxes and of connected bits | add, push, pop, retire a route | counts match the routes; a primary route exists while one is up |
| Peer exchange: `src/peer.cpp` | pending peers, mesh requests | receive and relay additions and removals | every node gets to know every other |
| Distances and forwarding: `src/adjacency.cpp`, `src/adj_graph.cpp` | the graph of the copies, its forward sets | distances, inconsistencies, forward sets | sets are shortest path trees, nodes agree on them, and every subscriber gets a message exactly once |
| Subscriptions: `src/sub.cpp`, `src/pat.cpp`, `include/raims/sub_list.h` | own subscriptions with their holders, three counting filters, a list for replay, `sub_seqno`; at every other node a copy of the filter | start, stop, resize, reseed, flood, receive, request, reply | no filter or copy lacks a subscription, none keeps a stopped one, every copy catches up |
| Session manager: `src/session.cpp` | dispatch, timers, publication | on_msg, timer_expire, publish, forward | with the parts it calls |
| Transport routes: `src/transport.cpp`, `src/session_tport.cpp` | flags and connected sockets of a route, the route of the listener, urls | start, shut down, accept, connect, reuse | counts match the sockets; a route is reused only when it is down |
| Connection manager: `src/conn_mgr.cpp`, `src/ev_tcp_transport.cpp` | a context for each connect: state, timer, lookup, client; the context a route notifies when it drops | connect, resolve, time out, exchange keys, drop, reconnect | one connection for a context; none waits for what does not come; a connect that was started ends connected or given up |
| Name service: `src/ev_name_svc.cpp` | advertised transports | advertise, look up | a match leads to one connection |
| Send windows: `include/raims/send_window.h` | reference-counted buffers | allocate, release | memory is not reused while referenced |
| Framing of TCP streams, PGM and RV transports, message format, cryptography, configuration, console, web, statistics | | | not modelled, section 7 |

**How they interact.**  One event loop runs every handler to its end, so
interleaving comes from messages, timers and the write queue, not from threads.
Authentication and heartbeats decide who is a user; `add_authenticated` and
`remove_authenticated` change the links of this node, which link state
replication floods; a copy that changes invalidates the graph, and forwarding
is recomputed.  Subscriptions are flooded beside the links, under a number of their
own, and fetched by the same requests; the filters they make up are put on the
transports that forwarding chose.  Requests and replies for an adjacency go over the inbox, `_Z.`
messages over the mesh, and nothing orders the two.  Published messages are
numbered by the publisher's session manager and matched by the subscriber's.
Below all of it the connection manager keeps a connection to each peer, which either
side may have made; the urls it connects to come from the configuration and from
the heartbeats and peer lists of other nodes.

**What is hard.**  Changes and replies that overtake each other; a record
about a node not known yet, deferred and applied later; a node that is dropped
and returns without a restart; windows that rotate by time while copies of a
message are on the way; numbers that wrap; retransmission while new packets
wait; a lost report of a loss; challenges that cross, and answers that arrive
after a timer or a bye; tables that every node computes alone and that must
agree; filters that count, where one start or stop too many is never
corrected; two nodes that connect to each other, each of which may stop for the
other's connection just as it drops.  `hazards` in `PROJECT.json` lists these at
their lines.

## 2. Modules

| module | models | proofs | TLC instance |
|---|---|---|---|
| `LinkState` | replication of one node's adjacency | `LinkStateProof` | `MCLinkState` |
| `MsgSeqno` | numbers of one subject | `MsgSeqnoProof` | `MCMsgSeqno` |
| `InboxTransport` | one pair of inbox peers | `InboxTransportProof` | `MCInboxTransport` |
| `Auth` | the key exchange, heartbeats and timers of sessions on a transport | `AuthProof` | `MCAuth` |
| `AdjGraph` | the forward sets that every node computes | `ForwardProof` | `MCForward` |
| `Forward`, extends `AdjGraph` | a message forwarded by them | `ForwardProof` | `MCForward` |
| `Multicast` | what forwarding promises: the abstract specification of `Forward` | | |
| `SubList` | the list of subscriptions for replay | `SubListProof` | |
| `SubDB`, extends `SubList` | subscriptions of one node and their copies | `SubDBProof` | `MCSubDB` |
| `ConnectMgr` | the connections of a mesh transport | `ConnectMgrProof` | `MCConnectMgr` |

Definitions with a `_` and a word after the name of another one (`Ahead_Any`)
are faulty variants; no specification uses them.  Put in place of the original,
each makes TLC refute the property that `mutants` names, which shows that the
property depends on that line of the code.

### LinkState

`links`, `change` and `seqno` are `uid_connected`, `adjacency_change` and
`link_state_seqno` of the owner.  `copy[r]` is what replica `r` keeps of the
owner: number, adjacency, `unknown_link_seqno`, `unknown_adj_refs` and the
`AdjPending`.  The owner's actions are the handlers that change a link
(`PushConnectedUserRoute`, `PopUserRoute`, `RemapUserRoute`, `UpdateCost`) and
the flush of the queue.  A replica's are `RecvAdjacencyChange`,
`RecvAdjacencyResult`, the requests, the answers it gives to others, and the
arrival and departure of peers and of the owner.  `sent` keeps every `_Z.ADJ`, so
that each can be received late or never; `peer_recv_seqno` drops older ones,
as in `SessionMgr::on_msg`.  Requests and replies are sets, hence unordered and
lossy.  `hist`, `misreported` and `suspect` are history: the links at each
number, the links the owner's queue described wrongly, and the links deferral
touched since the copy was last replaced.

Abstracted: records of a message are a function from links to up or down, since
the last record of a link decides; costs, `sub_seqno` and `uid_csum`, which
travel in the same messages, are left out, and tests that depend on them may
come out either way (`SyncRequest`, `DijkstraRequest`).  A transport has
one member of each link, so `rem_bridge` of transports with several is not
covered.

### MsgSeqno

A number is a time frame and a count.  `pubTab` is the subject in the two
tables of `PubTab`; `forward_ipc` numbers a client's message and `publish` a
console's.  `tab` is the subject in the three tables of `SeqnoTab`; an entry
has the last number of each publisher, the subscription it was matched with and
whether it is still fresh.  The four ways out of `match_seqno` are actions:
`DropOld`, `NotSubscribed`, `FirstOfSub`, `Matched`; `Classify` is its last part.
`report` holds the outcome during the step that follows.  Messages of a publisher are
lost at will; `LateCopies` says which second copies arrive: none, those of the
newest frame, or any.

Abstracted: the flips triggered by table size may happen whenever the time
allows; a frame is not used up within its time (`FrameLasts`: 2^35 numbers in
8.6 s); the wall clock does not step back; the estimate of the clock skew
is off by a member of `Skews`.  `PubIval >= FrameTime` is assumed;
`doc/loss.adoc:106` gives 10 s as the minimum and the code does not enforce
it.  The uid 0 path of local publishers and the GLSNO path of gateways are
left out.

### InboxTransport

The variables are the fields of `InboxPeer` (`out_seqno`, `out_ack_seqno`,
`out_window_seqno`, `in_seqno`, `in_ack_seqno`, `in_window_seqno`, the state
bits, `out`, `in`, `frag_list`) and the `out` list of `EvInboxTransport`
(`sendq` for data, `acks` for the rest, where the order does not matter).  The actions are
`post_msg`, `write`, `process` with `dispatch_msg`, and `timer_expire` for any
combination of the three timers.  `posted` and `consumed` are history.  The
network is a set from which packets are taken in any order, again if
`Duplicates`, and which loses those of the types in `Lossy`.

`Wraps` is the outcome of signed overflow in `seqno_cmp`, undefined in C: the
subtraction wraps without optimisation, and is a comparison of signed values
under `-O3`, the default of `GNUmakefile:32`.  `WriteFirst` says that the loop
writes before the timer expires, its usual but not guaranteed order.

Abstracted: both peers have resolved each other; the streams start at `First`
with everything acknowledged; the memory of windows is unlimited; intervals of
the timers are left out, so a timer that is set may run out at any time.

### Auth

`user[s][p]` is the `UserBridge` of session `p` at session `s`: the state bits, the
queues it is in, `last_auth_type`, the age of the last heartbeat, the number of
challenges and the nonce of the present one.  `hb[s][p]` is a heartbeat or bye on
its way, `net` the messages of the exchange.  The actions are `start` (hello),
`interval_hb`, `stop` (bye), `crash`, `on_heartbeat`, `on_bye`, the stages of
`on_inbox_auth` (`auth_from_hello`, `auth_from_handshake`, `auth_trust`), and the two
timers of `check_user_timeout`.  A process that restarts is a session of its own
with the sessions it replaces in `Restarts`.

Abstracted: a message verifies exactly when both ends use the same nonces, so
keys and signatures are left out; a heartbeat is known by how many its sender
sent since, because `StageAuth` keeps the last four; a nonce is any number that
nothing on the way uses.  `miss` counts heartbeats missed instead of time.
One transport connects the sessions, so authentication through a third node,
pings and the choice between transports are not covered.

### AdjGraph, Forward, Multicast

`links` is the adjacency that all nodes agree on, `uid[x]` the order in which node
`x` met the users, `tree[x][s]` what `x` computed for messages of `s`: users
reached, their costs, the transport of the source (`AdjVisit`), and the links
used (`AdjFwdTab`).  One action is one turn of the loop of
`compute_forward_set`, for all nodes and sources at once since they do not depend
on each other.  `Rank` stands for the hash that orders links of equal cost.

`Forward` adds one message: `publish` sends it to the transports of `calc_path`,
`on_msg` to those of `calc_source_path` but the one it came from, both where
`find_adjacent_routes` has put the filter of a subscriber (`bloom_rt`); a
message seen before is dropped.  `Multicast` is the promise of
`doc/linkstate.adoc`: subscribers connected to the publisher get a message, each
once.  `Promise` and `Delivered` are its specification and its liveness under the
refinement mapping `given <- recv` of the subscribers.  `Promise` adds nothing to
`AtMostOnce` that a run could refute, since the mapping leaves out who does not
subscribe; the proof of it ties the steps of `Forward` to those of `Multicast`.
The sequence test of `on_msg` is never needed in a converged network whose
transports have two ends; what it does while the nodes' copies differ is not covered.

Abstracted: one of the paths, with one cost for each link; links are
symmetric; ranks of different links may be equal but in `MCRank` are not.  Where they
are equal the code falls back on the place of the link in the node's own tables
(`HashOrderCmp`), so the theorems on agreement assume `RanksDiffer`: link numbers have
different hashes, as those of one table of random 32-bit numbers have
(`adj_graph.cpp:12-29`, `238-249`).  The
network does not change while the message travels.

### SubList, SubDB

`SubList` is a transcription of the list: arrays with `first`, `last`, `count`
and `drop`, holes, compaction, and arrays that are freed.

In `SubDB`, `ref[r]` has the holders of a subject or pattern (`SubRefs`), `filter`
the three filters as counts of hashes, `sent` every start and stop flooded and
`blm` every rebuilt filter, so that each can be received late, again or never.
A peer's copy is `seen` (`sub_seqno`), `copy` (`bloom`), `auth` and `recvd`
(`peer_recv_seqno`); `asking` is `ADJACENCY_REQUEST_STATE`.  Starts and stops of
a subject count its collisions as `resolve_coll` does, from the route itself and
not from the routes it collides with: at a start those references are not
initialised, hence the choice in `StartColl`.  `Resizes` says which filters an
`add` may make too small.  `active` is history: the subscriptions at each
number.

Abstracted: a filter is a count for each hash (the kv library's `BloomBits`, which
may pass more than was added).  To delete a hash that was never added takes away bits
it shares with others ("corruption of the bloom", `src/session.cpp:1515`): `Del` then
lowers any of the other counts (`MayLose`).  A pattern is the hash of its prefix;
queue subscriptions are left out; a node that is asked by another peer answers from
its copy, whatever made the other ask (`AskPeer`).

### ConnectMgr

`listener` and `down` are the listening socket of a mesh and the shutdown flag of
its route, `rte` the other routes of the mesh, those that connect and those that
were accepted, each with its `ConnectCtx` if it has one: `ctx.event_id` is the
`tport_id` of the route.  `conn` is `connected` with `connect_count`, `notify` is
`notify_ctx`, `asked` a lookup that will call back.  `sock` are the sockets of
the event loop, with the peer each leads to.  The actions are the commands of
the console (`Start`, `Shutdown`), a url from another node
(`Learned`), the callbacks of a context (`Resolved`, `timer_cb`,
`on_connect`, `Close`), the release of the listener, a peer that connects
(`Accept`) and its heartbeat (`set_mesh`).  A shutdown tells sockets to close,
which they do in an event of their own; what they have read before is
processed first, so keys may still be exchanged.  `Prompt` says that this event
comes before others, the usual order of the loop when nothing is left to read
or write.  `wanted` and `started` are history: the urls the node was told to connect to
since the last shutdown, and those of them for which it started a connect;
`add_mesh_connect` skips a url while a route to it is up.

Abstracted: a peer has one url and one address; what users and routes
do when a socket closes (`retire_source`) and the events logged are left out; a connect gives up at
any failure if it may (`Timeout`), and the backoff has no length.  Sockets are encrypted, so
`on_connect` never runs inside `tcp_connect`.  Contexts of ipc and rv
transports, plain tcp transports, connects to oneself and `poll.quit` are left out.

## 3. Runs

| run | instance | shows |
|---|---|---|
| `link_relay` | 2 replicas, 1 link, 2 changes, 1 request in flight | copies stay faithful when changes are lost or late and replies are relayed; the owner's queue is exact while no route is remapped |
| `link_defer` | 1 replica, a link to an unknown peer, timeouts, the owner dropped and taken back, routes remapped | deferral keeps its own fields consistent; a replica with the owner's number has its links, those set aside apart |
| `msg_window` | 3 messages over several frames, the windows as short as frame and skew allow, 3 rotations of the subscriber's and 1 of the publisher's, 2 subscriptions | numbers increase; once and in order, for the present subscription, also when its entry has left the window; "next" and counted losses are exact |
| `msg_uids` | 2 publishers that alternate, console messages | once and in order for each |
| `ibx_order` | 3 packets in messages of 1 or 2, 2 losses, duplicates, numbers that wrap | in order, once, whole, retained and repairable |
| `ibx_live` | 1 data packet lost | every packet is taken in the end |
| `auth_trust` | 2 sessions that may stop or crash, 3 messages lost or later than a timer, 2 on the way | agreement, watched users, final byes; sessions that stay up trust each other for good, sessions that are gone are dropped for good |
| `fwd_tree` | every graph of 4 nodes with costs 1 and 2, a doubled connection, any publisher, all or one subscriber | shortest path trees, agreement of the nodes, delivery exactly once: of a message that has come to rest (`AllGiven`) and eventually (`Delivered`) |
| `fwd_uids` | 5 nodes, a transport with 3 members met in two orders | a violation, section 4 |
| `sub_hold` | 2 subjects of one hash, a pattern, 2 holders, 5 starts and stops, a peer that hears floods and rebuilt filters | no filter lacks a subscription; the list is exact |
| `sub_sync` | 2 peers, requests to the owner and between them, a loss or a dropped owner | copies are exact and catch up |
| `conn_mesh` | 2 peers, 3 routes, 4 sockets, 3 commands or learned urls, 2 failures | one connection for a context, exact counts, no context stuck; a connect that was started is not forgotten and ends connected or given up |

**Bounds.**  A stale copy needs two changes and one request in flight with a
second replica to relay; deferral needs one unknown peer and a change after the
deferred one; the queue's fault needs three records of one link.  Frames of 2
ticks and 4 numbers let streams pass several frames and use up a frame in 3
messages.  Three rotations, which take an entry out of the subscriber's window,
fit in `MaxTime = 10`, at 6, 8 and 10; publishers send and rotate until
`LastPub = 7`, which leaves them one rotation (two, after which an entry is gone, are
left to the theorem `SeqnosIncrease`), and copies of their messages arrive until the end.
The skew estimate is a tick off to the side where `trailing_time` lets a message pass; `SubIval`
must not be shorter than its error, or a
message is given again after its entry is gone.  `SeqnoMod = 8` with `First = 6`
makes inbox numbers wrap at the second packet.  Three packets are the least for
a fragmented message beside a whole one and for a hole with two packets after
it.  Three losses let each message of an exchange be lost, or come too late,
and two on the way let challenges cross; `Old = 2` and `MaxRetry = 2` are reached.
Four nodes are the least for a tie between two paths of two links; costs 1 and 2
make a detour cheaper than, and as cheap as, a direct link.  Five numbers
fill two arrays of two slots, leave a hole in each, compact one and free one.
A second peer and one event are enough for a copy to be relayed after
its owner was dropped.  Three routes are two to one peer, one connecting and one
accepted, and a third beside them; three commands let a shutdown come between two
connects, and two failures let the accepted connection drop after the context
stopped for it and the new connect fail.  What the smaller instances leave out (several links, two
posting peers, timers before writes, both comparisons of numbers, more sessions,
nodes, subjects and peers) the theorems cover.

Runs stop at the bounds, and the system itself may be idle, so deadlock is not
checked; what must happen is stated as liveness.

**Fairness.**  In `ibx_live` the loop writes a queue it was asked to write
(WF), a timer that is set runs out (SF: what sets it again backs off), and the
network delivers a packet that it keeps having (WF for each number).  In `auth_trust` the
loop of a session that is up sends heartbeats, runs its timers and reads what arrived
(WF); nothing makes a session start, stop or crash or the network lose a message.  In
`fwd_tree` a transport delivers what it carries (WF).  In `sub_sync` heartbeats are
heard, timers run, requests to the owner and its replies arrive unless they are
lost, and a node that was dropped and is alive authenticates again (WF), which
is what `MutualTrust` of `Auth` shows; floods and replies of other peers
need not arrive at all.  In `conn_mesh` lookups are answered, timers run out, keys are
exchanged on a socket that does not fail, and sockets told to close do so (WF); no peer
need connect and no heartbeat be heard.  Losses and failures are bounded in all of them.

## 4. Where the code and its documents disagree

`fwd_uids` is kept as a run: with a transport that has several members the number of a
link depends on the uids of the node that computes it (`src/adjacency.cpp:113`).
Two nodes break a tie differently, and a message is sent to a node that does not
send it on, though the network is converged.  `findings` quotes the documents.

The models show more, for which no run is kept.  Each is found in seconds or
a few minutes with the configuration or constants given.

| property | configuration | the code | a document says |
|---|---|---|---|
| `CaughtUpIsExact` | `LinkState_stale.cfg` | `add_unknown_adjacency` (`src/link_state.cpp:225`) applies a deferred record after a newer change of the same link | "peers apply this update only when the link state reflects the current state, otherwise a RPC synchronization request is used" (`doc/protocol.adoc:257`) |
| `CaughtUpIsExact` | `LinkState_dedupe.cfg` | `AdjChangeList::append` (`include/raims/peer.h:290`) drops the second "up" of up, down, up: the message says down | the same |
| `CaughtUpIsExact` | `LinkState_stale.cfg` with two peers, one of them in `FoundInit`, `MaxSeqno = 3`, `Timeouts = TRUE` | `process_unknown_adjacency` (`src/peer.cpp:1440`) deletes expired records, keeps the fields that say they exist, and then counts them as applied | the same |
| `CaughtUpIsExact` | the same, `MaxSeqno = 2`, `MaxReqs = 1`, `MaxForget = 1`, `Timeouts = FALSE` | `remove_authenticated` (`src/user_db.cpp:1844`) keeps deferred records over a heartbeat timeout that resets the copy; they are then taken for all of it | the same |
| `InOrder` | `MsgSeqno_late.cfg` | `match_seqno` (`src/sub.cpp:1140`) takes a copy from an older frame for a restart and gives it again | "A sequence is less than or equal the last sequence received. [...] The message is dropped." (`doc/loss.adoc:24`) |
| `ChainedLossNotified` | `MsgSeqno_cycle.cfg` | `match_seqno` (`src/sub.cpp:1129`) reports no loss when all messages of a frame are lost although the chained number shows it | "Notification of message loss is propagated to the subscriptions." (`doc/loss.adoc:29`) |
| `SeqnoIncreases` | `MsgSeqno_window.cfg` with `Console = TRUE` | `SessionMgr::publish` (`src/session.cpp:1846`) numbers only the first console message of a subject | |
| `EventuallyTaken` | `InboxTransport_rack.cfg` | `process` (`src/ev_inbox_transport.cpp:114`) never reports a loss again when the report was lost, so nothing is retransmitted; fair, since the sender goes on asking and nothing it sends makes the receiver answer | "retransmit sends after timeout" (`include/raims/ev_inbox_transport.h:137`) |
| `Repairable` | `InboxTransport_order.cfg` with `WriteFirst = FALSE` | `repair_window` (`src/ev_inbox_transport.cpp:200`) queues retransmissions behind unwritten packets; a later repair stops at an acknowledged one before the packet that is missing | |
| `Retained` | `InboxTransport_order.cfg` with `First = 2` | with signed comparison (`src/ev_inbox_transport.cpp:61`) packets that were not received are freed as the numbers pass 2^31 | |
| `SubjectsLocal` | `SubDB_hold.cfg` | `update_bloom` (`src/sub.cpp:192`) changes the filters of the console and of the ipc transports at the first start of a subject only: when the console subscribes and then a program, the program's filter lacks the hash, and messages of other nodes do not pass to it (`src/transport.cpp:84`) until a resize | "test() separates console, ipc and also adds to bloom" (`src/sub.cpp:955`) |
| `PatternsLocal` | `SubDB_hold.cfg` | the last stop of a subject deletes its hash from the filter of the holder that stops (`src/sub.cpp:214`), also where the first start was another holder's and the hash was never added; bits that it shares with a pattern go, and messages of the pattern no longer pass | "dropping subs which have no start will cause corruption of the bloom" (`src/session.cpp:1515`), said of the copies |
| any | `SubDB_hold.cfg` with `Width = 3` | `count` and `drop` of an array of the subscription list (`include/raims/sub_list.h:18`) wrap, `is_full` is wrong and a slot past the end is written; with 16 bits that takes 65536 starts in an array that is never freed, because one subscription stays | |
| `NeverStuck`, `OneClient` | `ConnectMgr_mesh.cfg` with `Prompt = FALSE` | `TransportRoute::shutdown` (`src/transport.cpp:634`) leaves `client` set until its socket closes; a connect before that starts a lookup, the old socket then sets the timer (`src/conn_mgr.cpp:790`), and both lead to a client of one context | |
| `NoneSkipped` | `ConnectMgr_mesh.cfg` | `add_mesh_connect` (`src/session_tport.cpp:757`) skips a url while a route that the peer made is up and leaves no context in its `notify_ctx`: when that route drops nobody connects, unlike for a connect that was started and stopped for it | "if accept drop, notify reconnect" (`include/raims/transport.h:255`) |

More are read from the code and not modelled.  `Auth` has one transport: heartbeats are
numbered by transport (`src/heartbeat.cpp:146`) and `hb_seqno` of a user is their
maximum over all of them (`:424`), reset when the primary route changes
(`src/user_db.cpp:2070`); between two nodes with two transports the
heartbeats of the newer one are passed over until its number is larger.
`send_mesh_request` (`src/peer.cpp:1394`) advances its count twice for each hash it writes.
`recv_challenge` (`src/auth.cpp:361`) stores a key before the message that carries it is
verified.  `LCM::add` (`src/adj_graph.cpp:70`) compares the first and the last value
only.  `SubRefs` (`include/raims/sub.h:80`) shifts a 32 bit word by a transport id, whatever
it is.  `update_link_state_seqno` (`include/raims/user_db.h:672`) takes its 64 bit number as 32 bits.
`shutdown` does not close accepted sockets that are still exchanging keys, and
their `on_connect` clears the shutdown flag of the listener's route (`src/conn_mgr.cpp:280`):
the transport then counts as running without a listener, and `listen` does
not start it.  `process_mesh_pending` (`src/user_db.cpp:1441`) connects though the transport is shut down.
A route whose connect gave up is usually not flagged shut down, so the console's
`connect` passes over its url (`src/session_tport.cpp:756`).

In `CopyFaithful` and `CaughtUpFaithful` the links that the faults of deferral
and of the queue touch are set aside by `suspect` and `misreported`, so the two
say that nothing else goes wrong; `CaughtUpIsExact`, what the documentation
says, sets nothing aside.

## 5. Proofs

**LinkStateProof**, for any replicas, links and bounds:

- `TypeCorrect`: `Spec => []TypeOK`
- `CopiesFaithful`: `Spec => []CopyFaithful`
- `CaughtUpsFaithful`: `Spec => []CaughtUpFaithful`
- `PendingsCurrent`: `Spec => []PendingCurrent`
- `QueuesExact`: `Spec => []QueueExact`

`CopyFaithful` is not inductive.  `IndInv` adds `OwnerFaithful` (the
records of each message lead from the links at one number to those at the next, and
a link whose state differs between two numbers is mentioned in between), that
every reply in flight is faithful at its number (`GoodReply`), as a copy will be
made from it, and that a copy with deferred records is faithful at the number
it will have when they are applied (`GoodCopy`).  A lemma for each way a copy
changes shows that it stays good; a lemma for the owner's steps shows that what
was faithful stays so, because a change is queued before it is sent; the
actions follow.  `QueueExact` has an invariant of its own, `QueueInv`: without remaps
the queue has one record for each link that went up since the last message and
nothing else, because a link that goes down is flushed at once; so `append` never
drops a record that would have changed the outcome.

**MsgSeqnoProof**, for any publishers, frames, windows, clock errors and bounds, if the
console does not publish:

- `SeqnosIncrease`: `Spec => []SeqnoIncreases`
- `SeqnoTypes`: `Spec => []TypeOK`
- `LossesExact`: `Spec => []LossExact`
- `GivenInOrder`: `Spec => []InOrder`, if a late copy is in the frame of the newest message
  (`LateCopies # "ever"`) and no skew exceeds `SubIval`

`PubInv` adds to types and property that the last number
given is in the window, or its frame is older than the window can make a new
number (`WindowOK`); the proof is arithmetic of frames.  `SubInv` adds for the
subscriber that the entry `SeqnoTab::upsert` finds for the present subscription has the number of
the last message given to it (`LastGiven`), wherever flips have moved it, and that an
entry still in use is of the present subscription (`EntryOK`); what
`match_seqno` then subtracts are two numbers of the publisher, and `PubInv` says how many
messages are between them.  `OrderInv` adds that the last message given
is remembered, or so old that the test of its time refuses everything before it
(`Remembered`, `Aged`): this is where the skew and the flips meet, and where a
copy from an earlier frame would pass.

**InboxTransportProof**, for any width of numbers, bounds, fragmentation, loss,
duplication and timers:

- `TakenInOrder`: `Spec => []InOrder`
- `InboxTypes`: `Spec => []TypeOK`
- `DeliveredWhole`: `Spec => []MessagesIntact`
- `KeptUntilTaken`: `Spec => []Retained`, if `NoOverflow`: the build wraps, or the
  streams do not pass 2^31
- `AlwaysRepairable`: `Spec => []Repairable`, if `NoOverflow` and `WriteFirst`: the poll
  loop writes a queue before the window timer runs

`Retained` in the table above shows that `NoOverflow` is needed.
`StreamInv` says what the numbers mean:
`out_seqno` and `in_seqno` count the packets posted and taken; every packet
anywhere is one that was posted, under its number, and acknowledges no more than its
sender took; `out_window_seqno` is not past what the peer took; each number not
taken is in the send window or the queue.  `seqno_cmp` is then exact
(`CmpExact`, from `MaxPosted < Half`), the packets that `dispatch_msg` finds ahead
are the next ones posted (`RunParts`), and `adjust_send_window` keeps what
is beyond the window (`UnackedParts`).  `MessagesOK` ties what was posted to
messages (`Whole`: fragments of a message are next to each other and numbered from the first)
and says that what the receiver has delivered and holds as fragments is what it
took, cut at the ends of messages (`Assembled`); `dispatch_msg` is a recursion over the packets
found ahead, unfolded one packet at a time (`Unfolds`).  `SendOK` says that the send
window, followed by the queue, has the numbers up to the last posted without a gap and in order
(`Numbered`), so that what `repair_window` retransmits begins where the peer waits.

**AuthProof**, for any sessions, start times, restarts and bounds:

- `ExchangeAgrees`: `Spec => []Agreement`
- `TrustedAreWatched`: `Spec => []Watched`
- `ByeIsFinal`: `Spec => ByeFinal`
- `AuthTypes`: `Spec => []TypeOK`

`IndInv` adds where messages come from (`Origin`: from a session that was up,
with a nonce while it is being answered).  Every change of a user keeps `Follows`: who
was met stays trusted or dropped, and one that said bye is not trusted.  Agreement
then hinges on nonces: a new challenge takes one that no answer on the way
has (`Fresh`), so an answer that matches is one to the present challenge, sent by a session
that trusted the challenger when it sent it.

**ForwardProof**, for any graphs, costs, orders of uids and ranks:

- `ForwardSetsOptimal`: `Spec => []Optimal`

and for graphs whose transports have two ends (`PointToPoint`, without which
`fwd_uids` is a counterexample to the agreement the proof needs):

- `ForwardTypes`: `Spec => []TypeOK`
- `ReceivedAtMostOnce`: `Spec => []AtMostOnce`
- `ForwardImplementsMulticast`: `Spec => Promise`, the step simulation of `Multicast`

and, if the hashes of different link numbers differ too (`RanksDiffer`):

- `RoutesAgree`: `Spec => []SameRoute`
- `EverySubscriberOnce`: `Spec => []AllGiven`

`GraphInv` strengthens `Optimal` as for Dijkstra's algorithm: nobody reached costs
more than the cheapest link out of the set, costs are positive but at the source,
links lead from users reached.  With two ends no link number depends on uids, so
all nodes have the same sets (`Same`); `Follows` then says that links on the way and
users that have the message lie on the tree of the publisher, each user entered by its one link,
which gives at most once; the step simulation maps a first receipt by a
subscriber to `Deliver` and everything else to a stutter.  `RouteInv` says that of all
links that reach a user at its distance from users before it the tree has the first in the
order of the hash (`Chosen`); with costs equal to distances this determines the tree, whatever
order the loop added the links in.  `Owed` is the invariant behind delivery: a
subscriber that has not got the message is below a link on which the message is (`Leads`), because
`find_adjacent_routes` has put its filter on every link of its path; with no link
left on the way nobody is owed anything.

**SubDBProof**, for any subjects, patterns, hashes with any collisions, holders, peers
and bounds:

- `NoSubscriberMissed`: `Spec => []NoneMissed`
- `CopiesAreExact`: `Spec => []CopyExact`
- `SubTypes`: `Spec => []TypeOK`
- `ReplaysExact`: `Spec => []ListExact`, if `MaxSeqno < Width`: the counters of an array
  do not wrap (section 4 has the instance in which they do)

A filter suits a set of subscriptions if it counts each hash at least as often as
they need it, and exactly as often where no two subjects share it (`Suits`).
`IndInv` says that the owner's filter suits its subscriptions, that each flooded start or
stop leads from the subscriptions of one number to those of the next with an
update that keeps suiting (`Leads`, `ApplySuits`), and that every rebuilt filter, copy
and reply in flight suits the subscriptions of the number it carries.
The first is where `resolve_coll` matters: a start that finds a collision may leave
the hash alone or count it again, a stop that finds one must leave it.
So no hash is ever deleted from the node's own filter, or from a copy, that does not have it,
and neither loses bits of other hashes.  The filters of the console and of the ipc transports do
(`PatternsLocal` in section 4), and nothing is proved of them.

`ListAt` says that the list has exactly the entries of the present subscriptions.  Under it are
the facts of **SubListProof**, for any capacity: an array begins and ends with an
entry, its entries ascend, and `count - drop` is their number (`ElemOK`); compaction
keeps them and makes room (`CompactRoom`), a push adds one (`PushList`), a pop takes out the one
it was asked for and frees an array only with its last entry (`PopList`), and the
iterator returns all of them in order (`ReplayIs`).  The recursions over slots and arrays
are proved with a smallest counterexample (`PickedIs`, `FlattenIs`).

**ConnectMgrProof**, for any urls, routes, sockets, commands and failures, under
`Prompt`:

- `ContextsHaveOneClient`: `Spec => []OneClient`
- `CountsAreExact`: `Spec => []CountExact`
- `ContextsNeverStuck`: `Spec => []NeverStuck`
- `PeersNotForgotten`: `Spec => []NoneForgotten`

`NeverStuck` with `Prompt = FALSE` in the table above shows that the condition is needed.  `IndInv` says where
each socket belongs (`Placed`), what a route has in each state of its context
(`Shaped`, `Waits`): a route has at most one socket, a stopped context has a client only while
it closes, a route that is not shut down is connected or its context is trying; and whom
a route notifies (`Notifies`): another context of the same peer, without a client if it stopped.
`NoneForgotten` then holds because the route for which a context stops
is connected, so that it will notify, or is trying itself; and a
route that drops restarts the context before it forgets it.  It is about connects that
were started: one that was skipped has no context (`NoneSkipped` in section 4).

The assumptions are the `ASSUME`s of the modules; TLC evaluates them in every run.

**Model-checked only**: liveness (`EventuallyTaken`, `MutualTrust`, `Forgotten`,
`Delivered`, `Synced`, `EventuallyLinked`), which is out of the prover's reach.  `AllGiven` is
the part of `Delivered` that is not: a message that came to rest has reached everybody; that it comes to
rest is left to TLC.  Every invariant and action property of the runs is stated by a theorem,
under the conditions given above; `TypeOK` of `Forward` and of `ConnectMgr` is only proved.

## 6. Next

Components, in order of importance:

1. `UserRoutes`: push and pop of user routes, inbox references, the primary route and `retire_source`;
   `PeerSync`: additions, removals and pending peers.  Composed with `LinkState` and `SubDB`, they replace
   their arbitrary arrivals.
2. Several transports in `Auth`, with pings; several paths in `AdjGraph`, with `LCM`
   (adding 2, 3, 4 gives 4) and `find_inconsistent`; queue subscriptions in `SubDB`.
3. `InboxPeers`: resolution, reassignment and reset around `InboxTransport`;
   `SendWindow`: memory shared by packets; the GLSNO path of `MsgSeqno`.
4. `NameSvc`; contexts of ipc and rv transports, plain tcp transports and connects to oneself in
   `ConnectMgr`; the throttle of requests.

Abstract specifications: `InboxTransport` implements a FIFO channel that loses
nothing; `LinkState` a register per replica that only moves forward in the
owner's history while no link is set aside; `SubList` a sequence without arrays.

Proofs: the step simulation of the FIFO channel and of the register per replica;
`GivenInOrder` for a console that publishes on subjects of its own.

## 7. Not modelled

Framing and encryption of TCP streams (their state is the event library's
buffer); PGM and RV transports (protocols of libraries that are not in
the repository); message encoding; cryptography; configuration and key files;
console, web and telnet (reports); generated web data; statistics; start up.
`components` in `PROJECT.json` gives the reason for each, and for the parts that the
models of the other components leave out.

---------------------------- MODULE InboxTransport ----------------------------
(***************************************************************************)
(* The UDP inbox protocol between two peers that have resolved each other  *)
(* (src/src/ev_inbox_transport.cpp, include/raims/ev_inbox_transport.h).   *)
(*                                                                         *)
(* A message is posted as one packet or as fragments, each with the next   *)
(* number.  write hands the queued packets to the network and keeps the    *)
(* data packets in the send window; process takes the acknowledgement of   *)
(* any packet, and delivers data in order, holding back what came early.   *)
(* timer_expire looks after what is due: retransmission of the send        *)
(* window, an acknowledgement of what was received (rack), or a request    *)
(* for one (sack).                                                         *)
(*                                                                         *)
(* Packets are reordered and duplicated at will, and those in Lossy lost.  *)
(* Sequence numbers are SeqnoMod wide, 2^32 in the code.                   *)
(***************************************************************************)
EXTENDS Integers, Sequences, FiniteSets, SequencesExt

CONSTANTS
    Nodes,       \* the two peers
    Half,        \* half of the sequence numbers: 2^31
    First,       \* the number the streams have reached at the start
    Wraps,       \* seqno_cmp wraps around, as a build without -O does
    Frags,       \* packets a message may need
    MaxPosted,   \* bound: packets posted by a node
    MaxNet,      \* bound: packets on the way
    MaxLost,     \* bound: packets lost when they are written
    Lossy,       \* types of packets the network may lose
    Duplicates,  \* the network may deliver a packet again
    WriteFirst   \* the poll loop writes a queue before the timer expires

Types == {"data", "rack", "sack"}

SeqnoMod == 2 * Half

ASSUME InboxAssumption ==
    /\ \E x, y \in Nodes : x # y /\ Nodes = {x, y}
    /\ Half \in Nat \ {0} /\ First \in 0 .. SeqnoMod - 1
    /\ Wraps \in BOOLEAN
    /\ Frags \subseteq Nat \ {0}
    /\ MaxPosted \in [Nodes -> Nat] /\ \A n \in Nodes : MaxPosted[n] < Half
    /\ MaxNet \in Nat /\ MaxLost \in Nat
    /\ Lossy \subseteq Types /\ Duplicates \in BOOLEAN /\ WriteFirst \in BOOLEAN

VARIABLES
    outSeqno,    \* out_seqno
    outAck,      \* out_ack_seqno
    outWindow,   \* out_window_seqno
    inSeqno,     \* in_seqno
    inAck,       \* in_ack_seqno
    inWindow,    \* in_window_seqno
    state,       \* ACTIVE_RECV, ACTIVE_SEND, ACTIVE_WINDOW and DUP_RECV
    out,         \* out of InboxPeer: the send window
    in,          \* in of InboxPeer: data packets that came early
    frags,       \* frag_list
    sendq,       \* out of EvInboxTransport: data packets to be written
    acks,        \* and the racks and sacks among them
    net,         \* packets on the way
    losses,      \* packets lost so far
    posted,      \* history: data posted, a packet at a time
    consumed,    \* history: data taken in order, a packet at a time
    delivered    \* messages given to the node

sendVars == <<outSeqno, outAck, outWindow, out>>
recvVars == <<inSeqno, inAck, inWindow, in, frags, consumed, delivered>>
queues   == <<sendq, acks, net, losses>>
vars     == <<sendVars, recvVars, queues, state, posted>>

Peer(n) == CHOOSE m \in Nodes : m # n

-----------------------------------------------------------------------------
(* Sequence numbers                                                        *)

(* mutant: the number does not wrap around *)
Plus_Wider(s, k) == s + k

Plus(s, k) == IF s + k >= SeqnoMod THEN s + k - SeqnoMod ELSE s + k

Signed(s) == IF s >= Half THEN s - SeqnoMod ELSE s

(* seqno_cmp subtracts signed numbers.  When the difference overflows, the *)
(* build decides: it wraps around, or the two are compared as they are.    *)
seqno_cmp(a, b) ==
    LET d == Signed(a) - Signed(b) IN
    IF ~Wraps THEN d
    ELSE IF d >= Half THEN d - SeqnoMod
    ELSE IF d < -Half THEN d + SeqnoMod
    ELSE d

-----------------------------------------------------------------------------
(* Sending                                                                 *)

(* a packet of n acknowledges what n has received *)
Packet(type, n, src, data) ==
    [type |-> type, to |-> Peer(n), src_seqno |-> src, dest_seqno |-> inSeqno[n],
     data |-> data]

NoData == [msg |-> 0, part |-> 0, kind |-> "none"]

Kind(i, k) == IF k = 1 THEN "message" ELSE IF i = k THEN "rollup" ELSE "fragment"

(* post_msg and post_frag_msg: a message in k packets *)
post_msg(n, k) ==
    LET m    == IF posted[n] = << >> THEN 1 ELSE posted[n][Len(posted[n])].msg + 1
        part == [i \in 1 .. k |-> [msg |-> m, part |-> i, kind |-> Kind(i, k)]]
    IN  /\ Len(posted[n]) + k <= MaxPosted[n]
        /\ posted' = [posted EXCEPT ![n] = @ \o part]
        /\ sendq' = [sendq EXCEPT ![n] = @ \o
                [i \in 1 .. k |-> Packet("data", n, Plus(outSeqno[n], i), part[i])]]
        /\ outSeqno' = [outSeqno EXCEPT ![n] = Plus(@, k)]
        /\ UNCHANGED <<outAck, outWindow, out, recvVars, state, acks, net, losses>>

IsData(pkt) == pkt.type = "data"

(* the packets of out of EvInboxTransport *)
Queued(n) == {sendq[n][i] : i \in DOMAIN sendq[n]} \union acks[n]

(* EvInboxTransport::write; the network loses some of the packets *)
write(n, lost) ==
    /\ Queued(n) # {}
    /\ \A pkt \in lost : pkt.type \in Lossy
    /\ net' = net \union (Queued(n) \ lost)
    /\ losses' = losses + Cardinality(lost)
    /\ Cardinality(net') <= MaxNet /\ losses' <= MaxLost
    /\ out' = [out EXCEPT ![n] = @ \o sendq[n]]
    /\ state' = [state EXCEPT ![n] = IF sendq[n] = << >> THEN @ ELSE @ \union {"send"}]
    /\ sendq' = [sendq EXCEPT ![n] = << >>]
    /\ acks' = [acks EXCEPT ![n] = {}]
    /\ UNCHANGED <<outSeqno, outAck, outWindow, recvVars, posted>>

(* mutant: a packet is dropped one acknowledgement early *)
Unacked_Early(q, window) ==
    LET keep == {i \in DOMAIN q : seqno_cmp(q[i].src_seqno, window) > 1}
    IN  IF keep = {} THEN << >> ELSE SubSeq(q, Min(keep), Len(q))

(* InboxPeer::adjust_send_window: what is left of the send window q *)
Unacked(q, window) ==
    LET keep == {i \in DOMAIN q : seqno_cmp(q[i].src_seqno, window) > 0}
    IN  IF keep = {} THEN << >> ELSE SubSeq(q, Min(keep), Len(q))

(* mutant: the packet at the edge is left out *)
Edge_Past(n) ==
    Max({0} \union {i \in DOMAIN out[n] :
                       seqno_cmp(out[n][i].src_seqno, outWindow[n]) <= 1})

(* repair_window takes packets off the end of the send window, up to the   *)
(* first that is acknowledged                                              *)
Edge(n) ==
    Max({0} \union {i \in DOMAIN out[n] :
                       seqno_cmp(out[n][i].src_seqno, outWindow[n]) <= 0})

-----------------------------------------------------------------------------
(* Receiving                                                               *)

(* mutant: the rollup is not put behind the fragments *)
Dispatch_NoLast(s, d) ==
    CASE d.kind = "message"  -> [s EXCEPT !.msgs = Append(@, <<d>>)]
      [] d.kind = "rollup"   -> [frags |-> << >>, msgs |-> Append(s.msgs, s.frags)]
      [] d.kind = "fragment" -> [s EXCEPT !.frags = Append(@, d)]

(* dispatch_frag_msg and dispatch_msg2: the fragments before a rollup make *)
(* one message with it                                                     *)
Dispatch(s, d) ==
    CASE d.kind = "message"  -> [s EXCEPT !.msgs = Append(@, <<d>>)]
      [] d.kind = "rollup"   -> [frags |-> << >>, msgs |-> Append(s.msgs, Append(s.frags, d))]
      [] d.kind = "fragment" -> [s EXCEPT !.frags = Append(@, d)]

Dispatched(n, run) ==
    LET S[i \in 0 .. Len(run)] ==
            IF i = 0 THEN [frags |-> frags[n], msgs |-> delivered[n]]
            ELSE Dispatch(S[i - 1], run[i])
    IN  S[Len(run)]

(* a data packet that is not a repeat: the next one, or one after it that  *)
(* is not held yet                                                         *)
Wanted(n, pkt) ==
    \/ pkt.src_seqno = Plus(inSeqno[n], 1)
    \/ /\ seqno_cmp(inSeqno[n], pkt.src_seqno) < 0
       /\ \A q \in in[n] : q.src_seqno # pkt.src_seqno

(* mutant: the number of a packet that was held is not looked at *)
Ahead_Any(n, held, k) == {q \in held : seqno_cmp(q.src_seqno, Plus(inSeqno[n], k)) >= 0}

(* the packet k numbers after in_seqno, of those held *)
Ahead(n, held, k) == {q \in held : q.src_seqno = Plus(inSeqno[n], k)}

(* how many of the packets held are in order, from in_seqno on *)
Ready(n, held) == Min({k \in 0 .. Half : Ahead(n, held, k + 1) = {}})

Run(n, held) ==
    [i \in 1 .. Ready(n, held) |-> (CHOOSE q \in Ahead(n, held, i) : TRUE).data]

(* dispatch_msg, for a packet that is not a repeat *)
dispatch_msg(n, pkt) ==
    LET held == in[n] \union {pkt}
        run  == Run(n, held)
    IN  /\ inSeqno' = [inSeqno EXCEPT ![n] = Plus(@, Len(run))]
        /\ in' = [in EXCEPT ![n] =
                {q \in held : \A i \in 1 .. Len(run) : q \notin Ahead(n, held, i)}]
        /\ consumed' = [consumed EXCEPT ![n] = @ \o run]
        /\ frags' = [frags EXCEPT ![n] = Dispatched(n, run).frags]
        /\ delivered' = [delivered EXCEPT ![n] = Dispatched(n, run).msgs]

(* the flags that process sets *)
Raised(n, pkt) ==
    (IF \/ seqno_cmp(pkt.dest_seqno, outSeqno[n]) < 0
        \/ seqno_cmp(pkt.src_seqno, inWindow[n]) > 0 THEN {"window"} ELSE {})
    \union (IF IsData(pkt) THEN {"recv"} ELSE {})
    \union (IF IsData(pkt) /\ ~Wanted(n, pkt) THEN {"dup"} ELSE {})

(* EvInboxTransport::process, for a packet of the peer *)
process(n, pkt, again) ==
    LET newer  == seqno_cmp(pkt.dest_seqno, outWindow[n]) > 0
        window == IF newer THEN pkt.dest_seqno ELSE outWindow[n]
        adjust == newer /\ seqno_cmp(outAck[n], window) < 0
    IN  /\ pkt.to = n
        /\ net' = IF again THEN net ELSE net \ {pkt}
        /\ outWindow' = [outWindow EXCEPT ![n] = window]
        /\ out' = [out EXCEPT ![n] = IF adjust THEN Unacked(@, window) ELSE @]
        /\ outAck' = [outAck EXCEPT ![n] = IF adjust THEN window ELSE @]
        /\ inWindow' = [inWindow EXCEPT ![n] =
                IF seqno_cmp(pkt.src_seqno, @) > 0 THEN pkt.src_seqno ELSE @]
        /\ state' = [state EXCEPT ![n] = @ \union Raised(n, pkt)]
        /\ IF IsData(pkt) /\ Wanted(n, pkt)
             THEN dispatch_msg(n, pkt)
             ELSE UNCHANGED <<inSeqno, in, consumed, frags, delivered>>
        /\ UNCHANGED <<outSeqno, inAck, sendq, acks, losses, posted>>

-----------------------------------------------------------------------------
(* EvInboxTransport::timer_expire for a node whose window timer (w), recv  *)
(* timer (r) and send timer (s) have run out.  check_window, when the      *)
(* window timer has: repair_window, and whether a rack is to tell the peer *)
(* what is missing.                                                        *)
Repair(n, w) == w /\ seqno_cmp(outSeqno[n], outWindow[n]) > 0 /\ Edge(n) < Len(out[n])

(* mutant: what is missing is not looked for *)
Missing_Never(n, w) == FALSE

Missing(n, w) == w /\ seqno_cmp(inSeqno[n], inWindow[n]) < 0

Rexmit(n) ==
    [i \in 1 .. Len(out[n]) - Edge(n) |->
        [out[n][Edge(n) + i] EXCEPT !.dest_seqno = inSeqno[n]]]

timer_expire(n, w, r, s) ==
    LET repair == Repair(n, w)
        acked  == IF Missing(n, w) THEN inWindow[n] ELSE inAck[n]
        rack   == r /\ (seqno_cmp(acked, inSeqno[n]) # 0 \/ "dup" \in state[n])
        sack   == s /\ seqno_cmp(outAck[n], outSeqno[n]) # 0
        ack    == IF rack \/ sack
                    THEN {Packet(IF rack THEN "rack" ELSE "sack", n, outSeqno[n], NoData)}
                    ELSE {}
        cleared == (IF w /\ ~repair THEN {"window"} ELSE {})
                   \union (IF r THEN {"recv", "dup"} ELSE {})
                   \union (IF s /\ ~sack THEN {"send"} ELSE {})
    IN  /\ w \/ r \/ s
        /\ w => "window" \in state[n]
        /\ r => "recv" \in state[n]
        /\ s => "send" \in state[n]
        /\ WriteFirst => Queued(n) = {}
        /\ sendq' = [sendq EXCEPT ![n] = IF repair THEN @ \o Rexmit(n) ELSE @]
        /\ out' = [out EXCEPT ![n] = IF repair THEN SubSeq(@, 1, Edge(n)) ELSE @]
        /\ acks' = [acks EXCEPT ![n] = @ \union ack]
        /\ inAck' = [inAck EXCEPT ![n] = IF ack # {} THEN inSeqno[n] ELSE acked]
        /\ state' = [state EXCEPT ![n] =
                (@ \union (IF Missing(n, w) THEN {"recv"} ELSE {})) \ cleared]
        /\ UNCHANGED <<outSeqno, outAck, outWindow, inSeqno, inWindow, in, frags,
                       consumed, delivered, net, losses, posted>>

-----------------------------------------------------------------------------
Init ==
    /\ outSeqno  = [n \in Nodes |-> First]
    /\ outAck    = [n \in Nodes |-> First]
    /\ outWindow = [n \in Nodes |-> First]
    /\ inSeqno   = [n \in Nodes |-> First]
    /\ inAck     = [n \in Nodes |-> First]
    /\ inWindow  = [n \in Nodes |-> First]
    /\ state     = [n \in Nodes |-> {}]
    /\ out       = [n \in Nodes |-> << >>]
    /\ in        = [n \in Nodes |-> {}]
    /\ frags     = [n \in Nodes |-> << >>]
    /\ sendq     = [n \in Nodes |-> << >>]
    /\ acks      = [n \in Nodes |-> {}]
    /\ net       = {}
    /\ losses    = 0
    /\ posted    = [n \in Nodes |-> << >>]
    /\ consumed  = [n \in Nodes |-> << >>]
    /\ delivered = [n \in Nodes |-> << >>]

Again == IF Duplicates THEN BOOLEAN ELSE {FALSE}

Next ==
    \E n \in Nodes :
          \/ \E k \in Frags : post_msg(n, k)
          \/ \E lost \in SUBSET Queued(n) : write(n, lost)
          \/ \E w, r, s \in BOOLEAN : timer_expire(n, w, r, s)
          \/ \E pkt \in net, again \in Again : process(n, pkt, again)

Spec == Init /\ [][Next]_vars

-----------------------------------------------------------------------------
(* Properties                                                              *)

Data == [msg : Nat, part : Nat, kind : {"none", "message", "fragment", "rollup"}]

Seqnos == 0 .. SeqnoMod - 1

Packets == [type : Types, to : Nodes, src_seqno : Seqnos, dest_seqno : Seqnos, data : Data]

(* The types of the variables.                                             *)
TypeOK ==
    /\ \A f \in {outSeqno, outAck, outWindow, inSeqno, inAck, inWindow} :
          f \in [Nodes -> Seqnos]
    /\ state \in [Nodes -> SUBSET {"recv", "send", "window", "dup"}]
    /\ out \in [Nodes -> Seq(Packets)] /\ sendq \in [Nodes -> Seq(Packets)]
    /\ in \in [Nodes -> SUBSET Packets] /\ acks \in [Nodes -> SUBSET Packets]
    /\ net \subseteq Packets
    /\ losses \in 0 .. MaxLost
    /\ posted \in [Nodes -> Seq(Data)] /\ consumed \in [Nodes -> Seq(Data)]
    /\ frags \in [Nodes -> Seq(Data)] /\ delivered \in [Nodes -> Seq(Seq(Data))]

(* A node takes the packets its peer posted in the order they were posted  *)
(* and none of them twice (dispatch_msg), whatever the network does.       *)
InOrder ==
    \A n \in Nodes : IsPrefix(consumed[n], posted[Peer(n)])

(* The packets of the k-th message a node posted, from the first to the last. *)
Message(n, k) ==
    LET at == {i \in DOMAIN posted[n] : posted[n][i].msg = k}
    IN  SubSeq(posted[n], Min(at), Max(at))

(* A message is delivered whole: the fragments that dispatch_frag_msg puts *)
(* together are those of one message, in order.                            *)
MessagesIntact ==
    \A n \in Nodes : \A k \in 1 .. Len(delivered[n]) :
        delivered[n][k] = Message(Peer(n), k)

Kept(n) == {out[n][i].data : i \in DOMAIN out[n]} \union
           {sendq[n][i].data : i \in DOMAIN sendq[n]}

(* A packet leaves the send window only when the peer has taken it: until  *)
(* then it is there to be retransmitted (adjust_send_window).              *)
Retained ==
    \A n \in Nodes : \A i \in Len(consumed[Peer(n)]) + 1 .. Len(posted[n]) :
        posted[n][i] \in Kept(n)

(* The next packet the peer waits for is one that repair_window would      *)
(* retransmit, or it is about to be written.                               *)
Repairable ==
    \A n \in Nodes :
        LET next == Len(consumed[Peer(n)]) + 1 IN
        next <= Len(posted[n]) =>
            \/ \E i \in DOMAIN sendq[n] : sendq[n][i].data = posted[n][next]
            \/ /\ Repair(n, TRUE)
               /\ \E i \in Edge(n) + 1 .. Len(out[n]) : out[n][i].data = posted[n][next]

Sender(n)   == MaxPosted[n] > 0
Receiver(n) == MaxPosted[Peer(n)] > 0

(* Fairness.  The poll loop writes a queue it was asked to write, and a    *)
(* timer that is set runs out: the retransmissions and requests that could *)
(* set it again back off.  The network delivers what it does not lose, and *)
(* the losses end (MaxLost).  The timers of a node that only receives or   *)
(* only sends are left out when nothing sets them.                         *)
Fairness ==
    \A n \in Nodes :
        /\ WF_vars(\E lost \in SUBSET Queued(n) : write(n, lost))
        /\ SF_vars(\E r, s \in BOOLEAN : timer_expire(n, TRUE, r, s))
        /\ Receiver(n) => SF_vars(\E w, s \in BOOLEAN : timer_expire(n, w, TRUE, s))
        /\ Sender(n) => SF_vars(\E w, r \in BOOLEAN : timer_expire(n, w, r, TRUE))
        /\ WF_vars(\E pkt \in net : ~IsData(pkt) /\ process(n, pkt, FALSE))
        /\ \A i \in 1 .. MaxPosted[Peer(n)] :
              WF_vars(\E pkt \in net : /\ IsData(pkt) /\ pkt.src_seqno = Plus(First, i)
                                       /\ process(n, pkt, FALSE))

FairSpec == Spec /\ Fairness

(* Every packet that is posted is eventually taken by the peer.            *)
EventuallyTaken ==
    \A n \in Nodes : \A i \in 1 .. MaxPosted[n] :
        (Len(posted[n]) >= i) ~> (Len(consumed[Peer(n)]) >= i)
=============================================================================

------------------------- MODULE InboxTransportProof -------------------------
(***************************************************************************)
(* Proofs about InboxTransport: the types, packets taken in the order they *)
(* were posted and kept until they are taken, messages delivered whole,    *)
(* and the packet a peer waits for always within reach of repair_window.   *)
(***************************************************************************)
EXTENDS InboxTransport, SequenceTheorems, FiniteSetTheorems, WellFoundedInduction, TLAPS

-----------------------------------------------------------------------------
(* Sequence numbers                                                        *)

(* the number of the i-th packet of a stream *)
Num(i) == Plus(First, i)

(* The streams do not reach 2^31, where signed numbers overflow, or the    *)
(* build wraps around.                                                     *)
NoOverflow ==
    \/ Wraps
    \/ First >= Half
    \/ \A n \in Nodes : First + MaxPosted[n] < Half

(* The numbers of a stream are different, and addition walks along them. *)
LEMMA Numbers ==
    ASSUME NEW i \in Nat, i < SeqnoMod, NEW j \in Nat, j < SeqnoMod
    PROVE  /\ Num(i) \in Seqnos
           /\ Num(i) = Num(j) => i = j
           /\ i + j < SeqnoMod => Plus(Num(i), j) = Num(i + j)
           /\ Num(0) = First
    BY InboxAssumption DEF Num, Plus, Seqnos, SeqnoMod

(* seqno_cmp compares the positions of two packets of a stream. *)
LEMMA CmpExact ==
    ASSUME NoOverflow, NEW n \in Nodes,
           NEW i \in 0 .. MaxPosted[n], NEW j \in 0 .. MaxPosted[n]
    PROVE  seqno_cmp(Num(i), Num(j)) = i - j
  <1>1. MaxPosted[n] \in Nat /\ MaxPosted[n] < Half
    BY InboxAssumption
  <1>2. CASE Wraps
    BY <1>1, <1>2, InboxAssumption DEF seqno_cmp, Signed, Num, Plus, SeqnoMod
  <1>3. CASE First >= Half
    BY <1>1, <1>3, InboxAssumption DEF seqno_cmp, Signed, Num, Plus, SeqnoMod
  <1>4. CASE First + MaxPosted[n] < Half
    BY <1>1, <1>4, InboxAssumption DEF seqno_cmp, Signed, Num, Plus, SeqnoMod
  <1> QED
    BY <1>2, <1>3, <1>4 DEF NoOverflow

(* The peer of the peer is the node. *)
LEMMA PeerFacts ==
    ASSUME NEW n \in Nodes
    PROVE  Peer(n) \in Nodes /\ Peer(n) # n /\ Peer(Peer(n)) = n
  <1>1. PICK x, y \in Nodes : x # y /\ Nodes = {x, y}
    BY InboxAssumption
  <1>2. \A m \in Nodes : Peer(m) \in Nodes /\ Peer(m) # m
    BY <1>1 DEF Peer
  <1> QED
    BY <1>1, <1>2

(* The smallest of a set of numbers. *)
LEMMA MinFact ==
    ASSUME NEW S, S \subseteq Nat, S # {}
    PROVE  Min(S) \in S /\ \A y \in S : Min(S) <= y
  <1>1. PICK x \in S : \A y \in S : ~(<<y, x>> \in OpToRel(<, Nat))
    BY WFMin, NatLessThanWellFounded
  <1>2. \A y, z \in Nat : y < z => <<y, z>> \in OpToRel(<, Nat)
    BY DEF OpToRel
  <1>3. \A y \in S : ~(y < x)
    BY <1>1, <1>2
  <1>4. \A y \in S : x <= y
    BY <1>3
  <1> QED
    BY <1>4 DEF Min

(* The largest of a set of numbers that has a bound. *)
LEMMA MaxFact ==
    ASSUME NEW N \in Nat, NEW S, S \subseteq 0 .. N, S # {}
    PROVE  Max(S) \in S /\ \A y \in S : Max(S) >= y
  <1> DEFINE T == {N - x : x \in S}
  <1>1. T \subseteq Nat /\ T # {}
    OBVIOUS
  <1>2. Min(T) \in T /\ \A y \in T : Min(T) <= y
    BY <1>1, MinFact
  <1>3. PICK x \in S : Min(T) = N - x
    BY <1>2
  <1>4. \A y \in S : x >= y
    <2> TAKE y \in S
    <2>1. N - y \in T
      OBVIOUS
    <2>2. N - x <= N - y
      BY <2>1, <1>2, <1>3
    <2> QED
      BY <2>2
  <1> QED
    BY <1>4 DEF Max

-----------------------------------------------------------------------------
(* The inductive invariant                                                 *)

(* A packet of n, which has posted ps and taken c packets: it has the      *)
(* number and the data of a packet that n posted, and acknowledges no more *)
(* than n has taken.                                                       *)
Genuine(n, ps, c, pkt) ==
    /\ pkt \in Packets
    /\ pkt.to = Peer(n)
    /\ \E i \in 0 .. Len(ps) :
          /\ pkt.src_seqno = Num(i)
          /\ IsData(pkt) => i # 0 /\ pkt.data = ps[i]
    /\ \E j \in 0 .. c : pkt.dest_seqno = Num(j)

Sent(n, pkt) == Genuine(n, posted[n], Len(consumed[n]), pkt)

SentData(n, q) == \A i \in 1 .. Len(q) : IsData(q[i]) /\ Sent(n, q[i])

StreamTypes ==
    /\ posted \in [Nodes -> Seq(Data)] /\ consumed \in [Nodes -> Seq(Data)]
    /\ out \in [Nodes -> Seq(Packets)] /\ sendq \in [Nodes -> Seq(Packets)]
    /\ in \in [Nodes -> SUBSET Packets] /\ acks \in [Nodes -> SUBSET Packets]
    /\ net \subseteq Packets
    /\ \A f \in {outSeqno, outWindow, inSeqno} : f \in [Nodes -> Seqnos]

(* what the peers took is what was posted, and the numbers say how much *)
Streams ==
    \A n \in Nodes :
        /\ Len(posted[n]) <= MaxPosted[n]
        /\ Len(consumed[n]) <= Len(posted[Peer(n)])
        /\ \A i \in 1 .. Len(consumed[n]) : consumed[n][i] = posted[Peer(n)][i]
        /\ outSeqno[n] = Num(Len(posted[n]))
        /\ inSeqno[n] = Num(Len(consumed[n]))

(* every packet, wherever it is, is genuine *)
PacketsOK ==
    /\ \A n \in Nodes : SentData(n, out[n]) /\ SentData(n, sendq[n])
    /\ \A n \in Nodes : \A pkt \in acks[n] : Sent(n, pkt)
    /\ \A n \in Nodes : \A pkt \in in[n] : IsData(pkt) /\ Sent(Peer(n), pkt)
    /\ \A pkt \in net : Sent(Peer(pkt.to), pkt)

Holds(q, s) == \E k \in 1 .. Len(q) : q[k].src_seqno = s

(* n counts no more as acknowledged than was taken *)
AcksOK ==
    \A n \in Nodes : \E j \in 0 .. Len(consumed[Peer(n)]) : outWindow[n] = Num(j)

StreamInv == StreamTypes /\ Streams /\ PacketsOK /\ AcksOK

(* the send window of n has a packet for every number not yet taken *)
WindowsOK ==
    \A n \in Nodes :
        \A i \in Len(consumed[Peer(n)]) + 1 .. Len(posted[n]) :
            Holds(out[n], Num(i)) \/ Holds(sendq[n], Num(i))

(* Packets and sequences have their types. *)
LEMMA Typed ==
    ASSUME StreamTypes, NEW n \in Nodes
    PROVE  /\ posted[n] \in Seq(Data) /\ consumed[n] \in Seq(Data)
           /\ out[n] \in Seq(Packets) /\ sendq[n] \in Seq(Packets)
           /\ Len(posted[n]) \in Nat /\ Len(consumed[n]) \in Nat
           /\ Len(out[n]) \in Nat /\ Len(sendq[n]) \in Nat
           /\ DOMAIN out[n] = 1 .. Len(out[n])
           /\ DOMAIN sendq[n] = 1 .. Len(sendq[n])
  <1>1. /\ posted[n] \in Seq(Data) /\ consumed[n] \in Seq(Data)
        /\ out[n] \in Seq(Packets) /\ sendq[n] \in Seq(Packets)
    BY DEF StreamTypes
  <1> QED
    BY <1>1, LenProperties

(* A genuine packet stays genuine when more is posted and more is taken. *)
LEMMA GenuineGrows ==
    ASSUME NEW n \in Nodes, NEW ps \in Seq(Data), NEW qs \in Seq(Data),
           NEW c \in Nat, NEW d \in Nat, c <= d, Len(ps) <= Len(qs),
           \A i \in 1 .. Len(ps) : qs[i] = ps[i],
           NEW pkt, Genuine(n, ps, c, pkt)
    PROVE  Genuine(n, qs, d, pkt)
  <1>1. Len(ps) \in Nat /\ Len(qs) \in Nat
    BY LenProperties
  <1>2. PICK i \in 0 .. Len(ps) :
            /\ pkt.src_seqno = Num(i)
            /\ IsData(pkt) => i # 0 /\ pkt.data = ps[i]
    BY DEF Genuine
  <1>3. i \in 0 .. Len(qs) /\ (i # 0 => qs[i] = ps[i])
    BY <1>1
  <1>4. \E j \in 0 .. d : pkt.dest_seqno = Num(j)
    BY DEF Genuine
  <1>5. pkt \in Packets /\ pkt.to = Peer(n)
    BY DEF Genuine
  <1> QED
    BY <1>2, <1>3, <1>4, <1>5 DEF Genuine

(* The parts of a concatenation. *)
LEMMA ConcatParts ==
    ASSUME NEW n \in Nodes, NEW q \in Seq(Packets), NEW r \in Seq(Packets)
    PROVE  /\ q \o r \in Seq(Packets)
           /\ Len(q) \in Nat /\ Len(r) \in Nat
           /\ SentData(n, q) /\ SentData(n, r) => SentData(n, q \o r)
           /\ \A s : Holds(q, s) \/ Holds(r, s) => Holds(q \o r, s)
  <1>1. Len(q) \in Nat /\ Len(r) \in Nat
    BY LenProperties
  <1>2. /\ q \o r \in Seq(Packets)
        /\ Len(q \o r) = Len(q) + Len(r)
        /\ \A i \in 1 .. Len(q) + Len(r) :
              (q \o r)[i] = IF i <= Len(q) THEN q[i] ELSE r[i - Len(q)]
    BY ConcatProperties
  <1>3. SentData(n, q) /\ SentData(n, r) => SentData(n, q \o r)
    <2> SUFFICES ASSUME SentData(n, q), SentData(n, r), NEW i \in 1 .. Len(q) + Len(r)
                 PROVE  IsData((q \o r)[i]) /\ Sent(n, (q \o r)[i])
      BY <1>2 DEF SentData
    <2>1. CASE i <= Len(q)
      <3>1. i \in 1 .. Len(q) /\ (q \o r)[i] = q[i]
        BY <1>1, <1>2, <2>1
      <3> QED
        BY <3>1 DEF SentData
    <2>2. CASE ~(i <= Len(q))
      <3>1. i - Len(q) \in 1 .. Len(r) /\ (q \o r)[i] = r[i - Len(q)]
        BY <1>1, <1>2, <2>2
      <3> QED
        BY <3>1 DEF SentData
    <2> QED
      BY <2>1, <2>2
  <1>4. ASSUME NEW s, NEW k \in 1 .. Len(q), q[k].src_seqno = s
        PROVE  Holds(q \o r, s)
    <2>1. k \in 1 .. Len(q) + Len(r) /\ (q \o r)[k] = q[k]
      BY <1>1, <1>2
    <2> QED
      BY <1>2, <1>4, <2>1 DEF Holds
  <1>5. ASSUME NEW s, NEW k \in 1 .. Len(r), r[k].src_seqno = s
        PROVE  Holds(q \o r, s)
    <2>1. Len(q) + k \in 1 .. Len(q) + Len(r) /\ (q \o r)[Len(q) + k] = r[k]
      BY <1>1, <1>2
    <2> QED
      BY <1>2, <1>5, <2>1 DEF Holds
  <1> QED
    BY <1>1, <1>2, <1>3, <1>4, <1>5 DEF Holds

(* It holds at the start: nothing is posted, on the way or taken. *)
LEMMA StreamInit == Init => StreamInv /\ WindowsOK
  <1> SUFFICES ASSUME Init PROVE StreamInv /\ WindowsOK
    OBVIOUS
  <1>1. StreamTypes
    <2>1. First \in Seqnos
      BY InboxAssumption DEF Seqnos
    <2> QED
      BY <2>1, EmptySeq DEF Init, StreamTypes
  <1>2. \A n \in Nodes : /\ Peer(n) \in Nodes /\ MaxPosted[n] \in Nat
                          /\ posted[n] = << >> /\ consumed[n] = << >>
                          /\ out[n] = << >> /\ sendq[n] = << >>
                          /\ acks[n] = {} /\ in[n] = {}
                          /\ outSeqno[n] = First /\ inSeqno[n] = First
                          /\ outWindow[n] = First
    BY PeerFacts, InboxAssumption DEF Init
  <1>3. Len(<< >>) = 0
    BY EmptySeq
  <1>4. Num(0) = First
    BY InboxAssumption DEF Num, Plus, SeqnoMod
  <1>5. Streams
    BY <1>2, <1>3, <1>4 DEF Streams
  <1>6. PacketsOK
    BY <1>2, <1>3 DEF Init, PacketsOK, SentData
  <1>7. AcksOK /\ WindowsOK
    BY <1>2, <1>3, <1>4 DEF AcksOK, WindowsOK
  <1> QED
    BY <1>1, <1>5, <1>6, <1>7 DEF StreamInv

-----------------------------------------------------------------------------
(* The actions                                                             *)

(* write moves packets to the network and to the send window. *)
LEMMA WriteStep ==
    ASSUME StreamInv, NEW n \in Nodes, NEW lost, write(n, lost)
    PROVE  StreamInv' /\ (WindowsOK => WindowsOK')
  <1>1. UNCHANGED <<posted, consumed, outSeqno, outWindow, inSeqno, in>>
    BY DEF write, recvVars
  <1>2. /\ out[n] \in Seq(Packets) /\ sendq[n] \in Seq(Packets)
        /\ DOMAIN sendq[n] = 1 .. Len(sendq[n])
    BY Typed DEF StreamInv
  <1>3. /\ out' = [out EXCEPT ![n] = out[n] \o sendq[n]]
        /\ sendq' = [sendq EXCEPT ![n] = << >>]
        /\ acks' = [acks EXCEPT ![n] = {}]
        /\ net' \subseteq net \union Queued(n)
    BY DEF write
  <1>4. /\ out \in [Nodes -> Seq(Packets)] /\ sendq \in [Nodes -> Seq(Packets)]
        /\ acks \in [Nodes -> SUBSET Packets]
    BY DEF StreamInv, StreamTypes
  <1>5. << >> \in Seq(Packets) /\ Len(<< >>) = 0
    BY EmptySeq
  <1>6. out[n] \o sendq[n] \in Seq(Packets)
    BY <1>2, ConcatParts
  <1>7. /\ out' \in [Nodes -> Seq(Packets)] /\ sendq' \in [Nodes -> Seq(Packets)]
        /\ acks' \in [Nodes -> SUBSET Packets]
        /\ out'[n] = out[n] \o sendq[n] /\ sendq'[n] = << >> /\ acks'[n] = {}
        /\ \A m \in Nodes \ {n} :
              out'[m] = out[m] /\ sendq'[m] = sendq[m] /\ acks'[m] = acks[m]
    BY <1>3, <1>4, <1>5, <1>6
  <1>8. \A m, pkt : Sent(m, pkt)' <=> Sent(m, pkt)
    BY <1>1 DEF Sent
  <1>9. \A pkt \in Queued(n) : Sent(n, pkt)
    BY <1>2 DEF Queued, StreamInv, PacketsOK, SentData
  <1>10. \A pkt \in Queued(n) : pkt \in Packets /\ Peer(pkt.to) = n
    BY <1>9, PeerFacts DEF Sent, Genuine
  <1>11. StreamTypes'
    BY <1>1, <1>3, <1>7, <1>10 DEF StreamInv, StreamTypes
  <1>12. Streams'
    BY <1>1 DEF StreamInv, Streams
  <1>13. PacketsOK'
    <2>1. ASSUME NEW m \in Nodes PROVE SentData(m, out[m])'
      <3>1. CASE m = n
        <4>1. SentData(n, out[n] \o sendq[n])
          BY <1>2, ConcatParts DEF StreamInv, PacketsOK
        <4> QED
          BY <3>1, <4>1, <1>7, <1>8 DEF SentData
      <3>2. CASE m # n
        BY <3>2, <1>7, <1>8 DEF SentData, StreamInv, PacketsOK
      <3> QED
        BY <3>1, <3>2
    <2>2. ASSUME NEW m \in Nodes PROVE SentData(m, sendq[m])'
      <3>1. CASE m = n
        BY <3>1, <1>5, <1>7 DEF SentData
      <3>2. CASE m # n
        BY <3>2, <1>7, <1>8 DEF SentData, StreamInv, PacketsOK
      <3> QED
        BY <3>1, <3>2
    <2>3. \A m \in Nodes : \A pkt \in acks'[m] : Sent(m, pkt)'
      BY <1>7, <1>8 DEF StreamInv, PacketsOK
    <2>4. \A m \in Nodes : \A pkt \in in'[m] : IsData(pkt) /\ Sent(Peer(m), pkt)'
      BY <1>1, <1>8 DEF StreamInv, PacketsOK
    <2>5. \A pkt \in net' : Sent(Peer(pkt.to), pkt)'
      BY <1>3, <1>8, <1>9, <1>10 DEF StreamInv, PacketsOK
    <2> QED
      BY <2>1, <2>2, <2>3, <2>4, <2>5 DEF PacketsOK, IsData
  <1>14. AcksOK' /\ (WindowsOK => WindowsOK')
    <2>1. ASSUME NEW m \in Nodes, NEW s
          PROVE  Holds(out[m], s) \/ Holds(sendq[m], s) =>
                     Holds(out'[m], s) \/ Holds(sendq'[m], s)
      <3>1. CASE m = n
        BY <3>1, <1>2, <1>7, ConcatParts
      <3>2. CASE m # n
        BY <3>2, <1>7
      <3> QED
        BY <3>1, <3>2
    <2> QED
      BY <1>1, <2>1 DEF StreamInv, AcksOK, WindowsOK, Holds
  <1> QED
    BY <1>11, <1>12, <1>13, <1>14 DEF StreamInv

(* A function on 1 .. k is a sequence. *)
LEMMA FunctionSeq ==
    ASSUME NEW S, NEW k \in Nat, NEW f \in [1 .. k -> S]
    PROVE  f \in Seq(S) /\ Len(f) = k
    OBVIOUS

(* post_msg numbers the packets of a message and queues them. *)
LEMMA PostStep ==
    ASSUME StreamInv, NEW n \in Nodes, NEW k \in Frags, post_msg(n, k)
    PROVE  StreamInv' /\ (WindowsOK => WindowsOK')
  <1> DEFINE m    == IF posted[n] = << >> THEN 1 ELSE posted[n][Len(posted[n])].msg + 1
             part == [i \in 1 .. k |-> [msg |-> m, part |-> i, kind |-> Kind(i, k)]]
             pkts == [i \in 1 .. k |->
                         Packet("data", n, Plus(outSeqno[n], i), part[i])]
             P    == Len(posted[n])
             Now(x, pkt) == Genuine(x, posted'[x], Len(consumed'[x]), pkt)
  <1>1. /\ P + k <= MaxPosted[n]
        /\ posted' = [posted EXCEPT ![n] = posted[n] \o part]
        /\ sendq' = [sendq EXCEPT ![n] = sendq[n] \o pkts]
        /\ outSeqno' = [outSeqno EXCEPT ![n] = Plus(outSeqno[n], k)]
    BY DEF post_msg
  <1>2. UNCHANGED <<outWindow, out, inSeqno, in, consumed, acks, net>>
    BY DEF post_msg, recvVars
  <1>3. k \in Nat /\ k > 0 /\ MaxPosted[n] \in Nat /\ MaxPosted[n] < Half /\ Half \in Nat
    BY InboxAssumption
  <1>4. /\ posted[n] \in Seq(Data) /\ sendq[n] \in Seq(Packets) /\ P \in Nat
        /\ consumed[n] \in Seq(Data) /\ Len(consumed[n]) \in Nat
    BY Typed DEF StreamInv
  <1>5. m \in Nat
    <2>1. posted[n] # << >> => P \in 1 .. P
      BY <1>4, EmptySeq
    <2>2. posted[n] # << >> => posted[n][P] \in Data
      BY <1>4, <2>1, ElementOfSeq
    <2> QED
      BY <2>2 DEF Data
  <1> HIDE DEF m
  <1>6. part \in [1 .. k -> Data]
    BY <1>3, <1>5 DEF Data, Kind
  <1>7. part \in Seq(Data) /\ Len(part) = k
    BY <1>3, <1>6, FunctionSeq
  <1> HIDE DEF part
  <1>8. /\ posted[n] \o part \in Seq(Data)
        /\ Len(posted[n] \o part) = P + k
        /\ \A i \in 1 .. P + k : (posted[n] \o part)[i] =
                IF i <= P THEN posted[n][i] ELSE part[i - P]
    BY <1>4, <1>7, ConcatProperties
  <1>9. /\ posted' \in [Nodes -> Seq(Data)] /\ posted'[n] = posted[n] \o part
        /\ \A x \in Nodes \ {n} : posted'[x] = posted[x]
    BY <1>1, <1>8 DEF StreamInv, StreamTypes
  <1>10. ASSUME NEW x \in Nodes, NEW pkt, Sent(x, pkt)
         PROVE  Now(x, pkt)
    <2>1. /\ posted[x] \in Seq(Data) /\ posted'[x] \in Seq(Data)
          /\ Len(consumed[x]) \in Nat /\ Len(posted[x]) \in Nat
      BY <1>9, Typed DEF StreamInv
    <2>2. /\ Len(posted[x]) <= Len(posted'[x])
          /\ \A i \in 1 .. Len(posted[x]) : posted'[x][i] = posted[x][i]
      <3>1. CASE x = n
        BY <3>1, <1>3, <1>4, <1>8, <1>9
      <3>2. CASE x # n
        BY <3>2, <1>9, <2>1
      <3> QED
        BY <3>1, <3>2
    <2>3. Genuine(x, posted[x], Len(consumed[x]), pkt)
      BY <1>10 DEF Sent
    <2>4. Genuine(x, posted'[x], Len(consumed[x]), pkt)
      BY <2>1, <2>2, <2>3, GenuineGrows
    <2> QED
      BY <2>4, <1>2
  <1>11. outSeqno[n] = Num(P) /\ inSeqno[n] = Num(Len(consumed[n]))
    BY DEF StreamInv, Streams
  <1>12. \A i \in 0 .. k : Plus(outSeqno[n], i) = Num(P + i) /\ Num(P + i) \in Seqnos
    <2> TAKE i \in 0 .. k
    <2> HIDE DEF P
    <2>1. P + k <= MaxPosted[n] /\ P \in Nat
      BY <1>1, <1>4
    <2>2. /\ P < SeqnoMod /\ i < SeqnoMod /\ P + i < SeqnoMod
          /\ i \in Nat /\ P + i \in Nat
      BY <1>3, <2>1 DEF SeqnoMod
    <2> QED
      BY <1>11, <2>1, <2>2, Numbers
  <1>13. inSeqno[n] \in Seqnos
    BY DEF StreamInv, StreamTypes
  <1>14. ASSUME NEW i \in 1 .. k
         PROVE  pkts[i] \in Packets /\ IsData(pkts[i]) /\ Now(n, pkts[i])
                /\ pkts[i].src_seqno = Num(P + i)
    <2>1. Plus(outSeqno[n], i) = Num(P + i) /\ Num(P + i) \in Seqnos /\ part[i] \in Data
      BY <1>6, <1>12
    <2>2. pkts[i] = [type |-> "data", to |-> Peer(n), src_seqno |-> Num(P + i),
                     dest_seqno |-> inSeqno[n], data |-> part[i]]
      BY <2>1 DEF Packet
    <2>3. pkts[i] \in Packets /\ IsData(pkts[i])
      BY <2>1, <2>2, <1>13, PeerFacts DEF Packets, Types, IsData
    <2>4. P + i \in 0 .. P + k /\ P + i # 0 /\ (posted[n] \o part)[P + i] = part[i]
      BY <1>3, <1>4, <1>8
    <2>5. Len(consumed[n]) \in 0 .. Len(consumed[n])
      BY <1>4
    <2>6. Now(n, pkts[i])
      <3> HIDE DEF pkts
      <3>1. Genuine(n, posted[n] \o part, Len(consumed[n]), pkts[i])
        BY <2>2, <2>3, <2>4, <2>5, <1>8, <1>11 DEF Genuine
      <3> QED
        BY <3>1, <1>2, <1>9
    <2> QED
      BY <2>2, <2>3, <2>6
  <1>15. pkts \in Seq(Packets) /\ Len(pkts) = k
    <2>1. pkts \in [1 .. k -> Packets]
      BY <1>14
    <2> QED
      BY <1>3, <2>1, FunctionSeq
  <1> HIDE DEF pkts
  <1>16. sendq[n] \o pkts \in Seq(Packets)
    BY <1>4, <1>15, ConcatParts
  <1>17. /\ sendq' \in [Nodes -> Seq(Packets)] /\ sendq'[n] = sendq[n] \o pkts
         /\ \A x \in Nodes \ {n} : sendq'[x] = sendq[x]
    BY <1>1, <1>16 DEF StreamInv, StreamTypes
  <1>18. /\ outSeqno' \in [Nodes -> Seqnos] /\ outSeqno'[n] = Num(P + k)
         /\ \A x \in Nodes \ {n} : outSeqno'[x] = outSeqno[x]
    BY <1>1, <1>3, <1>12 DEF StreamInv, StreamTypes
  <1>19. StreamTypes'
    BY <1>2, <1>9, <1>17, <1>18 DEF StreamInv, StreamTypes
  <1>20. Streams'
    <2> SUFFICES ASSUME NEW x \in Nodes
                 PROVE  /\ Len(posted'[x]) <= MaxPosted[x]
                        /\ Len(consumed'[x]) <= Len(posted'[Peer(x)])
                        /\ \A i \in 1 .. Len(consumed'[x]) :
                               consumed'[x][i] = posted'[Peer(x)][i]
                        /\ outSeqno'[x] = Num(Len(posted'[x]))
                        /\ inSeqno'[x] = Num(Len(consumed'[x]))
      BY DEF Streams
    <2>1. /\ Len(posted[x]) <= MaxPosted[x]
          /\ Len(consumed[x]) <= Len(posted[Peer(x)])
          /\ \A i \in 1 .. Len(consumed[x]) : consumed[x][i] = posted[Peer(x)][i]
          /\ outSeqno[x] = Num(Len(posted[x]))
          /\ inSeqno[x] = Num(Len(consumed[x]))
          /\ Len(consumed[x]) \in Nat
      BY Typed DEF StreamInv, Streams
    <2>2. CASE x = n
      BY <2>1, <2>2, <1>1, <1>2, <1>8, <1>9, <1>18, PeerFacts
    <2>3. CASE x # n
      <3>1. Peer(x) = n
        BY <2>3, InboxAssumption DEF Peer
      <3> QED
        BY <2>1, <2>3, <3>1, <1>2, <1>3, <1>4, <1>8, <1>9, <1>18
    <2> QED
      BY <2>2, <2>3
  <1>21. PacketsOK'
    <2>1. ASSUME NEW x \in Nodes PROVE SentData(x, out[x])'
      BY <1>2, <1>10 DEF SentData, StreamInv, PacketsOK, Sent, IsData
    <2>2. ASSUME NEW x \in Nodes PROVE SentData(x, sendq[x])'
      <3>1. CASE x # n
        BY <3>1, <1>10, <1>17 DEF SentData, StreamInv, PacketsOK, Sent, IsData
      <3>2. CASE x = n
        <4>1. /\ Len(sendq[n]) \in Nat
              /\ Len(sendq[n] \o pkts) = Len(sendq[n]) + k
              /\ \A i \in 1 .. Len(sendq[n]) + k : (sendq[n] \o pkts)[i] =
                     IF i <= Len(sendq[n]) THEN sendq[n][i] ELSE pkts[i - Len(sendq[n])]
          BY <1>4, <1>15, ConcatProperties, LenProperties
        <4>2. ASSUME NEW i \in 1 .. Len(sendq[n]) + k
              PROVE  IsData((sendq[n] \o pkts)[i]) /\ Now(n, (sendq[n] \o pkts)[i])
          <5>1. CASE i <= Len(sendq[n])
            <6>1. i \in 1 .. Len(sendq[n]) /\ (sendq[n] \o pkts)[i] = sendq[n][i]
              BY <4>1, <5>1
            <6>2. IsData(sendq[n][i]) /\ Sent(n, sendq[n][i])
              BY <6>1 DEF StreamInv, PacketsOK, SentData
            <6> QED
              BY <6>1, <6>2, <1>10
          <5>2. CASE ~(i <= Len(sendq[n]))
            <6>1. /\ i - Len(sendq[n]) \in 1 .. k
                  /\ (sendq[n] \o pkts)[i] = pkts[i - Len(sendq[n])]
              BY <1>3, <4>1, <5>2
            <6> QED
              BY <6>1, <1>14
          <5> QED
            BY <5>1, <5>2
        <4> QED
          BY <3>2, <4>1, <4>2, <1>17 DEF SentData, IsData, Sent
      <3> QED
        BY <3>1, <3>2
    <2>3. \A x \in Nodes : \A pkt \in acks'[x] : Sent(x, pkt)'
      BY <1>2, <1>10 DEF StreamInv, PacketsOK, Sent
    <2>4. \A x \in Nodes : \A pkt \in in'[x] : IsData(pkt) /\ Sent(Peer(x), pkt)'
      BY <1>2, <1>10, PeerFacts DEF StreamInv, PacketsOK, Sent
    <2>5. \A pkt \in net' : Sent(Peer(pkt.to), pkt)'
      <3>1. \A pkt \in net : pkt.to \in Nodes
        BY DEF StreamInv, StreamTypes, Packets
      <3> QED
        BY <3>1, <1>2, <1>10, PeerFacts DEF StreamInv, PacketsOK, Sent
    <2> QED
      BY <2>1, <2>2, <2>3, <2>4, <2>5 DEF PacketsOK, IsData
  <1>22. AcksOK'
    BY <1>2 DEF StreamInv, AcksOK
  <1>23. WindowsOK => WindowsOK'
    <2> SUFFICES ASSUME WindowsOK, NEW x \in Nodes
                 PROVE  \A i \in Len(consumed[Peer(x)]) + 1 .. Len(posted'[x]) :
                              Holds(out[x], Num(i)) \/ Holds(sendq'[x], Num(i))
      BY <1>2 DEF WindowsOK, Holds
    <2>1. \A i \in Len(consumed[Peer(x)]) + 1 .. Len(posted[x]) :
                Holds(out[x], Num(i)) \/ Holds(sendq[x], Num(i))
      BY DEF WindowsOK
    <2>2. CASE x # n
      BY <2>1, <2>2, <1>9, <1>17
    <2>3. CASE x = n
      <3>1. Len(consumed[Peer(n)]) \in Nat
        BY PeerFacts, Typed DEF StreamInv
      <3>2. ASSUME NEW i \in Len(consumed[Peer(n)]) + 1 .. P + k
            PROVE  Holds(out[n], Num(i)) \/ Holds(sendq[n] \o pkts, Num(i))
        <4>1. CASE i <= P
          BY <2>1, <2>3, <3>1, <4>1, <1>3, <1>4, <1>15, ConcatParts
        <4>2. CASE ~(i <= P)
          <5>1. i - P \in 1 .. k /\ P + (i - P) = i
            BY <4>2, <3>1, <1>3, <1>4
          <5>2. Holds(pkts, Num(i))
            BY <5>1, <1>14, <1>15 DEF Holds
          <5> QED
            BY <5>2, <1>4, <1>15, ConcatParts
        <4> QED
          BY <4>1, <4>2
      <3> QED
        BY <2>1, <2>3, <3>2, <1>8, <1>9, <1>17
    <2> QED
      BY <2>2, <2>3
  <1> QED
    BY <1>19, <1>20, <1>21, <1>22, <1>23 DEF StreamInv

(* The parts of a piece of a queue. *)
LEMMA SubSeqParts ==
    ASSUME NEW n \in Nodes, NEW q \in Seq(Packets),
           NEW a \in Nat \ {0}, NEW b \in 0 .. Len(q)
    PROVE  /\ SubSeq(q, a, b) \in Seq(Packets)
           /\ SentData(n, q) => SentData(n, SubSeq(q, a, b))
           /\ \A x \in a .. b : Holds(SubSeq(q, a, b), q[x].src_seqno)
  <1>1. Len(q) \in Nat /\ \A i \in 1 .. Len(q) : q[i] \in Packets
    BY LenProperties, ElementOfSeq
  <1>2. \A i \in a .. b : i \in 1 .. Len(q) /\ q[i] \in Packets
    BY <1>1
  <1>3. a \in Int /\ b \in Int
    BY <1>1
  <1>4. /\ SubSeq(q, a, b) \in Seq(Packets)
        /\ Len(SubSeq(q, a, b)) = IF a <= b THEN b - a + 1 ELSE 0
        /\ \A i \in 1 .. b - a + 1 : SubSeq(q, a, b)[i] = q[a + i - 1]
    BY <1>2, <1>3, SubSeqProperties
  <1>5. ASSUME SentData(n, q), NEW i \in 1 .. Len(SubSeq(q, a, b))
        PROVE  IsData(SubSeq(q, a, b)[i]) /\ Sent(n, SubSeq(q, a, b)[i])
    <2>1. i \in 1 .. b - a + 1 /\ a + i - 1 \in 1 .. Len(q)
      BY <1>1, <1>3, <1>4
    <2> QED
      BY <1>4, <1>5, <2>1 DEF SentData
  <1>6. ASSUME NEW x \in a .. b
        PROVE  Holds(SubSeq(q, a, b), q[x].src_seqno)
    <2>1. /\ x - a + 1 \in 1 .. b - a + 1 /\ a + (x - a + 1) - 1 = x
          /\ Len(SubSeq(q, a, b)) = b - a + 1
      BY <1>3, <1>4
    <2>2. SubSeq(q, a, b)[x - a + 1] = q[x]
      BY <1>4, <2>1
    <2> QED
      BY <2>1, <2>2 DEF Holds
  <1> QED
    BY <1>4, <1>5, <1>6 DEF SentData

(* adjust_send_window keeps every packet that the window does not cover. *)
LEMMA UnackedParts ==
    ASSUME NEW n \in Nodes, NEW q \in Seq(Packets), NEW w
    PROVE  /\ Unacked(q, w) \in Seq(Packets)
           /\ SentData(n, q) => SentData(n, Unacked(q, w))
           /\ \A x \in 1 .. Len(q) : seqno_cmp(q[x].src_seqno, w) > 0 =>
                 Holds(Unacked(q, w), q[x].src_seqno)
  <1> DEFINE keep == {i \in 1 .. Len(q) : seqno_cmp(q[i].src_seqno, w) > 0}
  <1>1. Len(q) \in Nat /\ DOMAIN q = 1 .. Len(q)
    BY LenProperties
  <1>2. Unacked(q, w) = IF keep = {} THEN << >> ELSE SubSeq(q, Min(keep), Len(q))
    BY <1>1 DEF Unacked
  <1>3. CASE keep = {}
    <2>1. << >> \in Seq(Packets) /\ SentData(n, << >>)
      BY EmptySeq DEF SentData
    <2> QED
      BY <1>2, <1>3, <2>1
  <1>4. CASE keep # {}
    <2>0. keep \subseteq Nat
      OBVIOUS
    <2>1. Min(keep) \in keep /\ \A y \in keep : Min(keep) <= y
      <3> HIDE DEF keep
      <3> QED
        BY <1>4, <2>0, MinFact
    <2>2. Min(keep) \in Nat \ {0} /\ Len(q) \in 0 .. Len(q)
      BY <1>1, <2>1
    <2>3. \A y \in keep : y \in Min(keep) .. Len(q)
      BY <1>1, <2>1
    <2> QED
      BY <1>2, <1>4, <2>2, <2>3, SubSeqParts
  <1> QED
    BY <1>3, <1>4

(* The packets that repair_window queues again stand for those it takes    *)
(* off the send window.                                                    *)
LEMMA RexmitParts ==
    ASSUME StreamInv, NEW n \in Nodes
    PROVE  /\ Edge(n) \in 0 .. Len(out[n])
           /\ Rexmit(n) \in Seq(Packets) /\ SentData(n, Rexmit(n))
           /\ \A x \in Edge(n) + 1 .. Len(out[n]) : Holds(Rexmit(n), out[n][x].src_seqno)
  <1>1. /\ out[n] \in Seq(Packets) /\ Len(out[n]) \in Nat
        /\ DOMAIN out[n] = 1 .. Len(out[n])
    BY Typed DEF StreamInv
  <1>2. Edge(n) \in 0 .. Len(out[n])
    <2> DEFINE S == {0} \union {i \in 1 .. Len(out[n]) :
                       seqno_cmp(out[n][i].src_seqno, outWindow[n]) <= 0}
    <2>1. S \subseteq 0 .. Len(out[n]) /\ S # {}
      BY <1>1
    <2>2. Max(S) \in S
      BY <1>1, <2>1, MaxFact
    <2>3. Edge(n) = Max(S)
      BY <1>1 DEF Edge
    <2> QED
      BY <2>1, <2>2, <2>3
  <1> DEFINE e == Edge(n)
             k == Len(out[n]) - e
             R == [i \in 1 .. k |-> [out[n][e + i] EXCEPT !.dest_seqno = inSeqno[n]]]
  <1>3. Rexmit(n) = R
    BY DEF Rexmit
  <1> HIDE DEF e
  <1>4. e \in Nat /\ k \in Nat /\ \A i \in 1 .. k : e + i \in 1 .. Len(out[n])
    BY <1>1, <1>2 DEF e
  <1>5. /\ inSeqno[n] \in Seqnos /\ inSeqno[n] = Num(Len(consumed[n]))
        /\ Len(consumed[n]) \in 0 .. Len(consumed[n])
    BY Typed DEF StreamInv, StreamTypes, Streams
  <1>6. ASSUME NEW i \in 1 .. k
        PROVE  /\ R[i] \in Packets /\ IsData(R[i]) /\ Sent(n, R[i])
               /\ R[i].src_seqno = out[n][e + i].src_seqno
    <2>1. IsData(out[n][e + i]) /\ Sent(n, out[n][e + i])
      BY <1>4 DEF StreamInv, PacketsOK, SentData
    <2> DEFINE p == out[n][e + i]
    <2>2. p \in Packets
      BY <2>1 DEF Sent, Genuine
    <2>3. R[i] = [p EXCEPT !.dest_seqno = inSeqno[n]]
      OBVIOUS
    <2> HIDE DEF p, R
    <2>4. /\ R[i] \in Packets /\ R[i].type = p.type /\ R[i].to = p.to
          /\ R[i].src_seqno = p.src_seqno /\ R[i].data = p.data
          /\ R[i].dest_seqno = inSeqno[n]
      BY <1>5, <2>2, <2>3 DEF Packets
    <2>5. IsData(p) /\ Sent(n, p)
      BY <2>1 DEF p
    <2>6. IsData(R[i]) /\ Sent(n, R[i])
      BY <1>5, <2>4, <2>5 DEF IsData, Sent, Genuine
    <2> QED
      BY <2>4, <2>6 DEF p
  <1>7. R \in Seq(Packets) /\ Len(R) = k
    <2>1. R \in [1 .. k -> Packets]
      BY <1>6
    <2> QED
      BY <1>4, <2>1, FunctionSeq
  <1> HIDE DEF R
  <1>8. SentData(n, R)
    BY <1>6, <1>7 DEF SentData
  <1>9. ASSUME NEW x \in e + 1 .. Len(out[n])
        PROVE  Holds(R, out[n][x].src_seqno)
    <2>1. x - e \in 1 .. k /\ e + (x - e) = x
      BY <1>1, <1>4
    <2> QED
      BY <1>6, <1>7, <2>1 DEF Holds
  <1> QED
    BY <1>2, <1>3, <1>7, <1>8, <1>9 DEF e

(* timer_expire moves packets from the send window to the queue, and       *)
(* acknowledges what was taken.                                            *)
LEMMA TimerStep ==
    ASSUME StreamInv, NEW n \in Nodes,
           NEW w \in BOOLEAN, NEW r \in BOOLEAN, NEW s \in BOOLEAN,
           timer_expire(n, w, r, s)
    PROVE  StreamInv' /\ (WindowsOK => WindowsOK')
  <1>1. UNCHANGED <<posted, consumed, outSeqno, outWindow, inSeqno, in, net>>
    BY DEF timer_expire
  <1>2. /\ out[n] \in Seq(Packets) /\ sendq[n] \in Seq(Packets) /\ Len(out[n]) \in Nat
        /\ out \in [Nodes -> Seq(Packets)] /\ sendq \in [Nodes -> Seq(Packets)]
        /\ acks \in [Nodes -> SUBSET Packets]
    BY Typed DEF StreamInv, StreamTypes
  <1>3. /\ \A x \in Nodes \ {n} : out'[x] = out[x] /\ sendq'[x] = sendq[x]
                                  /\ acks'[x] = acks[x]
        /\ \/ out'[n] = out[n] /\ sendq'[n] = sendq[n]
           \/ out'[n] = SubSeq(out[n], 1, Edge(n)) /\ sendq'[n] = sendq[n] \o Rexmit(n)
    BY <1>2 DEF timer_expire
  <1>4. /\ SentData(n, out[n]) /\ SentData(n, sendq[n])
        /\ \A x, pkt : Sent(x, pkt)' <=> Sent(x, pkt)
    BY <1>1 DEF StreamInv, PacketsOK, Sent
  <1>5. /\ out'[n] \in Seq(Packets) /\ sendq'[n] \in Seq(Packets)
        /\ SentData(n, out'[n]) /\ SentData(n, sendq'[n])
        /\ \A y : Holds(out[n], y) \/ Holds(sendq[n], y) =>
                     Holds(out'[n], y) \/ Holds(sendq'[n], y)
    <2>1. CASE out'[n] = out[n] /\ sendq'[n] = sendq[n]
      BY <1>2, <1>4, <2>1
    <2>2. CASE out'[n] = SubSeq(out[n], 1, Edge(n)) /\ sendq'[n] = sendq[n] \o Rexmit(n)
      <3> DEFINE o2 == SubSeq(out[n], 1, Edge(n))
                 q2 == sendq[n] \o Rexmit(n)
      <3>1. /\ Edge(n) \in 0 .. Len(out[n])
            /\ Rexmit(n) \in Seq(Packets) /\ SentData(n, Rexmit(n))
            /\ \A x \in Edge(n) + 1 .. Len(out[n]) :
                  Holds(Rexmit(n), out[n][x].src_seqno)
        BY RexmitParts
      <3>2. /\ o2 \in Seq(Packets) /\ SentData(n, o2)
            /\ \A x \in 1 .. Edge(n) : Holds(o2, out[n][x].src_seqno)
        BY <1>2, <1>4, <3>1, SubSeqParts
      <3>3. /\ q2 \in Seq(Packets) /\ SentData(n, q2)
            /\ \A y : Holds(sendq[n], y) \/ Holds(Rexmit(n), y) => Holds(q2, y)
        BY <1>2, <1>4, <3>1, ConcatParts
      <3> HIDE DEF o2, q2
      <3>4. ASSUME NEW y, Holds(out[n], y) PROVE Holds(o2, y) \/ Holds(q2, y)
        <4>1. PICK x \in 1 .. Len(out[n]) : out[n][x].src_seqno = y
          BY <3>4 DEF Holds
        <4>2. x \in 1 .. Edge(n) \/ x \in Edge(n) + 1 .. Len(out[n])
          BY <1>2, <3>1
        <4> QED
          BY <3>1, <3>2, <3>3, <4>1, <4>2
      <3>5. out'[n] = o2 /\ sendq'[n] = q2
        BY <2>2 DEF o2, q2
      <3> QED
        BY <3>2, <3>3, <3>4, <3>5
    <2> QED
      BY <1>3, <2>1, <2>2
  <1>6. out' \in [Nodes -> Seq(Packets)] /\ sendq' \in [Nodes -> Seq(Packets)]
    <2>1. /\ out' = [out EXCEPT ![n] = out'[n]]
          /\ sendq' = [sendq EXCEPT ![n] = sendq'[n]]
      BY <1>2 DEF timer_expire
    <2> QED
      BY <1>2, <1>5, <2>1
  <1>7. \A pkt \in acks'[n] : Sent(n, pkt)
    <2> SUFFICES ASSUME NEW pkt \in acks'[n], pkt \notin acks[n] PROVE Sent(n, pkt)
      BY DEF StreamInv, PacketsOK
    <2>1. \E type \in {"rack", "sack"} : pkt = Packet(type, n, outSeqno[n], NoData)
      BY <1>2 DEF timer_expire
    <2>2. PICK type \in {"rack", "sack"} : pkt = Packet(type, n, outSeqno[n], NoData)
      BY <2>1
    <2>3. /\ outSeqno[n] \in Seqnos /\ inSeqno[n] \in Seqnos
          /\ outSeqno[n] = Num(Len(posted[n])) /\ inSeqno[n] = Num(Len(consumed[n]))
          /\ Len(posted[n]) \in 0 .. Len(posted[n])
          /\ Len(consumed[n]) \in 0 .. Len(consumed[n])
      BY Typed DEF StreamInv, StreamTypes, Streams
    <2>4. NoData \in Data /\ type \in Types /\ type # "data"
      BY DEF NoData, Data, Types
    <2>5. /\ pkt \in Packets /\ pkt.to = Peer(n) /\ ~IsData(pkt)
          /\ pkt.src_seqno = outSeqno[n] /\ pkt.dest_seqno = inSeqno[n]
      BY <2>2, <2>3, <2>4, PeerFacts DEF Packet, Packets, IsData
    <2> QED
      BY <2>3, <2>5 DEF Sent, Genuine
  <1>8. acks' \in [Nodes -> SUBSET Packets]
    <2>1. acks'[n] \subseteq Packets
      BY <1>7 DEF Sent, Genuine
    <2>2. acks' = [acks EXCEPT ![n] = acks'[n]]
      BY <1>2 DEF timer_expire
    <2> QED
      BY <1>2, <2>1, <2>2
  <1>9. StreamTypes'
    BY <1>1, <1>6, <1>8 DEF StreamInv, StreamTypes
  <1>10. Streams'
    BY <1>1 DEF StreamInv, Streams
  <1>11. PacketsOK'
    <2>1. ASSUME NEW x \in Nodes
          PROVE  SentData(x, out'[x]) /\ SentData(x, sendq'[x])
      <3>1. CASE x = n
        BY <3>1, <1>5
      <3>2. CASE x # n
        BY <3>2, <1>3 DEF StreamInv, PacketsOK
      <3> QED
        BY <3>1, <3>2
    <2>2. \A x \in Nodes : SentData(x, out[x])' /\ SentData(x, sendq[x])'
      BY <2>1, <1>4 DEF SentData
    <2>3. \A x \in Nodes : \A pkt \in acks'[x] : Sent(x, pkt)
      BY <1>3, <1>7 DEF StreamInv, PacketsOK
    <2>4. /\ \A x \in Nodes : \A pkt \in in[x] : IsData(pkt) /\ Sent(Peer(x), pkt)
          /\ \A pkt \in net : Sent(Peer(pkt.to), pkt)
      BY DEF StreamInv, PacketsOK
    <2> QED
      BY <1>1, <1>4, <2>2, <2>3, <2>4 DEF PacketsOK, IsData
  <1>12. AcksOK' /\ (WindowsOK => WindowsOK')
    <2>1. ASSUME NEW x \in Nodes, NEW y
          PROVE  Holds(out[x], y) \/ Holds(sendq[x], y) =>
                     Holds(out'[x], y) \/ Holds(sendq'[x], y)
      <3>1. CASE x = n
        BY <3>1, <1>5
      <3>2. CASE x # n
        BY <3>2, <1>3
      <3> QED
        BY <3>1, <3>2
    <2> QED
      BY <1>1, <2>1 DEF StreamInv, AcksOK, WindowsOK, Holds
  <1> QED
    BY <1>9, <1>10, <1>11, <1>12 DEF StreamInv

(* What dispatch_msg takes of the packets held are the next ones posted. *)
LEMMA RunParts ==
    ASSUME StreamInv, NEW n \in Nodes, NEW held,
           \A q \in held : IsData(q) /\ Sent(Peer(n), q)
    PROVE  /\ Run(n, held) \in Seq(Data)
           /\ Len(consumed[n]) + Len(Run(n, held)) <= Len(posted[Peer(n)])
           /\ \A i \in 1 .. Len(Run(n, held)) :
                 Run(n, held)[i] = posted[Peer(n)][Len(consumed[n]) + i]
  <1> DEFINE p == Peer(n)
             C == Len(consumed[n])
             P == Len(posted[p])
             R == Ready(n, held)
             S == {k \in 0 .. Half : Ahead(n, held, k + 1) = {}}
  <1>1. /\ p \in Nodes /\ posted[p] \in Seq(Data) /\ P \in Nat /\ C \in Nat
        /\ \A i \in 1 .. P : posted[p][i] \in Data
    BY PeerFacts, Typed, ElementOfSeq DEF StreamInv
  <1>2. /\ MaxPosted[p] \in Nat /\ MaxPosted[p] < Half /\ Half \in Nat
        /\ P <= MaxPosted[p] /\ C <= P /\ inSeqno[n] = Num(C)
    BY <1>1, InboxAssumption DEF StreamInv, Streams
  <1>3. R = Min(S)
    BY DEF Ready
  <1> HIDE DEF C, P, p
  <1>4. P < SeqnoMod /\ P + 1 < SeqnoMod /\ C < SeqnoMod /\ SeqnoMod \in Nat
    BY <1>1, <1>2 DEF SeqnoMod
  <1>5. ASSUME NEW q \in held
        PROVE  \E i \in 1 .. P : q.src_seqno = Num(i) /\ q.data = posted[p][i]
    <2>1. IsData(q) /\ Sent(p, q)
      BY DEF p
    <2>2. PICK i \in 0 .. P : q.src_seqno = Num(i) /\ i # 0 /\ q.data = posted[p][i]
      BY <2>1 DEF Sent, Genuine, P
    <2>3. i \in 1 .. P
      BY <1>1, <2>2
    <2> QED
      BY <2>2, <2>3
  <1>6. ASSUME NEW k \in 1 .. P - C + 1
        PROVE  /\ C + k \in Nat /\ C + k < SeqnoMod
               /\ \A q \in held : q \in Ahead(n, held, k) => q.src_seqno = Num(C + k)
    <2>1. k \in Nat /\ k < SeqnoMod /\ C + k \in Nat /\ C + k < SeqnoMod
      BY <1>1, <1>2, <1>4
    <2>2. Plus(Num(C), k) = Num(C + k)
      BY <1>1, <1>4, <2>1, Numbers
    <2> QED
      BY <1>2, <2>1, <2>2 DEF Ahead
  <1>7. Ahead(n, held, P - C + 1) = {}
    <2> SUFFICES ASSUME NEW q \in Ahead(n, held, P - C + 1) PROVE FALSE
      OBVIOUS
    <2>1. q \in held /\ P - C + 1 \in 1 .. P - C + 1 /\ C + (P - C + 1) = P + 1
      BY <1>1, <1>2 DEF Ahead
    <2>2. q.src_seqno = Num(P + 1)
      BY <1>6, <2>1
    <2>3. PICK i \in 1 .. P : q.src_seqno = Num(i)
      BY <1>5, <2>1
    <2>4. i \in Nat /\ i < SeqnoMod /\ P + 1 \in Nat /\ i # P + 1
      BY <1>1, <1>4
    <2> QED
      BY <1>4, <2>2, <2>3, <2>4, Numbers
  <1>8. P - C \in S
    BY <1>1, <1>2, <1>7
  <1>9. R \in S /\ (\A y \in S : R <= y) /\ S \subseteq Nat
    <2>1. S \subseteq Nat /\ S # {}
      BY <1>8
    <2> HIDE DEF S, R
    <2> QED
      BY <1>3, <2>1, MinFact
  <1> HIDE DEF R
  <1>10. R \in Nat /\ R <= P - C
    BY <1>8, <1>9
  <1>11. ASSUME NEW i \in 1 .. R
         PROVE  /\ C + i \in 1 .. P
                /\ (CHOOSE q \in Ahead(n, held, i) : TRUE).data = posted[p][C + i]
    <2>1. /\ i - 1 \in 0 .. Half /\ (i - 1) + 1 = i /\ ~(R <= i - 1)
          /\ i \in 1 .. P - C + 1 /\ C + i \in 1 .. P
      BY <1>1, <1>2, <1>10
    <2>2. i - 1 \notin S
      BY <1>9, <2>1
    <2>3. Ahead(n, held, i) # {}
      BY <2>1, <2>2
    <2> DEFINE q == CHOOSE q \in Ahead(n, held, i) : TRUE
    <2>4. q \in Ahead(n, held, i)
      BY <2>3
    <2> HIDE DEF q
    <2>5. q \in held /\ q.src_seqno = Num(C + i)
      BY <1>6, <2>1, <2>4 DEF Ahead
    <2>6. PICK j \in 1 .. P : q.src_seqno = Num(j) /\ q.data = posted[p][j]
      BY <1>5, <2>5
    <2>7. j \in Nat /\ j < SeqnoMod /\ C + i \in Nat /\ C + i < SeqnoMod
      BY <1>1, <1>4, <2>1
    <2>8. j = C + i
      BY <2>5, <2>6, <2>7, Numbers
    <2> QED
      BY <2>1, <2>6, <2>8 DEF q
  <1> DEFINE run == [i \in 1 .. R |-> (CHOOSE q \in Ahead(n, held, i) : TRUE).data]
  <1>12. Run(n, held) = run
    BY DEF Run, R
  <1>13. run \in [1 .. R -> Data] /\ \A i \in 1 .. R : run[i] = posted[p][C + i]
    BY <1>1, <1>11
  <1> HIDE DEF run
  <1>14. run \in Seq(Data) /\ Len(run) = R
    BY <1>10, <1>13, FunctionSeq
  <1>15. C + R <= P
    BY <1>1, <1>2, <1>10
  <1> QED
    BY <1>12, <1>13, <1>14, <1>15 DEF p, C, P

(* process takes packets in order, and takes acknowledgements. *)
LEMMA ProcessStep ==
    ASSUME StreamInv, NEW n \in Nodes, NEW pkt \in net, NEW again,
           process(n, pkt, again)
    PROVE  StreamInv' /\ (NoOverflow /\ WindowsOK => WindowsOK')
  <1> DEFINE p      == Peer(n)
             C      == Len(consumed[n])
             held   == in[n] \union {pkt}
             newer  == seqno_cmp(pkt.dest_seqno, outWindow[n]) > 0
             window == IF newer THEN pkt.dest_seqno ELSE outWindow[n]
             Now(x, q) == Genuine(x, posted'[x], Len(consumed'[x]), q)
  <1>1. /\ UNCHANGED <<posted, outSeqno, sendq, acks>> /\ net' \subseteq net
        /\ outWindow' = [outWindow EXCEPT ![n] = window]
        /\ \/ out' = [out EXCEPT ![n] = Unacked(out[n], window)]
           \/ out' = [out EXCEPT ![n] = out[n]]
        /\ pkt.to = n
    BY DEF process
  <1>2. \/ IsData(pkt) /\ dispatch_msg(n, pkt)
        \/ UNCHANGED <<inSeqno, in, consumed>>
    BY DEF process
  <1>3. p \in Nodes /\ p # n /\ Peer(p) = n /\ (\A x \in Nodes : x # n => x = p)
    <2>1. PICK x, y \in Nodes : x # y /\ Nodes = {x, y}
      BY InboxAssumption
    <2> QED
      BY <2>1, PeerFacts
  <1>4. Sent(p, pkt)
    BY <1>1 DEF StreamInv, PacketsOK
  <1>5. /\ posted \in [Nodes -> Seq(Data)] /\ consumed \in [Nodes -> Seq(Data)]
        /\ out \in [Nodes -> Seq(Packets)] /\ out[n] \in Seq(Packets)
        /\ outWindow \in [Nodes -> Seqnos] /\ inSeqno \in [Nodes -> Seqnos]
        /\ in \in [Nodes -> SUBSET Packets] /\ consumed[n] \in Seq(Data)
        /\ C \in Nat /\ Len(consumed[p]) \in Nat
        /\ Len(posted[n]) \in Nat /\ Len(posted[p]) \in Nat
        /\ posted[p] \in Seq(Data)
    BY <1>3, Typed DEF StreamInv, StreamTypes
  <1>6. /\ C <= Len(posted[p]) /\ Len(consumed[p]) <= Len(posted[n])
        /\ \A i \in 1 .. C : consumed[n][i] = posted[p][i]
        /\ inSeqno[n] = Num(C)
        /\ Len(posted[n]) <= MaxPosted[n] /\ Len(posted[p]) <= MaxPosted[p]
        /\ MaxPosted[n] \in Nat /\ MaxPosted[n] < Half
        /\ MaxPosted[p] \in Nat /\ MaxPosted[p] < Half
        /\ Half \in Nat
    BY <1>3, InboxAssumption DEF StreamInv, Streams
  <1>7. \A q \in held : IsData(pkt) => IsData(q) /\ Sent(p, q)
    BY <1>4 DEF StreamInv, PacketsOK
  (* what is taken *)
  <1>8. /\ consumed' \in [Nodes -> Seq(Data)] /\ consumed'[p] = consumed[p]
        /\ inSeqno' \in [Nodes -> Seqnos] /\ inSeqno'[p] = inSeqno[p]
        /\ in' \in [Nodes -> SUBSET Packets] /\ in'[p] = in[p]
        /\ in'[n] \subseteq IF IsData(pkt) THEN held ELSE in[n]
        /\ Len(consumed'[n]) \in Nat
        /\ C <= Len(consumed'[n]) /\ Len(consumed'[n]) <= Len(posted[p])
        /\ \A i \in 1 .. Len(consumed'[n]) : consumed'[n][i] = posted[p][i]
        /\ inSeqno'[n] = Num(Len(consumed'[n]))
    <2>1. CASE UNCHANGED <<inSeqno, in, consumed>>
      BY <2>1, <1>5, <1>6
    <2>2. CASE IsData(pkt) /\ dispatch_msg(n, pkt)
      <3> DEFINE run == Run(n, held)
      <3>1. /\ inSeqno' = [inSeqno EXCEPT ![n] = Plus(inSeqno[n], Len(run))]
            /\ consumed' = [consumed EXCEPT ![n] = consumed[n] \o run]
            /\ \E kept : kept \subseteq held /\ in' = [in EXCEPT ![n] = kept]
        BY <2>2 DEF dispatch_msg
      <3>2. /\ run \in Seq(Data) /\ C + Len(run) <= Len(posted[p])
            /\ \A i \in 1 .. Len(run) : run[i] = posted[p][C + i]
        BY <2>2, <1>7, RunParts
      <3>3. pkt \in Packets
        BY <1>4 DEF Sent, Genuine
      <3> HIDE DEF run, C
      <3>4. /\ Len(run) \in Nat /\ consumed[n] \o run \in Seq(Data)
            /\ Len(consumed[n] \o run) = C + Len(run)
            /\ \A i \in 1 .. C + Len(run) : (consumed[n] \o run)[i] =
                  IF i <= C THEN consumed[n][i] ELSE run[i - C]
        BY <1>5, <3>2, ConcatProperties, LenProperties DEF C
      <3>5. ASSUME NEW i \in 1 .. C + Len(run)
            PROVE  (consumed[n] \o run)[i] = posted[p][i]
        <4>1. CASE i <= C
          <5>1. i \in 1 .. C
            BY <4>1, <1>5, <3>4
          <5> QED
            BY <4>1, <5>1, <3>4, <1>6
        <4>2. CASE ~(i <= C)
          <5>1. i - C \in 1 .. Len(run) /\ C + (i - C) = i
            BY <4>2, <1>5, <3>4
          <5> QED
            BY <4>2, <5>1, <3>2, <3>4
        <4> QED
          BY <4>1, <4>2
      <3>6. Plus(inSeqno[n], Len(run)) = Num(C + Len(run)) /\ Num(C + Len(run)) \in Seqnos
        <4> DEFINE L == Len(run)
                   Q == Len(posted[p])
        <4>0. C \in Nat /\ L \in Nat /\ Q \in Nat /\ C + L <= Q /\ Q <= MaxPosted[p]
          BY <1>5, <1>6, <3>2, <3>4
        <4>1. C < SeqnoMod /\ L < SeqnoMod /\ C + L < SeqnoMod /\ C + L \in Nat
          <5> HIDE DEF L, Q
          <5> QED
            BY <1>6, <4>0 DEF SeqnoMod
        <4> QED
          BY <1>5, <1>6, <3>4, <4>1, Numbers
      <3>7. /\ consumed' \in [Nodes -> Seq(Data)] /\ consumed'[p] = consumed[p]
            /\ consumed'[n] = consumed[n] \o run
        BY <1>3, <1>5, <3>1, <3>4
      <3>8. /\ inSeqno' \in [Nodes -> Seqnos] /\ inSeqno'[p] = inSeqno[p]
            /\ inSeqno'[n] = Num(C + Len(run))
        BY <1>3, <1>5, <3>1, <3>6
      <3>9. /\ in' \in [Nodes -> SUBSET Packets] /\ in'[p] = in[p]
            /\ in'[n] \subseteq held
        BY <1>3, <1>5, <3>1, <3>3
      <3>10. C + Len(run) \in Nat /\ C <= C + Len(run)
        BY <1>5, <3>4
      <3> QED
        BY <2>2, <3>2, <3>4, <3>5, <3>7, <3>8, <3>9, <3>10 DEF C
    <2> QED
      BY <1>2, <2>1, <2>2
  (* what is acknowledged *)
  <1>9. /\ window \in Seqnos
        /\ \E j \in 0 .. Len(consumed[p]) : window = Num(j)
    <2>1. /\ pkt.dest_seqno \in Seqnos
          /\ \E j \in 0 .. Len(consumed[p]) : pkt.dest_seqno = Num(j)
      BY <1>4 DEF Sent, Genuine, Packets
    <2>2. /\ outWindow[n] \in Seqnos
          /\ \E j \in 0 .. Len(consumed[p]) : outWindow[n] = Num(j)
      BY <1>5 DEF StreamInv, AcksOK
    <2> QED
      BY <2>1, <2>2
  <1> HIDE DEF window
  <1>10. /\ outWindow' \in [Nodes -> Seqnos]
         /\ outWindow'[n] = window /\ outWindow'[p] = outWindow[p]
    BY <1>1, <1>3, <1>5, <1>9
  <1>11. /\ out'[p] = out[p]
         /\ out'[n] = out[n] \/ out'[n] = Unacked(out[n], window)
         /\ out' = [out EXCEPT ![n] = out'[n]]
    BY <1>1, <1>3, <1>5
  <1>12. /\ out'[n] \in Seq(Packets) /\ SentData(n, out'[n])
         /\ NoOverflow => \A i \in Len(consumed[p]) + 1 .. Len(posted[n]) :
               Holds(out[n], Num(i)) => Holds(out'[n], Num(i))
    <2>1. SentData(n, out[n])
      BY DEF StreamInv, PacketsOK
    <2>2. CASE out'[n] = out[n]
      BY <2>1, <2>2, <1>5
    <2>3. CASE out'[n] = Unacked(out[n], window)
      <3>1. /\ Unacked(out[n], window) \in Seq(Packets)
            /\ SentData(n, Unacked(out[n], window))
            /\ \A x \in 1 .. Len(out[n]) : seqno_cmp(out[n][x].src_seqno, window) > 0 =>
                  Holds(Unacked(out[n], window), out[n][x].src_seqno)
        BY <1>5, <2>1, UnackedParts
      <3>2. ASSUME NoOverflow,
                   NEW i \in Len(consumed[p]) + 1 .. Len(posted[n]), Holds(out[n], Num(i))
            PROVE  Holds(Unacked(out[n], window), Num(i))
        <4>1. PICK x \in 1 .. Len(out[n]) : out[n][x].src_seqno = Num(i)
          BY <3>2 DEF Holds
        <4>2. PICK j \in 0 .. Len(consumed[p]) : window = Num(j)
          BY <1>9
        <4>3. i \in 0 .. MaxPosted[n] /\ j \in 0 .. MaxPosted[n] /\ i - j > 0
          BY <1>5, <1>6
        <4>4. seqno_cmp(Num(i), Num(j)) = i - j
          BY <3>2, <4>3, CmpExact
        <4>5. seqno_cmp(out[n][x].src_seqno, window) > 0
          BY <4>1, <4>2, <4>3, <4>4
        <4> QED
          BY <3>1, <4>1, <4>5
      <3> QED
        BY <2>3, <3>1, <3>2
    <2> QED
      BY <1>11, <2>2, <2>3
  <1>13. ASSUME NEW x \in Nodes, NEW q, Sent(x, q) PROVE Now(x, q)
    <2>1. Genuine(x, posted[x], Len(consumed[x]), q)
      BY <1>13 DEF Sent
    <2>2. CASE x = n
      <3>1. Genuine(n, posted[n], C, q)
        BY <2>1, <2>2
      <3>2. posted[n] \in Seq(Data)
        BY <1>5
      <3>3. Genuine(n, posted[n], Len(consumed'[n]), q)
        BY <3>1, <3>2, <1>5, <1>8, GenuineGrows
      <3> QED
        BY <2>2, <3>3, <1>1
    <2>3. CASE x = p
      BY <2>1, <2>3, <1>1, <1>8
    <2> QED
      BY <1>3, <2>2, <2>3
  <1> HIDE DEF C, held, p
  <1>14. StreamTypes'
    <2>1. out' \in [Nodes -> Seq(Packets)]
      BY <1>5, <1>11, <1>12
    <2> QED
      BY <2>1, <1>1, <1>5, <1>8, <1>10 DEF StreamInv, StreamTypes
  <1>15. Streams'
    <2> SUFFICES ASSUME NEW x \in Nodes
                 PROVE  /\ Len(posted'[x]) <= MaxPosted[x]
                        /\ Len(consumed'[x]) <= Len(posted'[Peer(x)])
                        /\ \A i \in 1 .. Len(consumed'[x]) :
                               consumed'[x][i] = posted'[Peer(x)][i]
                        /\ outSeqno'[x] = Num(Len(posted'[x]))
                        /\ inSeqno'[x] = Num(Len(consumed'[x]))
      BY DEF Streams
    <2>1. /\ Len(posted[x]) <= MaxPosted[x]
          /\ Len(consumed[x]) <= Len(posted[Peer(x)])
          /\ \A i \in 1 .. Len(consumed[x]) : consumed[x][i] = posted[Peer(x)][i]
          /\ outSeqno[x] = Num(Len(posted[x]))
          /\ inSeqno[x] = Num(Len(consumed[x]))
      BY DEF StreamInv, Streams
    <2>2. CASE x = n
      BY <2>1, <2>2, <1>1, <1>8 DEF p
    <2>3. CASE x = p
      BY <2>1, <2>3, <1>1, <1>8
    <2> QED
      BY <1>3, <2>2, <2>3
  <1>16. PacketsOK'
    <2>1. ASSUME NEW x \in Nodes PROVE SentData(x, out'[x]) /\ SentData(x, sendq[x])
      <3>1. CASE x = n
        BY <3>1, <1>12 DEF StreamInv, PacketsOK
      <3>2. CASE x = p
        BY <3>2, <1>11 DEF StreamInv, PacketsOK
      <3> QED
        BY <1>3, <3>1, <3>2
    <2>2. \A x \in Nodes : SentData(x, out[x])' /\ SentData(x, sendq[x])'
      BY <1>1, <1>13, <2>1 DEF SentData, Sent, IsData
    <2>3. \A x \in Nodes : \A q \in acks'[x] : Sent(x, q)'
      BY <1>1, <1>13 DEF StreamInv, PacketsOK, Sent
    <2>4. ASSUME NEW x \in Nodes, NEW q \in in'[x]
          PROVE  IsData(q) /\ Sent(Peer(x), q)
      <3>1. CASE x = n
        <4>1. q \in in[n] \/ (IsData(pkt) /\ q = pkt)
          BY <2>4, <3>1, <1>8 DEF held
        <4> QED
          BY <3>1, <4>1, <1>4 DEF StreamInv, PacketsOK, p
      <3>2. CASE x = p
        BY <2>4, <3>2, <1>8 DEF StreamInv, PacketsOK
      <3> QED
        BY <1>3, <3>1, <3>2
    <2>5. \A x \in Nodes : \A q \in in'[x] : IsData(q) /\ Sent(Peer(x), q)'
      BY <1>13, <2>4, PeerFacts DEF Sent
    <2>6. \A q \in net' : Sent(Peer(q.to), q)'
      <3>1. \A q \in net : q.to \in Nodes /\ Sent(Peer(q.to), q)
        BY DEF StreamInv, StreamTypes, Packets, PacketsOK
      <3> QED
        BY <3>1, <1>1, <1>13, PeerFacts DEF Sent
    <2> QED
      BY <2>2, <2>3, <2>5, <2>6 DEF PacketsOK, IsData
  <1>17. AcksOK'
    <2> SUFFICES ASSUME NEW x \in Nodes
                 PROVE  \E j \in 0 .. Len(consumed'[Peer(x)]) : outWindow'[x] = Num(j)
      BY DEF AcksOK
    <2>1. CASE x = n
      BY <2>1, <1>8, <1>9, <1>10 DEF p
    <2>2. CASE x = p
      <3>1. \E j \in 0 .. Len(consumed[n]) : outWindow[p] = Num(j)
        BY <1>3 DEF StreamInv, AcksOK
      <3>2. \E j \in 0 .. Len(consumed'[n]) : outWindow[p] = Num(j)
        BY <3>1, <1>5, <1>8 DEF C
      <3> QED
        BY <2>2, <3>2, <1>3, <1>10
    <2> QED
      BY <1>3, <2>1, <2>2
  <1>18. NoOverflow /\ WindowsOK => WindowsOK'
    <2> SUFFICES ASSUME NoOverflow, WindowsOK, NEW x \in Nodes
                 PROVE  \A i \in Len(consumed'[Peer(x)]) + 1 .. Len(posted[x]) :
                              Holds(out'[x], Num(i)) \/ Holds(sendq[x], Num(i))
      BY <1>1 DEF WindowsOK, Holds
    <2>1. \A i \in Len(consumed[Peer(x)]) + 1 .. Len(posted[x]) :
                Holds(out[x], Num(i)) \/ Holds(sendq[x], Num(i))
      BY DEF WindowsOK
    <2>2. CASE x = n
      BY <2>1, <2>2, <1>8, <1>12 DEF p
    <2>3. CASE x = p
      <3>1. \A i \in Len(consumed[n]) + 1 .. Len(posted[p]) :
                  Holds(out[p], Num(i)) \/ Holds(sendq[p], Num(i))
        BY <2>1, <2>3, <1>3
      <3>2. \A i \in Len(consumed'[n]) + 1 .. Len(posted[p]) :
                i \in Len(consumed[n]) + 1 .. Len(posted[p])
        BY <1>5, <1>8 DEF C
      <3> QED
        BY <2>3, <3>1, <3>2, <1>3, <1>11
    <2> QED
      BY <1>3, <2>2, <2>3
  <1> QED
    BY <1>14, <1>15, <1>16, <1>17, <1>18 DEF StreamInv

(* Every step keeps the invariant. *)
LEMMA StreamNext ==
    ASSUME StreamInv, [Next]_vars
    PROVE  StreamInv' /\ (NoOverflow /\ WindowsOK => WindowsOK')
  <1>1. CASE Next
    <2>1. PICK n \in Nodes :
              \/ \E k \in Frags : post_msg(n, k)
              \/ \E lost \in SUBSET Queued(n) : write(n, lost)
              \/ \E w, r, s \in BOOLEAN : timer_expire(n, w, r, s)
              \/ \E pkt \in net, again \in Again : process(n, pkt, again)
      BY <1>1 DEF Next
    <2>2. CASE \E k \in Frags : post_msg(n, k)
      BY <2>2, PostStep
    <2>3. CASE \E lost \in SUBSET Queued(n) : write(n, lost)
      BY <2>3, WriteStep
    <2>4. CASE \E w, r, s \in BOOLEAN : timer_expire(n, w, r, s)
      BY <2>4, TimerStep
    <2>5. CASE \E pkt \in net, again \in Again : process(n, pkt, again)
      BY <2>5, ProcessStep
    <2> QED
      BY <2>1, <2>2, <2>3, <2>4, <2>5
  <1>2. CASE UNCHANGED vars
    <2>1. UNCHANGED <<posted, consumed, out, sendq, in, acks, net, outSeqno,
                      outWindow, inSeqno>>
      BY <1>2 DEF vars, sendVars, recvVars, queues
    <2>2. StreamTypes'
      BY <2>1 DEF StreamInv, StreamTypes
    <2>3. Streams'
      BY <2>1 DEF StreamInv, Streams
    <2>4. PacketsOK'
      BY <2>1 DEF StreamInv, PacketsOK, SentData, Sent, IsData
    <2>5. AcksOK' /\ (WindowsOK => WindowsOK')
      BY <2>1 DEF StreamInv, AcksOK, WindowsOK, Holds
    <2> QED
      BY <2>2, <2>3, <2>4, <2>5 DEF StreamInv
  <1> QED
    BY <1>1, <1>2

-----------------------------------------------------------------------------
(* The theorems                                                            *)

(* For every window of numbers, bound and network, and whatever the build  *)
(* makes of seqno_cmp: process and dispatch_msg take the packets of the    *)
(* peer in the order post_msg numbered them, each once.                    *)
THEOREM TakenInOrder == Spec => []InOrder
  <1>1. StreamInv => InOrder
    <2> SUFFICES ASSUME StreamInv, NEW n \in Nodes
                 PROVE  IsPrefix(consumed[n], posted[Peer(n)])
      BY DEF InOrder
    <2> DEFINE s == consumed[n]
               t == posted[Peer(n)]
    <2>1. /\ s \in Seq(Data) /\ t \in Seq(Data) /\ Len(s) \in Nat /\ Len(t) \in Nat
          /\ Len(s) <= Len(t) /\ \A i \in 1 .. Len(s) : s[i] = t[i]
      BY PeerFacts, Typed DEF StreamInv, Streams
    <2> HIDE DEF s, t
    <2>2. SubSeq(s, 1, Len(s)) = SubSeq(t, 1, Len(s))
      BY <2>1
    <2>3. IsPrefix(s, t)
      BY <2>1, <2>2 DEF IsPrefix
    <2> QED
      BY <2>3 DEF s, t
  <1> QED
    BY StreamInit, StreamNext, <1>1, PTL DEF Spec

(* As long as the signed numbers do not overflow, adjust_send_window       *)
(* forgets no packet that the peer has not taken.                          *)
THEOREM KeptUntilTaken == ASSUME NoOverflow PROVE Spec => []Retained
  <1>1. StreamInv /\ WindowsOK => Retained
    <2> SUFFICES ASSUME StreamInv, WindowsOK, NEW n \in Nodes,
                        NEW i \in Len(consumed[Peer(n)]) + 1 .. Len(posted[n])
                 PROVE  posted[n][i] \in Kept(n)
      BY DEF Retained
    <2>1. /\ Len(posted[n]) \in Nat /\ Len(consumed[Peer(n)]) \in Nat
          /\ DOMAIN out[n] = 1 .. Len(out[n]) /\ DOMAIN sendq[n] = 1 .. Len(sendq[n])
          /\ Len(posted[n]) <= MaxPosted[n]
          /\ MaxPosted[n] \in Nat /\ MaxPosted[n] < Half /\ Half \in Nat
      BY PeerFacts, Typed, InboxAssumption DEF StreamInv, Streams
    <2>2. i \in Nat /\ i < SeqnoMod
      BY <2>1 DEF SeqnoMod
    <2>3. ASSUME NEW q, SentData(n, q), NEW k \in 1 .. Len(q), q[k].src_seqno = Num(i)
          PROVE  q[k].data = posted[n][i]
      <3>1. IsData(q[k]) /\ Sent(n, q[k])
        BY <2>3 DEF SentData
      <3>2. PICK j \in 0 .. Len(posted[n]) :
                q[k].src_seqno = Num(j) /\ q[k].data = posted[n][j]
        BY <3>1 DEF Sent, Genuine
      <3>3. j \in Nat /\ j < SeqnoMod
        BY <2>1 DEF SeqnoMod
      <3> QED
        BY <2>2, <2>3, <3>2, <3>3, Numbers
    <2>4. SentData(n, out[n]) /\ SentData(n, sendq[n])
      BY DEF StreamInv, PacketsOK
    <2>5. CASE Holds(out[n], Num(i))
      <3>1. PICK k \in 1 .. Len(out[n]) : out[n][k].src_seqno = Num(i)
        BY <2>5 DEF Holds
      <3> QED
        BY <3>1, <2>1, <2>3, <2>4 DEF Kept
    <2>6. CASE Holds(sendq[n], Num(i))
      <3>1. PICK k \in 1 .. Len(sendq[n]) : sendq[n][k].src_seqno = Num(i)
        BY <2>6 DEF Holds
      <3> QED
        BY <3>1, <2>1, <2>3, <2>4 DEF Kept
    <2> QED
      BY <2>5, <2>6 DEF WindowsOK
  <1> QED
    BY StreamInit, StreamNext, <1>1, PTL DEF Spec

-----------------------------------------------------------------------------
(* Messages and their fragments                                            *)

(* What post_msg makes of messages in one packet and in several: packet i  *)
(* has its place in its message, and a fragment has one behind it          *)
Placed(ps, i) ==
    /\ ps[i].kind \in {"message", "fragment", "rollup"}
    /\ ps[i].part \in 1 .. i
    /\ ps[i].part = 1 => /\ ps[i].kind # "rollup"
                         /\ ps[i].msg = IF i = 1 THEN 1 ELSE ps[i - 1].msg + 1
    /\ ps[i].part # 1 => /\ ps[i].kind # "message"
                         /\ ps[i - 1].kind = "fragment"
                         /\ ps[i - 1].part = ps[i].part - 1
                         /\ ps[i - 1].msg = ps[i].msg
    /\ ps[i].kind = "fragment" => i < Len(ps) /\ ps[i + 1].part # 1
    /\ \A j \in 1 .. ps[i].part : /\ ps[i - ps[i].part + j].msg = ps[i].msg
                                  /\ ps[i - ps[i].part + j].part = j

(* the messages follow each other *)
Ordered(ps, i, j) ==
    /\ ps[i].msg <= ps[j].msg
    /\ i < j /\ (ps[i].kind # "fragment" \/ ps[j].part = 1) => ps[i].msg < ps[j].msg

Whole(ps) ==
    /\ \A i \in 1 .. Len(ps) : Placed(ps, i)
    /\ \A i, j \in 1 .. Len(ps) : i <= j => Ordered(ps, i, j)

(* the packets of a message, or of the part of it that was taken: the last *)
(* ones of the first c                                                     *)
Piece(m, ps, c) == \A j \in 1 .. Len(m) : m[j] = ps[c - Len(m) + j]

(* fragments of the message that was begun, and the messages that are done *)
Open(ps, c) == IF c = 0 THEN 0 ELSE IF ps[c].kind = "fragment" THEN ps[c].part ELSE 0
Done(ps, c) == IF c = 0 THEN 0
               ELSE IF ps[c].kind = "fragment" THEN ps[c].msg - 1 ELSE ps[c].msg

(* s is what the first c packets make *)
Assembled(ps, c, s) ==
    /\ s \in [frags : Seq(Data), msgs : Seq(Seq(Data))]
    /\ Len(s.frags) = Open(ps, c) /\ Piece(s.frags, ps, c)
    /\ Len(s.msgs) = Done(ps, c)
    /\ \A k \in 1 .. Len(s.msgs) :
          \E e \in 1 .. c : /\ ps[e].msg = k /\ ps[e].kind # "fragment"
                            /\ Len(s.msgs[k]) = ps[e].part /\ Piece(s.msgs[k], ps, e)

(* One packet more. *)
LEMMA DispatchNext ==
    ASSUME NEW ps \in Seq(Data), Whole(ps), NEW c \in Nat, c < Len(ps),
           NEW s, Assembled(ps, c, s)
    PROVE  Assembled(ps, c + 1, Dispatch(s, ps[c + 1]))
<1> DEFINE d == ps[c + 1]
           F == s.frags
           M == s.msgs
           G == Append(F, d)
<1>1. /\ Len(ps) \in Nat /\ c + 1 \in 1 .. Len(ps) /\ (c # 0 => c \in 1 .. Len(ps))
      /\ d \in Data
  BY LenProperties, ElementOfSeq
<1>2. Placed(ps, c + 1) /\ (c # 0 => Placed(ps, c))
  BY <1>1 DEF Whole
<1>3. /\ F \in Seq(Data) /\ M \in Seq(Seq(Data)) /\ Len(F) \in Nat /\ Len(M) \in Nat
      /\ s = [frags |-> F, msgs |-> M]
  <2>1. s \in [frags : Seq(Data), msgs : Seq(Seq(Data))]
    BY DEF Assembled
  <2> QED
    BY <2>1, LenProperties
<1>4. /\ Len(F) = Open(ps, c) /\ Piece(F, ps, c) /\ Len(M) = Done(ps, c)
      /\ \A k \in 1 .. Len(M) :
            \E e \in 1 .. c : /\ ps[e].msg = k /\ ps[e].kind # "fragment"
                              /\ Len(M[k]) = ps[e].part /\ Piece(M[k], ps, e)
  BY DEF Assembled
<1>5. /\ d.msg \in Nat /\ d.part \in Nat /\ d.part >= 1
      /\ d.kind \in {"message", "fragment", "rollup"}
      /\ c # 0 => ps[c].msg \in Nat /\ ps[c].part \in Nat
  <2>1. c # 0 => ps[c] \in Data
    BY <1>1, ElementOfSeq
  <2>2. d.kind \in {"message", "fragment", "rollup"} /\ d.part \in 1 .. c + 1
    BY <1>2 DEF Placed
  <2> QED
    BY <1>1, <2>1, <2>2 DEF Data
(* the packet has its place behind the fragments *)
<1>6. /\ Len(F) = d.part - 1 /\ Len(M) = d.msg - 1
      /\ d.kind = "message" => d.part = 1
      /\ d.kind = "rollup" => d.part # 1
      /\ d.part \in 1 .. c + 1
  <2>1. CASE c = 0
    BY <1>2, <1>4, <1>5, <2>1 DEF Placed, Open, Done
  <2>2. CASE c # 0 /\ d.part = 1
    <3>1. ps[c].kind # "fragment"
      BY <1>1, <1>2, <2>2 DEF Placed
    <3>2. d.msg = ps[c].msg + 1 /\ d.kind # "rollup" /\ d.part \in 1 .. c + 1
      BY <1>1, <1>2, <2>2 DEF Placed
    <3> QED
      BY <1>4, <1>5, <2>2, <3>1, <3>2 DEF Open, Done
  <2>3. CASE c # 0 /\ d.part # 1
    <3>1. /\ ps[c].kind = "fragment" /\ ps[c].part = d.part - 1 /\ ps[c].msg = d.msg
          /\ d.kind # "message" /\ d.part \in 1 .. c + 1
      BY <1>1, <1>2, <2>3 DEF Placed
    <3> QED
      BY <1>4, <1>5, <2>3, <3>1 DEF Open, Done
  <2> QED
    BY <2>1, <2>2, <2>3
<1> HIDE DEF d, F, M
<1>7. /\ G \in Seq(Data) /\ Len(G) = Len(F) + 1 /\ G[Len(F) + 1] = d
      /\ \A j \in 1 .. Len(F) : G[j] = F[j]
  BY <1>1, <1>3, AppendProperties
<1> HIDE DEF G
<1>8. Piece(G, ps, c + 1) /\ Len(G) = d.part
  <2>1. Len(G) = d.part
    BY <1>3, <1>5, <1>6, <1>7
  <2>2. ASSUME NEW j \in 1 .. Len(G) PROVE G[j] = ps[c + 1 - Len(G) + j]
    <3>1. CASE j <= Len(F)
      <4>1. j \in 1 .. Len(F) /\ c + 1 - Len(G) + j = c - Len(F) + j
        BY <1>3, <1>7, <3>1
      <4>2. F[j] = ps[c - Len(F) + j]
        BY <1>4, <4>1 DEF Piece
      <4> QED
        BY <1>7, <4>1, <4>2
    <3>2. CASE ~(j <= Len(F))
      <4>1. j = Len(F) + 1 /\ c + 1 - Len(G) + j = c + 1
        BY <1>3, <1>7, <3>2
      <4> QED
        BY <1>7, <4>1 DEF d
    <3> QED
      BY <3>1, <3>2
  <2> QED
    BY <2>1, <2>2 DEF Piece
<1>9. \A k \in 1 .. Len(M) :
          \E e \in 1 .. c + 1 : /\ ps[e].msg = k /\ ps[e].kind # "fragment"
                                /\ Len(M[k]) = ps[e].part /\ Piece(M[k], ps, e)
  <2>1. \A e \in 1 .. c : e \in 1 .. c + 1
    OBVIOUS
  <2> QED
    BY <1>4, <2>1
<1>10. CASE d.kind = "fragment"
  <2>1. Dispatch(s, d) = [frags |-> G, msgs |-> M]
    BY <1>3, <1>10 DEF Dispatch, G
  <2>2. Open(ps, c + 1) = d.part /\ Done(ps, c + 1) = d.msg - 1
    BY <1>10 DEF Open, Done, d
  <2> DEFINE z == [frags |-> G, msgs |-> M]
  <2>3. z \in [frags : Seq(Data), msgs : Seq(Seq(Data))] /\ z.frags = G /\ z.msgs = M
    BY <1>3, <1>7
  <2> HIDE DEF z
  <2>4. Assembled(ps, c + 1, z)
    BY <1>6, <1>8, <1>9, <2>2, <2>3 DEF Assembled
  <2> QED
    BY <2>1, <2>4 DEF z, d
<1>11. CASE d.kind # "fragment"
  <2> DEFINE X == Append(M, G)
  <2>1. Dispatch(s, d) = [frags |-> << >>, msgs |-> X]
    <3>1. CASE d.kind = "rollup"
      BY <1>3, <3>1 DEF Dispatch, G
    <3>2. CASE d.kind = "message"
      <4>1. Len(F) = 0
        BY <1>5, <1>6, <3>2
      <4>2. F = << >>
        BY <1>3, <4>1, EmptySeq
      <4>3. Append(<< >>, d) = <<d>>
        OBVIOUS
      <4> QED
        BY <1>3, <3>2, <4>2, <4>3 DEF Dispatch, G
    <3> QED
      BY <1>5, <1>11, <3>1, <3>2
  <2>2. /\ X \in Seq(Seq(Data)) /\ Len(X) = Len(M) + 1 /\ X[Len(M) + 1] = G
        /\ \A k \in 1 .. Len(M) : X[k] = M[k]
    BY <1>3, <1>7, AppendProperties
  <2> HIDE DEF X
  <2>3. Open(ps, c + 1) = 0 /\ Done(ps, c + 1) = d.msg
    BY <1>11 DEF Open, Done, d
  <2>4. Len(X) = d.msg
    BY <1>3, <1>5, <1>6, <2>2
  <2>5. ASSUME NEW k \in 1 .. Len(X)
        PROVE  \E e \in 1 .. c + 1 : /\ ps[e].msg = k /\ ps[e].kind # "fragment"
                                     /\ Len(X[k]) = ps[e].part /\ Piece(X[k], ps, e)
    <3>1. CASE k \in 1 .. Len(M)
      BY <1>9, <2>2, <3>1
    <3>2. CASE k \notin 1 .. Len(M)
      <4>1. k = Len(M) + 1 /\ k = d.msg
        BY <1>3, <2>2, <2>4, <3>2
      <4>2. c + 1 \in 1 .. c + 1
        OBVIOUS
      <4> QED
        BY <1>8, <1>11, <2>2, <4>1, <4>2 DEF d
    <3> QED
      BY <3>1, <3>2
  <2>6. << >> \in Seq(Data) /\ Len(<< >>) = 0 /\ Piece(<< >>, ps, c + 1)
    BY EmptySeq DEF Piece
  <2> DEFINE z == [frags |-> << >>, msgs |-> X]
  <2>7. z \in [frags : Seq(Data), msgs : Seq(Seq(Data))] /\ z.frags = << >> /\ z.msgs = X
    BY <2>2, <2>6
  <2> HIDE DEF z
  <2>8. Assembled(ps, c + 1, z)
    BY <2>3, <2>4, <2>5, <2>6, <2>7 DEF Assembled
  <2> QED
    BY <2>1, <2>8 DEF z, d
<1> QED
  BY <1>10, <1>11

(* S is the recursion of Dispatched over the first N packets of run *)
Unfolds(S, s, run, N) ==
    S = [i \in 0 .. N |-> IF i = 0 THEN s ELSE Dispatch(S[i - 1], run[i])]

(* The recursion has a solution. *)
LEMMA Recursion ==
    ASSUME NEW s, NEW run, NEW L \in Nat
    PROVE  \E S : Unfolds(S, s, run, L)
<1> DEFINE Bad == {N \in Nat : ~ \E S : Unfolds(S, s, run, N)}
<1> SUFFICES ASSUME Bad # {} PROVE FALSE
  OBVIOUS
<1> DEFINE N == Min(Bad)
<1>1. N \in Bad /\ \A M \in Bad : N <= M
  <2>1. Bad \subseteq Nat
    OBVIOUS
  <2> HIDE DEF Bad
  <2> QED
    BY <2>1, MinFact
<1>2. N \in Nat /\ ~ \E S : Unfolds(S, s, run, N)
  BY <1>1
<1> HIDE DEF N
<1>3. CASE N = 0
  <2>1. Unfolds([i \in 0 .. 0 |-> s], s, run, 0)
    BY DEF Unfolds
  <2> QED
    BY <1>2, <1>3, <2>1
<1>4. CASE N # 0
  <2>1. N - 1 \in Nat /\ N - 1 \notin Bad
    BY <1>1, <1>2, <1>4
  <2>2. PICK S : Unfolds(S, s, run, N - 1)
    BY <2>1
  <2> DEFINE T == [i \in 0 .. N |-> IF i = N THEN Dispatch(S[N - 1], run[N]) ELSE S[i]]
  <2>3. \A i \in 0 .. N : T[i] = IF i = 0 THEN s ELSE Dispatch(T[i - 1], run[i])
    BY <1>2, <1>4, <2>2 DEF Unfolds
  <2>4. Unfolds(T, s, run, N)
    BY <2>3 DEF Unfolds
  <2> QED
    BY <1>2, <2>4
<1> QED
  BY <1>3, <1>4

(* dispatch_msg makes of a run of packets what the packets make. *)
LEMMA DispatchRun ==
    ASSUME NEW ps \in Seq(Data), Whole(ps), NEW c \in Nat, NEW n,
           Assembled(ps, c, [frags |-> frags[n], msgs |-> delivered[n]]),
           NEW run \in Seq(Data), c + Len(run) <= Len(ps),
           \A i \in 1 .. Len(run) : run[i] = ps[c + i]
    PROVE  Assembled(ps, c + Len(run), Dispatched(n, run))
<1> DEFINE s == [frags |-> frags[n], msgs |-> delivered[n]]
           S == CHOOSE S : S = [i \in 0 .. Len(run) |->
                                   IF i = 0 THEN s ELSE Dispatch(S[i - 1], run[i])]
           L == Len(run)
<1>1. Dispatched(n, run) = S[L]
  BY DEF Dispatched
<1>2. L \in Nat /\ Len(ps) \in Nat
  BY LenProperties
<1>3. Unfolds(S, s, run, L)
  <2>1. \E T : Unfolds(T, s, run, L)
    BY <1>2, Recursion
  <2> QED
    BY <2>1 DEF Unfolds
<1> HIDE DEF S, s
<1>4. S[0] = s /\ \A i \in 1 .. L : S[i] = Dispatch(S[i - 1], run[i])
  <2>1. \A i \in 0 .. L : S[i] = IF i = 0 THEN s ELSE Dispatch(S[i - 1], run[i])
    BY <1>3 DEF Unfolds
  <2> QED
    BY <1>2, <2>1
<1> HIDE DEF L
<1>5. c + L <= Len(ps) /\ \A i \in 1 .. L : run[i] = ps[c + i]
  BY DEF L
<1> DEFINE Bad == {i \in 0 .. L : ~Assembled(ps, c + i, S[i])}
<1>6. Bad = {}
  <2> SUFFICES ASSUME Bad # {} PROVE FALSE
    OBVIOUS
  <2> DEFINE N == Min(Bad)
  <2>1. N \in Bad /\ \A M \in Bad : N <= M
    <3>1. Bad \subseteq Nat
      OBVIOUS
    <3> HIDE DEF Bad
    <3> QED
      BY <3>1, MinFact
  <2>2. N \in 0 .. L /\ ~Assembled(ps, c + N, S[N])
    BY <2>1
  <2> HIDE DEF N
  <2>3. N # 0
    <3>1. c + 0 = c /\ Assembled(ps, c, S[0])
      BY <1>4 DEF s
    <3> QED
      BY <2>2, <3>1
  <2>4. N - 1 \in 0 .. L /\ N - 1 \notin Bad
    BY <1>2, <2>1, <2>2, <2>3
  <2>5. Assembled(ps, c + (N - 1), S[N - 1])
    BY <2>4
  <2>6. /\ c + (N - 1) \in Nat /\ c + (N - 1) < Len(ps) /\ (c + (N - 1)) + 1 = c + N
        /\ N \in 1 .. L
    BY <1>2, <1>5, <2>2, <2>3
  <2>7. Assembled(ps, c + N, Dispatch(S[N - 1], ps[c + N]))
    <3> DEFINE x == c + (N - 1)
    <3>1. x \in Nat /\ x < Len(ps) /\ x + 1 = c + N /\ Assembled(ps, x, S[N - 1])
      BY <2>5, <2>6
    <3> HIDE DEF x
    <3>2. Assembled(ps, x + 1, Dispatch(S[N - 1], ps[x + 1]))
      BY <3>1, DispatchNext
    <3> QED
      BY <3>1, <3>2
  <2>8. S[N] = Dispatch(S[N - 1], ps[c + N])
    BY <1>4, <1>5, <2>6
  <2> QED
    BY <2>2, <2>7, <2>8
<1>7. L \in 0 .. L
  BY <1>2
<1>8. Assembled(ps, c + L, S[L])
  BY <1>6, <1>7
<1> QED
  BY <1>1, <1>8 DEF L

(* What was assembled stays so when more is posted. *)
LEMMA AssembledGrows ==
    ASSUME NEW ps \in Seq(Data), NEW qs \in Seq(Data), NEW c \in 0 .. Len(ps),
           \A i \in 1 .. Len(ps) : qs[i] = ps[i], Whole(ps),
           NEW s, Assembled(ps, c, s)
    PROVE  Assembled(qs, c, s)
<1>1. /\ Len(ps) \in Nat /\ \A e \in 1 .. c : e \in 1 .. Len(ps) /\ qs[e] = ps[e]
  BY LenProperties
<1>2. Open(qs, c) = Open(ps, c) /\ Done(qs, c) = Done(ps, c)
  BY <1>1 DEF Open, Done
<1>3. ASSUME NEW m, NEW e \in 0 .. c, Len(m) \in 0 .. e, Piece(m, ps, e)
      PROVE  Piece(m, qs, e)
  <2> SUFFICES ASSUME NEW j \in 1 .. Len(m) PROVE m[j] = qs[e - Len(m) + j]
    BY DEF Piece
  <2>1. e - Len(m) + j \in 1 .. c
    BY <1>3
  <2> QED
    BY <1>1, <1>3, <2>1 DEF Piece
<1>4. /\ s \in [frags : Seq(Data), msgs : Seq(Seq(Data))]
      /\ Len(s.frags) = Open(ps, c) /\ Piece(s.frags, ps, c)
      /\ Len(s.msgs) = Done(ps, c)
      /\ \A k \in 1 .. Len(s.msgs) :
            \E e \in 1 .. c : /\ ps[e].msg = k /\ ps[e].kind # "fragment"
                              /\ Len(s.msgs[k]) = ps[e].part /\ Piece(s.msgs[k], ps, e)
  BY DEF Assembled
<1>5. \A e \in 1 .. c : ps[e].part \in 0 .. e
  BY <1>1 DEF Whole, Placed
<1>6. Open(ps, c) \in 0 .. c
  BY <1>5 DEF Open
<1>7. Piece(s.frags, qs, c)
  BY <1>3, <1>4, <1>6
<1>8. ASSUME NEW k \in 1 .. Len(s.msgs)
      PROVE  \E e \in 1 .. c : /\ qs[e].msg = k /\ qs[e].kind # "fragment"
                               /\ Len(s.msgs[k]) = qs[e].part /\ Piece(s.msgs[k], qs, e)
  <2>1. PICK e \in 1 .. c : /\ ps[e].msg = k /\ ps[e].kind # "fragment"
                            /\ Len(s.msgs[k]) = ps[e].part /\ Piece(s.msgs[k], ps, e)
    BY <1>4
  <2>2. e \in 0 .. c /\ Len(s.msgs[k]) \in 0 .. e
    BY <1>5, <2>1
  <2>3. Piece(s.msgs[k], qs, e)
    BY <1>3, <2>1, <2>2
  <2> QED
    BY <1>1, <2>1, <2>3
<1> QED
  BY <1>2, <1>4, <1>7, <1>8 DEF Assembled

(* qs is ps and a message m in k packets *)
Posts(qs, ps, m, k) ==
    /\ Len(qs) = Len(ps) + k
    /\ \A i \in 1 .. Len(ps) : qs[i] = ps[i]
    /\ \A i \in 1 .. k : qs[Len(ps) + i] = [msg |-> m, part |-> i, kind |-> Kind(i, k)]

(* A message that is posted behind whole messages is whole. *)
LEMMA WholeGrows ==
    ASSUME NEW ps \in Seq(Data), Whole(ps), NEW k \in Nat \ {0}, NEW m,
           m = IF ps = << >> THEN 1 ELSE ps[Len(ps)].msg + 1,
           NEW qs \in Seq(Data), Posts(qs, ps, m, k)
    PROVE  Whole(qs)
<1> DEFINE P == Len(ps)
<1>1. P \in Nat /\ (ps = << >> <=> P = 0) /\ \A i \in 1 .. P : ps[i] \in Data
  BY LenProperties, EmptySeq, ElementOfSeq
<1>2. \A i \in 1 .. P : qs[i] = ps[i] /\ ps[i].msg \in Nat /\ ps[i].part \in Nat
  BY <1>1 DEF Data, Posts
<1>3. \A i \in 1 .. k : /\ qs[P + i].msg = m /\ qs[P + i].part = i
                        /\ qs[P + i].kind = Kind(i, k)
  <2> TAKE i \in 1 .. k
  <2>1. qs[P + i] = [msg |-> m, part |-> i, kind |-> Kind(i, k)]
    BY DEF Posts
  <2> QED
    BY <2>1
<1>4. P # 0 => P \in 1 .. P /\ ps[P].kind # "fragment" /\ m = ps[P].msg + 1
  BY <1>1 DEF Whole, Placed
<1>5. P = 0 => m = 1
  BY <1>1
<1>6. m \in Nat
  BY <1>2, <1>4, <1>5
<1>7. Len(qs) = P + k
  BY DEF Posts
<1>8. \A x \in 1 .. P + k : x \in 1 .. P \/ \E i \in 1 .. k : x = P + i
  <2> TAKE x \in 1 .. P + k
  <2>1. CASE x <= P
    BY <1>1, <2>1
  <2>2. CASE ~(x <= P)
    <3>1. x - P \in 1 .. k /\ x = P + (x - P)
      BY <1>1, <2>2
    <3> QED
      BY <3>1
  <2> QED
    BY <2>1, <2>2
<1>9. /\ \A i \in 1 .. P : Placed(ps, i)
      /\ \A i, j \in 1 .. P : i <= j => Ordered(ps, i, j)
  BY DEF Whole
<1> HIDE DEF P
<1>10. ASSUME NEW i \in 1 .. P PROVE Placed(qs, i)
  <2>1. Placed(ps, i) /\ qs[i] = ps[i]
    BY <1>2, <1>9
  <2>2. ps[i].part \in 1 .. i
    BY <2>1 DEF Placed
  <2>3. ps[i].part # 1 => qs[i - 1] = ps[i - 1]
    <3>1. ps[i].part # 1 => i - 1 \in 1 .. P
      BY <1>1, <2>2
    <3> QED
      BY <1>2, <3>1
  <2>4. i # 1 => qs[i - 1] = ps[i - 1]
    <3>1. i # 1 => i - 1 \in 1 .. P
      BY <1>1
    <3> QED
      BY <1>2, <3>1
  <2>5. i < P => qs[i + 1] = ps[i + 1]
    <3>1. i < P => i + 1 \in 1 .. P
      BY <1>1
    <3> QED
      BY <1>2, <3>1
  <2>6. \A j \in 1 .. ps[i].part : qs[i - ps[i].part + j] = ps[i - ps[i].part + j]
    <3> TAKE j \in 1 .. ps[i].part
    <3>1. i - ps[i].part + j \in 1 .. P
      BY <1>1, <2>2
    <3> QED
      BY <1>2, <3>1
  <2>7. ps[i].kind = "fragment" => i < P /\ i < Len(qs) /\ qs[i + 1].part # 1
    <3>1. ps[i].kind = "fragment" => i < P /\ ps[i + 1].part # 1
      BY <2>1 DEF Placed, P
    <3>2. i < P => i < Len(qs)
      BY <1>1, <1>7
    <3> QED
      BY <2>5, <3>1, <3>2
  <2>8. /\ ps[i].kind \in {"message", "fragment", "rollup"}
        /\ ps[i].part = 1 => /\ ps[i].kind # "rollup"
                             /\ ps[i].msg = IF i = 1 THEN 1 ELSE ps[i - 1].msg + 1
        /\ ps[i].part # 1 => /\ ps[i].kind # "message"
                             /\ ps[i - 1].kind = "fragment"
                             /\ ps[i - 1].part = ps[i].part - 1
                             /\ ps[i - 1].msg = ps[i].msg
        /\ \A j \in 1 .. ps[i].part : /\ ps[i - ps[i].part + j].msg = ps[i].msg
                                      /\ ps[i - ps[i].part + j].part = j
    BY <2>1 DEF Placed
  <2>9. qs[i].kind \in {"message", "fragment", "rollup"} /\ qs[i].part \in 1 .. i
    BY <2>1, <2>2, <2>8
  <2>10. qs[i].part = 1 => /\ qs[i].kind # "rollup"
                           /\ qs[i].msg = IF i = 1 THEN 1 ELSE qs[i - 1].msg + 1
    BY <2>1, <2>4, <2>8
  <2>11. qs[i].part # 1 => /\ qs[i].kind # "message"
                           /\ qs[i - 1].kind = "fragment"
                           /\ qs[i - 1].part = qs[i].part - 1
                           /\ qs[i - 1].msg = qs[i].msg
    BY <2>1, <2>3, <2>8
  <2>12. \A j \in 1 .. qs[i].part : /\ qs[i - qs[i].part + j].msg = qs[i].msg
                                     /\ qs[i - qs[i].part + j].part = j
    BY <2>1, <2>6, <2>8
  <2> QED
    BY <2>1, <2>7, <2>9, <2>10, <2>11, <2>12 DEF Placed
<1>11. ASSUME NEW i \in 1 .. k PROVE Placed(qs, P + i)
  <2>1. /\ qs[P + i].msg = m /\ qs[P + i].part = i /\ qs[P + i].kind = Kind(i, k)
        /\ i \in 1 .. P + i
    BY <1>1, <1>3
  <2>2. Kind(i, k) \in {"message", "fragment", "rollup"}
    BY DEF Kind
  <2>3. i = 1 => /\ Kind(i, k) # "rollup"
                 /\ m = IF P + i = 1 THEN 1 ELSE qs[P + i - 1].msg + 1
    <3>1. i = 1 => Kind(i, k) # "rollup"
      BY DEF Kind
    <3>2. i = 1 => P + i - 1 = P /\ (P + i = 1 <=> P = 0)
      BY <1>1
    <3> QED
      BY <1>2, <1>4, <1>5, <3>1, <3>2
  <2>4. i # 1 => /\ Kind(i, k) # "message" /\ qs[P + i - 1].kind = "fragment"
                 /\ qs[P + i - 1].part = i - 1 /\ qs[P + i - 1].msg = m
    <3> SUFFICES ASSUME i # 1
                 PROVE  /\ Kind(i, k) # "message" /\ qs[P + i - 1].kind = "fragment"
                        /\ qs[P + i - 1].part = i - 1 /\ qs[P + i - 1].msg = m
      OBVIOUS
    <3>1. /\ i - 1 \in 1 .. k /\ P + i - 1 = P + (i - 1) /\ k # 1 /\ i - 1 # k
      BY <1>1
    <3>2. Kind(i, k) # "message" /\ Kind(i - 1, k) = "fragment"
      BY <3>1 DEF Kind
    <3> QED
      BY <1>3, <3>1, <3>2
  <2>5. Kind(i, k) = "fragment" => P + i < Len(qs) /\ qs[P + i + 1].part # 1
    <3> SUFFICES ASSUME Kind(i, k) = "fragment"
                 PROVE  P + i < Len(qs) /\ qs[P + i + 1].part # 1
      OBVIOUS
    <3>1. i # k
      BY DEF Kind
    <3>2. i + 1 \in 1 .. k /\ P + i + 1 = P + (i + 1) /\ P + i < P + k /\ i + 1 # 1
      BY <1>1, <3>1
    <3> QED
      BY <1>3, <1>7, <3>2
  <2>6. ASSUME NEW j \in 1 .. i
        PROVE  qs[P + i - i + j].msg = m /\ qs[P + i - i + j].part = j
    <3>1. P + i - i + j = P + j /\ j \in 1 .. k
      BY <1>1
    <3> QED
      BY <1>3, <3>1
  <2> DEFINE x == P + i
  <2>7. qs[x].msg = m /\ qs[x].part = i /\ qs[x].kind = Kind(i, k) /\ i \in 1 .. x
    BY <2>1
  <2>8. i = 1 => /\ Kind(i, k) # "rollup"
                 /\ m = IF x = 1 THEN 1 ELSE qs[x - 1].msg + 1
    <3>1. x - 1 = P + i - 1
      BY <1>1
    <3> QED
      BY <2>3, <3>1
  <2>9. i # 1 => /\ Kind(i, k) # "message" /\ qs[x - 1].kind = "fragment"
                 /\ qs[x - 1].part = i - 1 /\ qs[x - 1].msg = m
    <3>1. x - 1 = P + i - 1
      BY <1>1
    <3> QED
      BY <2>4, <3>1
  <2>10. Kind(i, k) = "fragment" => x < Len(qs) /\ qs[x + 1].part # 1
    BY <2>5
  <2>11. \A j \in 1 .. i : qs[x - i + j].msg = m /\ qs[x - i + j].part = j
    <3>1. \A j \in 1 .. i : x - i + j = P + i - i + j
      BY <1>1
    <3> QED
      BY <2>6, <3>1
  <2> HIDE DEF x
  <2>12. Placed(qs, x)
    BY <2>2, <2>7, <2>8, <2>9, <2>10, <2>11 DEF Placed
  <2> QED
    BY <2>12 DEF x
<1>12. ASSUME NEW x \in 1 .. P + k, NEW y \in 1 .. P + k, x <= y
       PROVE  Ordered(qs, x, y)
  <2>1. CASE x \in 1 .. P /\ y \in 1 .. P
    <3>1. Ordered(ps, x, y) /\ qs[x] = ps[x] /\ qs[y] = ps[y]
      BY <1>2, <1>9, <1>12, <2>1
    <3> QED
      BY <3>1 DEF Ordered
  <2>2. ASSUME x \in 1 .. P, NEW i \in 1 .. k, y = P + i
        PROVE  Ordered(qs, x, y)
    <3>1. P \in 1 .. P /\ x <= P /\ P # 0
      BY <1>1, <2>2
    <3>2. ps[x].msg <= ps[P].msg
      BY <1>9, <2>2, <3>1 DEF Ordered
    <3>3. ps[x].msg \in Nat /\ ps[P].msg \in Nat /\ qs[x].msg = ps[x].msg
      BY <1>2, <2>2, <3>1
    <3>4. m = ps[P].msg + 1
      BY <1>4, <3>1
    <3>5. ps[x].msg < m
      <4> DEFINE u == ps[x].msg
                 v == ps[P].msg
      <4>1. u \in Nat /\ v \in Nat /\ u <= v /\ m = v + 1
        BY <3>2, <3>3, <3>4
      <4> HIDE DEF u, v
      <4>2. u < m
        BY <4>1
      <4> QED
        BY <4>2 DEF u
    <3>6. qs[y].msg = m
      BY <1>3, <2>2
    <3> QED
      BY <1>6, <3>3, <3>5, <3>6 DEF Ordered
  <2>3. ASSUME NEW i \in 1 .. k, NEW j \in 1 .. k, x = P + i, y = P + j
        PROVE  Ordered(qs, x, y)
    <3>1. qs[x].msg = m /\ qs[y].msg = m /\ qs[y].part = j /\ qs[x].kind = Kind(i, k)
      BY <1>3, <2>3
    <3>2. x < y => j # 1 /\ Kind(i, k) = "fragment"
      <4>1. x < y => j # 1 /\ k # 1 /\ i # k
        BY <1>1, <2>3
      <4> QED
        BY <4>1 DEF Kind
    <3> QED
      BY <1>6, <3>1, <3>2 DEF Ordered
  <2>4. ASSUME NEW i \in 1 .. k, x = P + i, y \in 1 .. P PROVE FALSE
    BY <1>1, <1>12, <2>4
  <2> QED
    BY <1>8, <2>1, <2>2, <2>3, <2>4
<1> QED
  BY <1>7, <1>8, <1>10, <1>11, <1>12 DEF Whole

(* Of whole messages, the packets from the first to the last one of a      *)
(* message are those before its end.                                       *)
LEMMA MessagePiece ==
    ASSUME NEW n \in Nodes, posted[n] \in Seq(Data), Whole(posted[n]), NEW k,
           NEW e \in 1 .. Len(posted[n]), posted[n][e].msg = k,
           posted[n][e].kind # "fragment",
           NEW x \in Seq(Data), Len(x) = posted[n][e].part, Piece(x, posted[n], e)
    PROVE  x = Message(n, k)
<1> DEFINE ps == posted[n]
           L  == ps[e].part
           a  == e - L + 1
           at == {i \in DOMAIN ps : ps[i].msg = k}
<1>1. Len(ps) \in Nat /\ DOMAIN ps = 1 .. Len(ps)
  BY LenProperties
<1>2. Placed(ps, e) /\ \A i, j \in 1 .. Len(ps) : i <= j => Ordered(ps, i, j)
  BY DEF Whole
<1>3. L \in 1 .. e /\ a \in 1 .. e
  BY <1>2 DEF Placed
<1>4. \A i \in a .. e : ps[i].msg = k
  <2> TAKE i \in a .. e
  <2>1. i - e + L \in 1 .. L /\ e - L + (i - e + L) = i
    BY <1>3
  <2>2. ps[e - L + (i - e + L)].msg = ps[e].msg
    BY <1>2, <2>1 DEF Placed
  <2> QED
    BY <2>1, <2>2
<1>5. ps[a].part = 1
  <2>1. 1 \in 1 .. L
    BY <1>3
  <2> QED
    BY <1>2, <2>1 DEF Placed
<1>6. \A i \in 1 .. Len(ps) : ps[i].msg \in Nat
  <2>1. \A i \in 1 .. Len(ps) : ps[i] \in Data
    BY ElementOfSeq
  <2> QED
    BY <2>1 DEF Data
<1> HIDE DEF ps, L, a
<1>7. \A i \in at : i \in a .. e
  <2> TAKE i \in at
  <2>1. i \in 1 .. Len(ps) /\ ps[i].msg = k
    BY <1>1
  <2>2. ASSUME i > e PROVE FALSE
    <3>1. Ordered(ps, e, i) /\ ps[e].msg = k /\ ps[e].kind # "fragment"
      BY <1>1, <1>2, <2>1, <2>2 DEF ps
    <3>2. ps[e].msg < ps[i].msg
      BY <2>2, <3>1 DEF Ordered
    <3> QED
      BY <1>6, <2>1, <3>1, <3>2
  <2>3. ASSUME i < a PROVE FALSE
    <3>1. a \in 1 .. Len(ps) /\ a \in a .. e
      BY <1>1, <1>3 DEF ps
    <3>2. Ordered(ps, i, a)
      BY <1>2, <2>1, <2>3, <3>1
    <3>3. ps[i].msg < ps[a].msg /\ ps[a].msg = k
      BY <1>4, <1>5, <2>3, <3>1, <3>2 DEF Ordered
    <3> QED
      BY <1>6, <2>1, <3>3
  <2> QED
    BY <1>3, <2>1, <2>2, <2>3
<1>8. \A i \in a .. e : i \in at
  BY <1>1, <1>3, <1>4 DEF ps
<1>9. a \in at /\ e \in at /\ at \subseteq 0 .. e /\ at \subseteq Nat
  BY <1>3, <1>7, <1>8
<1> HIDE DEF at
<1>10. Min(at) = a
  <2>1. Min(at) \in at /\ \A y \in at : Min(at) <= y
    BY <1>9, MinFact
  <2>2. Min(at) \in a .. e /\ Min(at) <= a
    BY <1>7, <1>9, <2>1
  <2> QED
    BY <1>3, <2>2
<1>11. Max(at) = e
  <2>1. Max(at) \in at /\ \A y \in at : Max(at) >= y
    BY <1>3, <1>9, MaxFact
  <2>2. Max(at) \in a .. e /\ Max(at) >= e
    BY <1>7, <1>9, <2>1
  <2> QED
    BY <1>3, <2>2
<1>12. Message(n, k) = SubSeq(ps, a, e)
  BY <1>10, <1>11 DEF Message, at, ps
<1>13. /\ SubSeq(ps, a, e) \in Seq(Data) /\ Len(SubSeq(ps, a, e)) = L
       /\ \A i \in 1 .. L : SubSeq(ps, a, e)[i] = ps[a + i - 1]
  <2>1. \A i \in a .. e : ps[i] \in Data
    BY <1>1, <1>3, ElementOfSeq DEF ps
  <2>2. a = e - L + 1
    BY DEF a
  <2>3. e - a + 1 = L /\ a <= e /\ a \in Int /\ e \in Int
    BY <1>3, <2>2
  <2> QED
    BY <2>1, <2>3, SubSeqProperties
<1>14. \A i \in 1 .. L : x[i] = ps[a + i - 1]
  <2> TAKE i \in 1 .. L
  <2>1. Len(x) = L /\ x[i] = ps[e - L + i]
    BY DEF Piece, ps, L
  <2>2. e - L + i = a + i - 1
    BY <1>3 DEF a
  <2> QED
    BY <2>1, <2>2
<1>15. Len(x) = L
  BY DEF L, ps
<1>16. x = SubSeq(ps, a, e)
  <2> DEFINE y == SubSeq(ps, a, e)
  <2>1. y \in Seq(Data) /\ Len(x) = Len(y) /\ \A i \in 1 .. Len(x) : x[i] = y[i]
    BY <1>13, <1>14, <1>15
  <2> HIDE DEF y
  <2>2. x = y
    BY <2>1, SeqEqual
  <2> QED
    BY <2>2 DEF y
<1> QED
  BY <1>12, <1>16

(* what every node posted is whole, and what it delivered is what it took  *)
Carried(n) == [frags |-> frags[n], msgs |-> delivered[n]]

MessagesOK ==
    /\ frags \in [Nodes -> Seq(Data)] /\ delivered \in [Nodes -> Seq(Seq(Data))]
    /\ \A n \in Nodes : Whole(posted[n])
    /\ \A n \in Nodes : Assembled(posted[Peer(n)], Len(consumed[n]), Carried(n))

(* Nothing is taken at the start. *)
LEMMA MessagesInit == Init => MessagesOK
<1> SUFFICES ASSUME Init PROVE MessagesOK
  OBVIOUS
<1>1. \A n \in Nodes : /\ Peer(n) \in Nodes /\ posted[n] = << >> /\ consumed[n] = << >>
                       /\ frags[n] = << >> /\ delivered[n] = << >>
  BY PeerFacts DEF Init
<1>2. Len(<< >>) = 0 /\ << >> \in Seq(Data) /\ << >> \in Seq(Seq(Data))
  BY EmptySeq
<1>3. frags \in [Nodes -> Seq(Data)] /\ delivered \in [Nodes -> Seq(Seq(Data))]
  BY <1>2 DEF Init
<1>4. Whole(<< >>)
  BY <1>2 DEF Whole
<1> DEFINE z == [frags |-> << >>, msgs |-> << >>]
<1>5. z \in [frags : Seq(Data), msgs : Seq(Seq(Data))] /\ z.frags = << >> /\ z.msgs = << >>
  BY <1>2
<1>6. \A n \in Nodes : Carried(n) = z
  BY <1>1 DEF Carried
<1> HIDE DEF z
<1>7. Assembled(<< >>, 0, z)
  BY <1>2, <1>5 DEF Assembled, Open, Done, Piece
<1> QED
  BY <1>1, <1>2, <1>3, <1>4, <1>6, <1>7 DEF MessagesOK

(* post_msg. *)
LEMMA MessagesPost ==
    ASSUME StreamInv, MessagesOK, NEW n \in Nodes, NEW k \in Frags, post_msg(n, k)
    PROVE  MessagesOK'
<1> DEFINE m    == IF posted[n] = << >> THEN 1 ELSE posted[n][Len(posted[n])].msg + 1
           part == [i \in 1 .. k |-> [msg |-> m, part |-> i, kind |-> Kind(i, k)]]
           P    == Len(posted[n])
<1>1. posted' = [posted EXCEPT ![n] = posted[n] \o part]
  BY DEF post_msg
<1>2. UNCHANGED <<consumed, frags, delivered>>
  BY DEF post_msg, recvVars
<1>3. k \in Nat /\ k \in Nat \ {0}
  BY InboxAssumption
<1>4. posted \in [Nodes -> Seq(Data)] /\ posted[n] \in Seq(Data) /\ P \in Nat
  BY Typed DEF StreamInv, StreamTypes
<1>5. part \in [1 .. k -> Data]
  <2>1. m \in Nat
    <3>1. posted[n] # << >> => posted[n][P] \in Data
      BY <1>4, EmptySeq, ElementOfSeq
    <3> QED
      BY <3>1 DEF Data
  <2> HIDE DEF m
  <2> QED
    BY <1>3, <2>1 DEF Data, Kind
<1>6. part \in Seq(Data) /\ Len(part) = k
  BY <1>3, <1>5, FunctionSeq
<1>7. \A i \in 1 .. k : part[i] = [msg |-> m, part |-> i, kind |-> Kind(i, k)]
  OBVIOUS
<1> HIDE DEF part
<1> DEFINE qs == posted[n] \o part
<1>8. /\ qs \in Seq(Data) /\ Len(qs) = P + k
      /\ \A i \in 1 .. P + k : qs[i] = IF i <= P THEN posted[n][i] ELSE part[i - P]
  BY <1>4, <1>6, ConcatProperties
<1>9. posted'[n] = qs /\ \A x \in Nodes \ {n} : posted'[x] = posted[x]
  BY <1>1, <1>4
<1> HIDE DEF qs
<1>10. \A i \in 1 .. P : qs[i] = posted[n][i]
  BY <1>3, <1>4, <1>8
<1>11. \A i \in 1 .. k : qs[P + i] = [msg |-> m, part |-> i, kind |-> Kind(i, k)]
  <2> TAKE i \in 1 .. k
  <2> HIDE DEF P
  <2>1. P + i \in 1 .. P + k /\ ~(P + i <= P) /\ P + i - P = i /\ (P + i) - P = i
    BY <1>3, <1>4
  <2>2. qs[P + i] = part[i]
    BY <1>8, <2>1
  <2> QED
    BY <1>7, <2>2
<1>12. Whole(qs)
  <2>1. Whole(posted[n])
    BY DEF MessagesOK
  <2>2. m = IF posted[n] = << >> THEN 1 ELSE posted[n][Len(posted[n])].msg + 1
    OBVIOUS
  <2> HIDE DEF m
  <2>3. Posts(qs, posted[n], m, k)
    BY <1>8, <1>10, <1>11 DEF Posts
  <2> QED
    BY <1>3, <1>4, <1>8, <2>1, <2>2, <2>3, WholeGrows
<1>13. \A x \in Nodes : Whole(posted'[x])
  BY <1>9, <1>12 DEF MessagesOK
<1>14. ASSUME NEW x \in Nodes
       PROVE  Assembled(posted'[Peer(x)], Len(consumed'[x]), Carried(x)')
  <2>1. Carried(x)' = Carried(x) /\ consumed' = consumed
    BY <1>2 DEF Carried
  <2>2. Assembled(posted[Peer(x)], Len(consumed[x]), Carried(x)) /\ Peer(x) \in Nodes
    BY PeerFacts DEF MessagesOK
  <2>3. CASE Peer(x) = n
    <3>1. Len(consumed[x]) \in 0 .. P
      BY <1>4, <2>3, Typed DEF StreamInv, Streams
    <3>2. Whole(posted[n]) /\ Assembled(posted[n], Len(consumed[x]), Carried(x))
      BY <2>2, <2>3 DEF MessagesOK
    <3>3. Assembled(qs, Len(consumed[x]), Carried(x))
      BY <1>4, <1>8, <1>10, <3>1, <3>2, AssembledGrows
    <3> QED
      BY <1>9, <2>1, <2>3, <3>3
  <2>4. CASE Peer(x) # n
    BY <1>9, <2>1, <2>2, <2>4
  <2> QED
    BY <2>3, <2>4
<1> QED
  BY <1>2, <1>13, <1>14 DEF MessagesOK

(* process. *)
LEMMA MessagesProcess ==
    ASSUME StreamInv, MessagesOK, NEW n \in Nodes, NEW pkt \in net, NEW again,
           process(n, pkt, again)
    PROVE  MessagesOK'
<1> DEFINE p    == Peer(n)
           held == in[n] \union {pkt}
           run  == Run(n, held)
           D    == Dispatched(n, run)
           C    == Len(consumed[n])
<1>1. /\ UNCHANGED posted /\ pkt.to = n
      /\ \/ UNCHANGED <<consumed, frags, delivered>>
         \/ IsData(pkt) /\ dispatch_msg(n, pkt)
  BY DEF process
<1>2. /\ p \in Nodes /\ posted[p] \in Seq(Data) /\ consumed \in [Nodes -> Seq(Data)]
      /\ consumed[n] \in Seq(Data) /\ C \in Nat
      /\ frags \in [Nodes -> Seq(Data)] /\ delivered \in [Nodes -> Seq(Seq(Data))]
  BY PeerFacts, Typed DEF StreamInv, StreamTypes, MessagesOK
<1>3. CASE UNCHANGED <<consumed, frags, delivered>>
  BY <1>1, <1>3 DEF MessagesOK, Carried
<1>4. CASE IsData(pkt) /\ dispatch_msg(n, pkt)
  <2>1. /\ consumed' = [consumed EXCEPT ![n] = consumed[n] \o run]
        /\ frags' = [frags EXCEPT ![n] = D.frags]
        /\ delivered' = [delivered EXCEPT ![n] = D.msgs]
    BY <1>4 DEF dispatch_msg
  <2>2. \A q \in held : IsData(q) /\ Sent(p, q)
    BY <1>1, <1>4 DEF StreamInv, PacketsOK
  <2>3. /\ run \in Seq(Data) /\ C + Len(run) <= Len(posted[p])
        /\ \A i \in 1 .. Len(run) : run[i] = posted[p][C + i]
    BY <2>2, RunParts
  <2>4. Whole(posted[p]) /\ Assembled(posted[p], C, [frags |-> frags[n], msgs |-> delivered[n]])
    BY <1>2 DEF MessagesOK, Carried
  <2> HIDE DEF run, C, p
  <2>5. Assembled(posted[p], C + Len(run), D)
    BY <1>2, <2>3, <2>4, DispatchRun
  <2> HIDE DEF D
  <2>6. D \in [frags : Seq(Data), msgs : Seq(Seq(Data))]
    BY <2>5 DEF Assembled
  <2>7. Len(consumed[n] \o run) = C + Len(run)
    BY <1>2, <2>3, ConcatProperties DEF C
  <2>8. /\ frags' \in [Nodes -> Seq(Data)] /\ delivered' \in [Nodes -> Seq(Seq(Data))]
        /\ frags'[n] = D.frags /\ delivered'[n] = D.msgs
        /\ consumed'[n] = consumed[n] \o run
        /\ \A x \in Nodes \ {n} : /\ consumed'[x] = consumed[x]
                                  /\ frags'[x] = frags[x] /\ delivered'[x] = delivered[x]
    BY <1>2, <2>1, <2>6
  <2>9. [frags |-> D.frags, msgs |-> D.msgs] = D
    BY <2>6
  <2>10. ASSUME NEW x \in Nodes
         PROVE  Assembled(posted[Peer(x)], Len(consumed'[x]), Carried(x)')
    <3>1. CASE x = n
      <4>1. Carried(x)' = D
        BY <2>8, <2>9, <3>1 DEF Carried
      <4> QED
        BY <2>5, <2>7, <2>8, <3>1, <4>1 DEF p
    <3>2. CASE x # n
      BY <2>8, <3>2 DEF MessagesOK, Carried
    <3> QED
      BY <3>1, <3>2
  <2> QED
    BY <1>1, <2>8, <2>10 DEF MessagesOK
<1> QED
  BY <1>1, <1>3, <1>4

(* Every step keeps the messages whole. *)
LEMMA MessagesNext ==
    ASSUME StreamInv, MessagesOK, [Next]_vars
    PROVE  MessagesOK'
<1>1. ASSUME UNCHANGED <<posted, consumed, frags, delivered>> PROVE MessagesOK'
  BY <1>1 DEF MessagesOK, Carried
<1>2. ASSUME NEW n \in Nodes, NEW lost, write(n, lost) PROVE MessagesOK'
  BY <1>1, <1>2 DEF write, recvVars
<1>3. ASSUME NEW n \in Nodes, NEW w, NEW r, NEW s, timer_expire(n, w, r, s)
      PROVE  MessagesOK'
  BY <1>1, <1>3 DEF timer_expire
<1>4. CASE UNCHANGED vars
  BY <1>1, <1>4 DEF vars, recvVars
<1> QED
  BY <1>2, <1>3, <1>4, MessagesPost, MessagesProcess DEF Next

-----------------------------------------------------------------------------
(* The types of the rest                                                   *)

RestTypes ==
    /\ outAck \in [Nodes -> Seqnos] /\ inAck \in [Nodes -> Seqnos]
    /\ inWindow \in [Nodes -> Seqnos]
    /\ state \in [Nodes -> SUBSET {"recv", "send", "window", "dup"}]
    /\ losses \in 0 .. MaxLost
    /\ \A n \in Nodes : IsFiniteSet(acks[n])

(* Nothing is acknowledged or lost at the start. *)
LEMMA RestInit == Init => RestTypes
<1> SUFFICES ASSUME Init PROVE RestTypes
  OBVIOUS
<1>1. First \in Seqnos /\ 0 \in 0 .. MaxLost
  BY InboxAssumption DEF Seqnos
<1>2. IsFiniteSet({})
  BY FS_EmptySet
<1> QED
  BY <1>1, <1>2 DEF Init, RestTypes

(* What is queued is finite, and so is what may be lost of it. *)
LEMMA QueuedFinite ==
    ASSUME StreamInv, RestTypes, NEW n \in Nodes, NEW lost \in SUBSET Queued(n)
    PROVE  Cardinality(lost) \in Nat
<1> DEFINE Q == {sendq[n][i] : i \in DOMAIN sendq[n]}
<1>1. DOMAIN sendq[n] = 1 .. Len(sendq[n]) /\ Len(sendq[n]) \in Nat
  BY Typed DEF StreamInv
<1>2. IsFiniteSet(DOMAIN sendq[n])
  BY <1>1, FS_Interval
<1>3. IsFiniteSet(Q)
  <2>1. sendq[n] \in Surjection(DOMAIN sendq[n], Q)
    <3>1. sendq[n] = [i \in DOMAIN sendq[n] |-> sendq[n][i]]
      BY Typed DEF StreamInv
    <3> DEFINE f == sendq[n]
    <3>2. f \in [DOMAIN f -> Q] /\ \A y \in Q : \E i \in DOMAIN f : f[i] = y
      BY <3>1
    <3> QED
      BY <3>2 DEF Surjection
  <2> QED
    BY <1>2, <2>1, FS_Surjection
<1>4. IsFiniteSet(acks[n])
  BY DEF RestTypes
<1>5. IsFiniteSet(Queued(n))
  BY <1>3, <1>4, FS_Union DEF Queued
<1> QED
  BY <1>5, FS_Subset, FS_CardinalityType

(* write only takes from the state bits and counts losses. *)
LEMMA RestWrite ==
    ASSUME StreamInv, RestTypes, NEW n \in Nodes, NEW lost \in SUBSET Queued(n),
           write(n, lost)
    PROVE  RestTypes'
<1>1. /\ UNCHANGED <<outAck, inAck, inWindow>>
      /\ state' = [state EXCEPT ![n] = IF sendq[n] = << >> THEN state[n]
                                       ELSE state[n] \union {"send"}]
      /\ acks' = [acks EXCEPT ![n] = {}]
      /\ losses' = losses + Cardinality(lost) /\ losses' <= MaxLost
  BY DEF write, recvVars
<1>2. Cardinality(lost) \in Nat /\ MaxLost \in Nat
  BY QueuedFinite, InboxAssumption
<1>3. losses' \in 0 .. MaxLost
  BY <1>1, <1>2 DEF RestTypes
<1>4. state' \in [Nodes -> SUBSET {"recv", "send", "window", "dup"}]
  BY <1>1 DEF RestTypes
<1>5. acks \in [Nodes -> SUBSET Packets]
  BY DEF StreamInv, StreamTypes
<1>6. \A x \in Nodes : IsFiniteSet(acks'[x])
  BY <1>1, <1>5, FS_EmptySet DEF RestTypes
<1> QED
  BY <1>1, <1>3, <1>4, <1>6 DEF RestTypes

(* timer_expire acknowledges what was taken and asks for an answer. *)
LEMMA RestTimer ==
    ASSUME StreamInv, RestTypes, NEW n \in Nodes,
           NEW w \in BOOLEAN, NEW r \in BOOLEAN, NEW s \in BOOLEAN,
           timer_expire(n, w, r, s)
    PROVE  RestTypes'
<1>1. /\ UNCHANGED <<outAck, inWindow, losses>>
      /\ \E y \in {inSeqno[n], inWindow[n], inAck[n]} : inAck' = [inAck EXCEPT ![n] = y]
      /\ \E y \in SUBSET {"recv"} : \E z :
            state' = [state EXCEPT ![n] = (state[n] \union y) \ z]
      /\ \E y : /\ acks' = [acks EXCEPT ![n] = acks[n] \union y]
                /\ y = {} \/ \E z : y = {z}
  <2>1. UNCHANGED <<outAck, inWindow, losses>>
    BY DEF timer_expire
  <2>2. \E y \in {inSeqno[n], inWindow[n], inAck[n]} : inAck' = [inAck EXCEPT ![n] = y]
    BY DEF timer_expire
  <2>3. \E y \in SUBSET {"recv"} : \E z :
            state' = [state EXCEPT ![n] = (state[n] \union y) \ z]
    BY DEF timer_expire
  <2>4. \E y : /\ acks' = [acks EXCEPT ![n] = acks[n] \union y]
               /\ y = {} \/ \E z : y = {z}
    BY DEF timer_expire
  <2> QED
    BY <2>1, <2>2, <2>3, <2>4
<1>2. /\ inSeqno[n] \in Seqnos /\ inWindow[n] \in Seqnos /\ inAck[n] \in Seqnos
      /\ acks \in [Nodes -> SUBSET Packets]
  BY DEF StreamInv, StreamTypes, RestTypes
<1>3. inAck' \in [Nodes -> Seqnos]
  BY <1>1, <1>2 DEF RestTypes
<1>4. state' \in [Nodes -> SUBSET {"recv", "send", "window", "dup"}]
  <2>1. PICK y \in SUBSET {"recv"} : \E z :
            state' = [state EXCEPT ![n] = (state[n] \union y) \ z]
    BY <1>1
  <2>2. PICK z : state' = [state EXCEPT ![n] = (state[n] \union y) \ z]
    BY <2>1
  <2>3. (state[n] \union y) \ z \in SUBSET {"recv", "send", "window", "dup"}
    BY DEF RestTypes
  <2> QED
    BY <2>2, <2>3 DEF RestTypes
<1>5. \A x \in Nodes : IsFiniteSet(acks'[x])
  <2>1. PICK y : /\ acks' = [acks EXCEPT ![n] = acks[n] \union y]
                 /\ y = {} \/ \E z : y = {z}
    BY <1>1
  <2>2. IsFiniteSet(y)
    <3>1. \A z : IsFiniteSet({z})
      BY FS_Singleton
    <3>2. IsFiniteSet({})
      BY FS_EmptySet
    <3> QED
      BY <2>1, <3>1, <3>2
  <2>3. IsFiniteSet(acks[n] \union y)
    BY <2>2, FS_Union DEF RestTypes
  <2> QED
    BY <1>2, <2>1, <2>3 DEF RestTypes
<1> QED
  BY <1>1, <1>3, <1>4, <1>5 DEF RestTypes

(* process keeps acknowledgements, bits and window within their types. *)
LEMMA RestProcess ==
    ASSUME StreamInv, RestTypes, NEW n \in Nodes, NEW pkt \in net, NEW again,
           process(n, pkt, again)
    PROVE  RestTypes'
<1>1. /\ UNCHANGED <<inAck, losses, acks>>
      /\ \E y \in {pkt.dest_seqno, outWindow[n], outAck[n]} :
            outAck' = [outAck EXCEPT ![n] = y]
      /\ \E y \in {pkt.src_seqno, inWindow[n]} : inWindow' = [inWindow EXCEPT ![n] = y]
      /\ state' = [state EXCEPT ![n] = state[n] \union Raised(n, pkt)]
  <2>1. UNCHANGED <<inAck, losses, acks>>
    BY DEF process
  <2>2. \E y \in {pkt.dest_seqno, outWindow[n], outAck[n]} :
            outAck' = [outAck EXCEPT ![n] = y]
    BY DEF process
  <2>3. \E y \in {pkt.src_seqno, inWindow[n]} : inWindow' = [inWindow EXCEPT ![n] = y]
    BY DEF process
  <2>4. state' = [state EXCEPT ![n] = state[n] \union Raised(n, pkt)]
    BY DEF process
  <2> QED
    BY <2>1, <2>2, <2>3, <2>4
<1>2. pkt \in Packets /\ outWindow[n] \in Seqnos
  BY DEF StreamInv, StreamTypes
<1>3. pkt.dest_seqno \in Seqnos /\ pkt.src_seqno \in Seqnos
  BY <1>2 DEF Packets
<1>4. outAck' \in [Nodes -> Seqnos] /\ inWindow' \in [Nodes -> Seqnos]
  BY <1>1, <1>2, <1>3 DEF RestTypes
<1>5. Raised(n, pkt) \subseteq {"recv", "send", "window", "dup"}
  BY DEF Raised
<1>6. state' \in [Nodes -> SUBSET {"recv", "send", "window", "dup"}]
  BY <1>1, <1>5 DEF RestTypes
<1> QED
  BY <1>1, <1>4, <1>6 DEF RestTypes

(* Every step keeps the types of the acknowledgements, bits and losses. *)
LEMMA RestNext ==
    ASSUME StreamInv, RestTypes, [Next]_vars
    PROVE  RestTypes'
<1>1. ASSUME UNCHANGED <<outAck, inAck, inWindow, state, losses, acks>> PROVE RestTypes'
  BY <1>1 DEF RestTypes
<1>2. ASSUME NEW n \in Nodes, NEW k, post_msg(n, k) PROVE RestTypes'
  BY <1>1, <1>2 DEF post_msg, recvVars
<1>3. CASE UNCHANGED vars
  BY <1>1, <1>3 DEF vars, sendVars, recvVars, queues
<1> QED
  BY <1>2, <1>3, RestWrite, RestTimer, RestProcess DEF Next

-----------------------------------------------------------------------------
(* The send window                                                         *)

(* The send window o and the queue q behind it hold the last of the P      *)
(* packets posted, each once and in order: those after the b-th            *)
Behind(o, q, P) == P - Len(o) - Len(q)

Numbered(o, q, P) ==
    /\ Behind(o, q, P) >= 0
    /\ \A i \in 1 .. Len(o) : o[i].src_seqno = Num(Behind(o, q, P) + i)
    /\ \A i \in 1 .. Len(q) : q[i].src_seqno = Num(Behind(o, q, P) + Len(o) + i)

(* and what is no longer there is acknowledged: of the c packets taken     *)
Sending(o, q, P, c, ack, win) ==
    /\ Numbered(o, q, P)
    /\ ack = win
    /\ \E j \in Behind(o, q, P) .. c : win = Num(j)

SendOK ==
    \A n \in Nodes : Sending(out[n], sendq[n], Len(posted[n]), Len(consumed[Peer(n)]),
                             outAck[n], outWindow[n])

(* write moves the queue behind the window. *)
LEMMA NumberedWrite ==
    ASSUME NEW o \in Seq(Packets), NEW q \in Seq(Packets), NEW P \in Nat, Numbered(o, q, P)
    PROVE  Numbered(o \o q, << >>, P) /\ Behind(o \o q, << >>, P) = Behind(o, q, P)
<1>1. Len(o) \in Nat /\ Len(q) \in Nat /\ Len(<< >>) = 0
  BY LenProperties, EmptySeq
<1>2. /\ Len(o \o q) = Len(o) + Len(q)
      /\ \A i \in 1 .. Len(o) + Len(q) :
            (o \o q)[i] = IF i <= Len(o) THEN o[i] ELSE q[i - Len(o)]
  BY ConcatProperties
<1>3. Behind(o \o q, << >>, P) = Behind(o, q, P) /\ Behind(o, q, P) \in Int
  BY <1>1, <1>2 DEF Behind
<1>4. ASSUME NEW i \in 1 .. Len(o) + Len(q)
      PROVE  (o \o q)[i].src_seqno = Num(Behind(o, q, P) + i)
  <2>1. CASE i <= Len(o)
    <3>1. i \in 1 .. Len(o) /\ (o \o q)[i] = o[i]
      BY <1>1, <1>2, <2>1
    <3> QED
      BY <3>1 DEF Numbered
  <2>2. CASE ~(i <= Len(o))
    <3>1. /\ i - Len(o) \in 1 .. Len(q) /\ (o \o q)[i] = q[i - Len(o)]
          /\ Behind(o, q, P) + Len(o) + (i - Len(o)) = Behind(o, q, P) + i
      BY <1>1, <1>2, <1>3, <2>2
    <3>2. q[i - Len(o)].src_seqno = Num(Behind(o, q, P) + Len(o) + (i - Len(o)))
      BY <3>1 DEF Numbered
    <3> QED
      BY <3>1, <3>2
  <2> QED
    BY <2>1, <2>2
<1>5. Behind(o, q, P) >= 0
  BY DEF Numbered
<1> QED
  BY <1>1, <1>2, <1>3, <1>4, <1>5 DEF Numbered

(* post_msg queues the next numbers. *)
LEMMA NumberedPost ==
    ASSUME NEW o \in Seq(Packets), NEW q \in Seq(Packets), NEW P \in Nat, Numbered(o, q, P),
           NEW r \in Seq(Packets), \A i \in 1 .. Len(r) : r[i].src_seqno = Num(P + i)
    PROVE  /\ Numbered(o, q \o r, P + Len(r))
           /\ Behind(o, q \o r, P + Len(r)) = Behind(o, q, P)
<1>1. Len(o) \in Nat /\ Len(q) \in Nat /\ Len(r) \in Nat
  BY LenProperties
<1>2. /\ Len(q \o r) = Len(q) + Len(r)
      /\ \A i \in 1 .. Len(q) + Len(r) :
            (q \o r)[i] = IF i <= Len(q) THEN q[i] ELSE r[i - Len(q)]
  BY ConcatProperties
<1>3. /\ Behind(o, q \o r, P + Len(r)) = Behind(o, q, P) /\ Behind(o, q, P) \in Int
      /\ Behind(o, q, P) + Len(o) + Len(q) = P
  BY <1>1, <1>2 DEF Behind
<1>4. ASSUME NEW i \in 1 .. Len(q) + Len(r)
      PROVE  (q \o r)[i].src_seqno = Num(Behind(o, q, P) + Len(o) + i)
  <2>1. CASE i <= Len(q)
    <3>1. i \in 1 .. Len(q) /\ (q \o r)[i] = q[i]
      BY <1>1, <1>2, <2>1
    <3> QED
      BY <3>1 DEF Numbered
  <2>2. CASE ~(i <= Len(q))
    <3>0. P + (i - Len(q)) = Behind(o, q, P) + Len(o) + i
      <4> DEFINE b == Behind(o, q, P)
      <4>1. b \in Int /\ b + Len(o) + Len(q) = P /\ i \in Int
        BY <1>3
      <4> HIDE DEF b
      <4>2. P + (i - Len(q)) = b + Len(o) + i
        BY <1>1, <4>1
      <4> QED
        BY <4>2 DEF b
    <3>1. i - Len(q) \in 1 .. Len(r) /\ (q \o r)[i] = r[i - Len(q)]
      BY <1>1, <1>2, <2>2
    <3>2. r[i - Len(q)].src_seqno = Num(P + (i - Len(q)))
      BY <3>1
    <3> QED
      BY <3>0, <3>1, <3>2
  <2> QED
    BY <2>1, <2>2
<1> QED
  BY <1>1, <1>2, <1>3, <1>4 DEF Numbered

(* repair_window takes the end of the window back to an empty queue. *)
LEMMA NumberedRepair ==
    ASSUME NEW o \in Seq(Packets), NEW P \in Nat, Numbered(o, << >>, P),
           NEW e \in 0 .. Len(o), NEW r \in Seq(Packets), Len(r) = Len(o) - e,
           \A i \in 1 .. Len(r) : r[i].src_seqno = o[e + i].src_seqno
    PROVE  /\ Numbered(SubSeq(o, 1, e), r, P)
           /\ Behind(SubSeq(o, 1, e), r, P) = Behind(o, << >>, P)
<1>1. Len(o) \in Nat /\ Len(r) \in Nat /\ Len(<< >>) = 0
  BY LenProperties, EmptySeq
<1>2. Len(SubSeq(o, 1, e)) = e /\ \A i \in 1 .. e : SubSeq(o, 1, e)[i] = o[i]
  BY <1>1
<1>3. /\ Behind(SubSeq(o, 1, e), r, P) = Behind(o, << >>, P)
      /\ Behind(o, << >>, P) \in Int
  BY <1>1, <1>2 DEF Behind
<1>4. \A i \in 1 .. e : o[i].src_seqno = Num(Behind(o, << >>, P) + i)
  BY <1>1 DEF Numbered
<1>5. ASSUME NEW i \in 1 .. Len(r)
      PROVE  r[i].src_seqno = Num(Behind(o, << >>, P) + e + i)
  <2>1. e + i \in 1 .. Len(o) /\ Behind(o, << >>, P) + (e + i) = Behind(o, << >>, P) + e + i
    BY <1>1, <1>3
  <2>2. o[e + i].src_seqno = Num(Behind(o, << >>, P) + (e + i))
    BY <2>1 DEF Numbered
  <2> QED
    BY <2>1, <2>2
<1>6. Behind(o, << >>, P) >= 0
  BY DEF Numbered
<1> QED
  BY <1>2, <1>3, <1>4, <1>5, <1>6 DEF Numbered

(* In a window that is numbered the packets an acknowledgement covers are  *)
(* the first.                                                              *)
LEMMA Covered ==
    ASSUME NoOverflow, NEW n \in Nodes, NEW o \in Seq(Packets), NEW q \in Seq(Packets),
           NEW P \in 0 .. MaxPosted[n], Numbered(o, q, P),
           NEW j \in Behind(o, q, P) .. P, NEW i \in 1 .. Len(o)
    PROVE  seqno_cmp(o[i].src_seqno, Num(j)) = Behind(o, q, P) + i - j
<1>1. Len(o) \in Nat /\ Len(q) \in Nat /\ MaxPosted[n] \in Nat
  BY LenProperties, InboxAssumption
<1>2. /\ Behind(o, q, P) \in Int /\ Behind(o, q, P) >= 0
      /\ Behind(o, q, P) + Len(o) + Len(q) = P
  BY <1>1 DEF Numbered, Behind
<1>3. j \in 0 .. MaxPosted[n] /\ Behind(o, q, P) + i \in 0 .. MaxPosted[n]
  BY <1>1, <1>2
<1>4. o[i].src_seqno = Num(Behind(o, q, P) + i)
  BY DEF Numbered
<1> DEFINE x == Behind(o, q, P) + i
<1>5. seqno_cmp(Num(x), Num(j)) = x - j
  <2> HIDE DEF x
  <2>1. x \in 0 .. MaxPosted[n]
    BY <1>3 DEF x
  <2> QED
    BY <1>3, <2>1, CmpExact
<1> QED
  BY <1>2, <1>4, <1>5

(* adjust_send_window drops what is acknowledged, and nothing else. *)
LEMMA NumberedAck ==
    ASSUME NoOverflow, NEW n \in Nodes, NEW o \in Seq(Packets), NEW q \in Seq(Packets),
           NEW P \in 0 .. MaxPosted[n], Numbered(o, q, P),
           NEW j \in Behind(o, q, P) .. P
    PROVE  /\ Numbered(Unacked(o, Num(j)), q, P)
           /\ Behind(Unacked(o, Num(j)), q, P) <= j
<1> DEFINE b    == Behind(o, q, P)
           keep == {i \in DOMAIN o : seqno_cmp(o[i].src_seqno, Num(j)) > 0}
           u    == Unacked(o, Num(j))
<1>1. /\ Len(o) \in Nat /\ Len(q) \in Nat /\ MaxPosted[n] \in Nat
      /\ DOMAIN o = 1 .. Len(o) /\ Len(<< >>) = 0
  BY LenProperties, InboxAssumption, EmptySeq
<1>2. b \in Int /\ b >= 0 /\ b + Len(o) + Len(q) = P /\ j \in Int /\ b <= j /\ P \in Int
  BY <1>1 DEF Numbered, Behind
<1>3. \A i \in 1 .. Len(o) : i \in keep <=> b + i > j
  <2> TAKE i \in 1 .. Len(o)
  <2>1. seqno_cmp(o[i].src_seqno, Num(j)) = b + i - j
    BY Covered
  <2> HIDE DEF b
  <2> QED
    BY <1>1, <1>2, <2>1
<1>4. u = IF keep = {} THEN << >> ELSE SubSeq(o, Min(keep), Len(o))
  BY DEF Unacked
<1>5. /\ \A i \in 1 .. Len(o) : o[i].src_seqno = Num(b + i)
      /\ \A i \in 1 .. Len(q) : q[i].src_seqno = Num(b + Len(o) + i)
  BY DEF Numbered
<1>6. keep \subseteq 1 .. Len(o)
  BY <1>1
<1>7. Behind(u, q, P) = P - Len(u) - Len(q)
  BY DEF Behind
<1> HIDE DEF b, keep, u
<1>8. CASE b + Len(o) <= j
  <2>1. keep = {}
    BY <1>1, <1>2, <1>3, <1>6, <1>8
  <2>2. Len(u) = 0 /\ Behind(u, q, P) = b + Len(o)
    BY <1>1, <1>2, <1>4, <1>7, <2>1
  <2>3. \A i \in 1 .. Len(q) : b + Len(o) + 0 + i = b + Len(o) + i
    BY <1>1, <1>2
  <2>4. Numbered(u, q, P)
    BY <1>1, <1>2, <1>5, <2>2, <2>3 DEF Numbered
  <2> QED
    BY <1>8, <2>2, <2>4 DEF u
<1>9. CASE ~(b + Len(o) <= j)
  <2> DEFINE a == j - b + 1
  <2>1. a \in 1 .. Len(o) /\ a \in keep /\ \A y \in keep : a <= y
    BY <1>1, <1>2, <1>3, <1>6, <1>9
  <2>2. Min(keep) = a
    <3>1. keep \subseteq Nat /\ keep # {}
      BY <1>6, <2>1
    <3>2. Min(keep) \in keep /\ \A y \in keep : Min(keep) <= y
      BY <3>1, MinFact
    <3> HIDE DEF a
    <3>3. Min(keep) <= a /\ a <= Min(keep)
      BY <2>1, <3>2
    <3>4. Min(keep) \in Nat
      BY <3>1, <3>2
    <3>5. a \in Int
      BY <1>1, <2>1
    <3> QED
      BY <3>3, <3>4, <3>5
  <2>3. u = SubSeq(o, a, Len(o))
    BY <1>4, <2>1, <2>2
  <2> HIDE DEF a
  <2>4. /\ Len(u) = Len(o) - a + 1
        /\ \A i \in 1 .. Len(o) - a + 1 : u[i] = o[a + i - 1]
    <3>1. \A i \in a .. Len(o) : o[i] \in Packets
      BY <1>1, <2>1, ElementOfSeq
    <3> QED
      BY <1>1, <2>1, <2>3, <3>1, SubSeqProperties
  <2>5. a = j - b + 1
    BY DEF a
  <2>6. Behind(u, q, P) = j
    <3>1. Len(u) = Len(o) - a + 1
      BY <2>4
    <3>2. Len(u) = Len(o) - j + b
      BY <1>1, <1>2, <2>5, <3>1
    <3> QED
      BY <1>1, <1>2, <1>7, <3>2
  <2>7. ASSUME NEW i \in 1 .. Len(u) PROVE u[i].src_seqno = Num(j + i)
    <3>1. a + i - 1 \in 1 .. Len(o) /\ b + (a + i - 1) = j + i /\ u[i] = o[a + i - 1]
      BY <1>1, <1>2, <2>1, <2>4, <2>5
    <3> QED
      BY <1>5, <3>1
  <2>8. ASSUME NEW i \in 1 .. Len(q) PROVE q[i].src_seqno = Num(j + Len(u) + i)
    <3>1. b + Len(o) + i = j + Len(u) + i
      BY <1>1, <1>2, <2>1, <2>4, <2>5
    <3> QED
      BY <1>5, <3>1
  <2>9. Numbered(u, q, P)
    BY <1>2, <2>6, <2>7, <2>8 DEF Numbered
  <2> QED
    BY <1>2, <2>6, <2>9 DEF u
<1> QED
  BY <1>8, <1>9

(* Nothing is in the window at the start. *)
LEMMA SendInit == Init => SendOK
<1> SUFFICES ASSUME Init, NEW n \in Nodes
             PROVE  Sending(out[n], sendq[n], Len(posted[n]), Len(consumed[Peer(n)]),
                            outAck[n], outWindow[n])
  BY DEF SendOK
<1>1. /\ out[n] = << >> /\ sendq[n] = << >> /\ posted[n] = << >>
      /\ consumed[Peer(n)] = << >> /\ outAck[n] = First /\ outWindow[n] = First
  BY PeerFacts DEF Init
<1>2. Len(<< >>) = 0 /\ Num(0) = First
  BY EmptySeq, InboxAssumption DEF Num, Plus, SeqnoMod
<1>3. Behind(<< >>, << >>, 0) = 0
  <2>1. Behind(<< >>, << >>, 0) = 0 - Len(<< >>) - Len(<< >>)
    BY DEF Behind
  <2> QED
    BY <1>2, <2>1
<1> QED
  BY <1>1, <1>2, <1>3 DEF Sending, Numbered

(* The window of a node is kept by the steps of its peer. *)
LEMMA SendKept ==
    ASSUME StreamInv, SendOK, NEW n \in Nodes,
           out'[n] = out[n], sendq'[n] = sendq[n], posted'[n] = posted[n],
           outAck'[n] = outAck[n], outWindow'[n] = outWindow[n],
           NEW c \in Nat, Len(consumed[Peer(n)]) <= c
    PROVE  Sending(out'[n], sendq'[n], Len(posted'[n]), c, outAck'[n], outWindow'[n])
<1> DEFINE b == Behind(out[n], sendq[n], Len(posted[n]))
<1>1. /\ b \in Int /\ Len(consumed[Peer(n)]) \in Nat
  BY Typed, PeerFacts DEF StreamInv, Behind
<1>2. /\ Numbered(out[n], sendq[n], Len(posted[n])) /\ outAck[n] = outWindow[n]
      /\ \E j \in b .. Len(consumed[Peer(n)]) : outWindow[n] = Num(j)
  BY DEF SendOK, Sending
<1> HIDE DEF b
<1>3. \E j \in b .. c : outWindow[n] = Num(j)
  BY <1>1, <1>2
<1> QED
  BY <1>2, <1>3 DEF Sending, b

(* post_msg. *)
LEMMA SendPost ==
    ASSUME StreamInv, SendOK, NEW n \in Nodes, NEW k \in Frags, post_msg(n, k)
    PROVE  SendOK'
<1> DEFINE m    == IF posted[n] = << >> THEN 1 ELSE posted[n][Len(posted[n])].msg + 1
           part == [i \in 1 .. k |-> [msg |-> m, part |-> i, kind |-> Kind(i, k)]]
           pkts == [i \in 1 .. k |-> Packet("data", n, Plus(outSeqno[n], i), part[i])]
           P    == Len(posted[n])
<1>1. /\ P + k <= MaxPosted[n]
      /\ posted' = [posted EXCEPT ![n] = posted[n] \o part]
      /\ sendq' = [sendq EXCEPT ![n] = sendq[n] \o pkts]
  BY DEF post_msg
<1>2. UNCHANGED <<outAck, outWindow, out, consumed>>
  BY DEF post_msg, recvVars
<1>3. k \in Nat /\ k > 0 /\ MaxPosted[n] \in Nat /\ MaxPosted[n] < Half /\ Half \in Nat
  BY InboxAssumption
<1>4. StreamInv' /\ StreamTypes' /\ StreamTypes
  BY PostStep DEF StreamInv
<1>5. /\ posted \in [Nodes -> Seq(Data)] /\ sendq \in [Nodes -> Seq(Packets)]
      /\ posted[n] \in Seq(Data) /\ sendq[n] \in Seq(Packets) /\ out[n] \in Seq(Packets)
      /\ P \in Nat
  BY <1>4, Typed DEF StreamTypes
<1>6. /\ posted'[n] = posted[n] \o part /\ sendq'[n] = sendq[n] \o pkts
      /\ \A x \in Nodes \ {n} : posted'[x] = posted[x] /\ sendq'[x] = sendq[x]
  BY <1>1, <1>5
<1>7. part \in [1 .. k -> Data]
  <2>1. m \in Nat
    <3>1. posted[n] # << >> => posted[n][P] \in Data
      BY <1>5, EmptySeq, ElementOfSeq
    <3> QED
      BY <3>1 DEF Data
  <2> HIDE DEF m
  <2> QED
    BY <1>3, <2>1 DEF Data, Kind
<1>8. ASSUME NEW i \in 1 .. k
      PROVE  pkts[i] \in Packets /\ pkts[i].src_seqno = Num(P + i)
  <2>1. outSeqno[n] = Num(P) /\ inSeqno[n] \in Seqnos
    BY DEF StreamInv, Streams, StreamTypes
  <2>2. /\ P < SeqnoMod /\ i < SeqnoMod /\ P + i < SeqnoMod
        /\ i \in Nat /\ P + i \in Nat
    <3> HIDE DEF P
    <3> QED
      BY <1>1, <1>3, <1>5 DEF SeqnoMod
  <2>3. Plus(outSeqno[n], i) = Num(P + i) /\ Num(P + i) \in Seqnos
    BY <1>5, <2>1, <2>2, Numbers
  <2>4. part[i] \in Data
    BY <1>7
  <2> HIDE DEF part
  <2>5. pkts[i] = [type |-> "data", to |-> Peer(n), src_seqno |-> Num(P + i),
                   dest_seqno |-> inSeqno[n], data |-> part[i]]
    BY <2>3 DEF Packet
  <2> QED
    BY <2>1, <2>3, <2>4, <2>5, PeerFacts DEF Packets, Types
<1>9. pkts \in Seq(Packets) /\ Len(pkts) = k
  <2>1. pkts \in [1 .. k -> Packets]
    BY <1>8
  <2> QED
    BY <1>3, <2>1, FunctionSeq
<1>10. Len(posted[n] \o part) = P + k
  <2>1. part \in Seq(Data) /\ Len(part) = k
    BY <1>3, <1>7, FunctionSeq
  <2> HIDE DEF part
  <2> QED
    BY <1>5, <2>1, ConcatProperties
<1> HIDE DEF pkts, part, P
<1>11. ASSUME NEW x \in Nodes
       PROVE  Sending(out'[x], sendq'[x], Len(posted'[x]), Len(consumed'[Peer(x)]),
                      outAck'[x], outWindow'[x])
  <2>1. CASE x = n
    <3>1. /\ Numbered(out[n], sendq[n], P)
          /\ outAck[n] = outWindow[n]
          /\ \E j \in Behind(out[n], sendq[n], P) .. Len(consumed[Peer(n)]) :
                outWindow[n] = Num(j)
      BY DEF SendOK, Sending, P
    <3>2. \A i \in 1 .. Len(pkts) : pkts[i].src_seqno = Num(P + i)
      BY <1>8, <1>9
    <3>3. /\ Numbered(out[n], sendq[n] \o pkts, P + k)
          /\ Behind(out[n], sendq[n] \o pkts, P + k) = Behind(out[n], sendq[n], P)
      BY <1>5, <1>9, <3>1, <3>2, NumberedPost
    <3> QED
      BY <1>2, <1>6, <1>10, <2>1, <3>1, <3>3 DEF Sending
  <2>2. CASE x # n
    <3>1. Len(consumed[Peer(x)]) \in Nat
      BY Typed, PeerFacts DEF StreamInv
    <3> QED
      BY <1>2, <1>6, <2>2, <3>1, SendKept
  <2> QED
    BY <2>1, <2>2
<1> QED
  BY <1>11 DEF SendOK

(* write. *)
LEMMA SendWrite ==
    ASSUME StreamInv, SendOK, NEW n \in Nodes, NEW lost, write(n, lost)
    PROVE  SendOK'
<1>1. /\ UNCHANGED <<posted, consumed, outAck, outWindow>>
      /\ out' = [out EXCEPT ![n] = out[n] \o sendq[n]]
      /\ sendq' = [sendq EXCEPT ![n] = << >>]
  BY DEF write, recvVars
<1>2. /\ out \in [Nodes -> Seq(Packets)] /\ sendq \in [Nodes -> Seq(Packets)]
      /\ out[n] \in Seq(Packets) /\ sendq[n] \in Seq(Packets) /\ Len(posted[n]) \in Nat
  BY Typed DEF StreamInv, StreamTypes
<1>3. /\ out'[n] = out[n] \o sendq[n] /\ sendq'[n] = << >>
      /\ \A x \in Nodes \ {n} : out'[x] = out[x] /\ sendq'[x] = sendq[x]
  BY <1>1, <1>2
<1>4. ASSUME NEW x \in Nodes
      PROVE  Sending(out'[x], sendq'[x], Len(posted'[x]), Len(consumed'[Peer(x)]),
                     outAck'[x], outWindow'[x])
  <2>1. CASE x = n
    <3>1. Sending(out[n], sendq[n], Len(posted[n]), Len(consumed[Peer(n)]),
                  outAck[n], outWindow[n])
      BY DEF SendOK
    <3>2. /\ Numbered(out[n] \o sendq[n], << >>, Len(posted[n]))
          /\ Behind(out[n] \o sendq[n], << >>, Len(posted[n])) =
             Behind(out[n], sendq[n], Len(posted[n]))
      BY <1>2, <3>1, NumberedWrite DEF Sending
    <3> QED
      BY <1>1, <1>3, <2>1, <3>1, <3>2 DEF Sending
  <2>2. CASE x # n
    <3>1. Len(consumed[Peer(x)]) \in Nat
      BY Typed, PeerFacts DEF StreamInv
    <3> QED
      BY <1>1, <1>3, <2>2, <3>1, SendKept
  <2> QED
    BY <2>1, <2>2
<1> QED
  BY <1>4 DEF SendOK

(* The packets repair_window queues have the numbers of those it takes. *)
LEMMA RexmitNumbers ==
    ASSUME StreamInv, NEW n \in Nodes
    PROVE  /\ Len(Rexmit(n)) = Len(out[n]) - Edge(n)
           /\ \A i \in 1 .. Len(Rexmit(n)) :
                 Rexmit(n)[i].src_seqno = out[n][Edge(n) + i].src_seqno
<1> DEFINE k == Len(out[n]) - Edge(n)
<1>1. Len(out[n]) \in Nat /\ Edge(n) \in 0 .. Len(out[n]) /\ out[n] \in Seq(Packets)
  BY Typed, RexmitParts DEF StreamInv
<1>2. Rexmit(n) = [i \in 1 .. k |-> [out[n][Edge(n) + i] EXCEPT !.dest_seqno = inSeqno[n]]]
  BY DEF Rexmit
<1>3. k \in Nat /\ \A i \in 1 .. k : Edge(n) + i \in 1 .. Len(out[n])
  BY <1>1
<1>4. Len(Rexmit(n)) = k
  <2>1. DOMAIN Rexmit(n) = 1 .. k
    BY <1>2
  <2>2. Rexmit(n) \in Seq(Packets)
    BY RexmitParts
  <2> HIDE DEF k
  <2> QED
    BY <1>3, <2>1, <2>2
<1>5. ASSUME NEW i \in 1 .. k
      PROVE  Rexmit(n)[i].src_seqno = out[n][Edge(n) + i].src_seqno
  <2>1. out[n][Edge(n) + i] \in Packets
    BY <1>1, <1>3, ElementOfSeq
  <2>2. Rexmit(n)[i] = [out[n][Edge(n) + i] EXCEPT !.dest_seqno = inSeqno[n]]
    BY <1>2
  <2> QED
    BY <2>1, <2>2 DEF Packets
<1> QED
  BY <1>4, <1>5

(* timer_expire, when the queue was written before. *)
LEMMA SendTimer ==
    ASSUME WriteFirst, StreamInv, SendOK, NEW n \in Nodes,
           NEW w \in BOOLEAN, NEW r \in BOOLEAN, NEW s \in BOOLEAN,
           timer_expire(n, w, r, s)
    PROVE  SendOK'
<1>1. UNCHANGED <<posted, consumed, outAck, outWindow>>
  BY DEF timer_expire
<1>2. /\ out \in [Nodes -> Seq(Packets)] /\ sendq \in [Nodes -> Seq(Packets)]
      /\ out[n] \in Seq(Packets) /\ sendq[n] \in Seq(Packets) /\ Len(posted[n]) \in Nat
      /\ DOMAIN sendq[n] = 1 .. Len(sendq[n]) /\ Len(sendq[n]) \in Nat
  BY Typed DEF StreamInv, StreamTypes
<1>3. /\ \A x \in Nodes \ {n} : out'[x] = out[x] /\ sendq'[x] = sendq[x]
      /\ \/ out'[n] = out[n] /\ sendq'[n] = sendq[n]
         \/ out'[n] = SubSeq(out[n], 1, Edge(n)) /\ sendq'[n] = sendq[n] \o Rexmit(n)
  BY <1>2 DEF timer_expire
<1>4. sendq[n] = << >>
  <2>1. Queued(n) = {}
    BY DEF timer_expire
  <2>2. ASSUME Len(sendq[n]) # 0 PROVE FALSE
    <3>1. 1 \in DOMAIN sendq[n]
      BY <1>2, <2>2
    <3> QED
      BY <2>1, <3>1 DEF Queued
  <2> QED
    BY <1>2, <2>2, EmptySeq
<1>5. /\ Numbered(out[n], << >>, Len(posted[n])) /\ outAck[n] = outWindow[n]
      /\ \E j \in Behind(out[n], << >>, Len(posted[n])) .. Len(consumed[Peer(n)]) :
            outWindow[n] = Num(j)
  BY <1>4 DEF SendOK, Sending
<1>6. ASSUME out'[n] = SubSeq(out[n], 1, Edge(n)) /\ sendq'[n] = sendq[n] \o Rexmit(n)
      PROVE  Sending(out'[n], sendq'[n], Len(posted'[n]), Len(consumed'[Peer(n)]),
                     outAck'[n], outWindow'[n])
  <2>1. Edge(n) \in 0 .. Len(out[n]) /\ Rexmit(n) \in Seq(Packets)
    BY RexmitParts
  <2>2. << >> \o Rexmit(n) = Rexmit(n)
    BY <2>1, ConcatEmptySeq
  <2>3. /\ Numbered(SubSeq(out[n], 1, Edge(n)), Rexmit(n), Len(posted[n]))
        /\ Behind(SubSeq(out[n], 1, Edge(n)), Rexmit(n), Len(posted[n])) =
           Behind(out[n], << >>, Len(posted[n]))
    BY <1>2, <1>5, <2>1, RexmitNumbers, NumberedRepair
  <2> QED
    BY <1>1, <1>4, <1>5, <1>6, <2>2, <2>3 DEF Sending
<1>7. ASSUME out'[n] = out[n] /\ sendq'[n] = sendq[n]
      PROVE  Sending(out'[n], sendq'[n], Len(posted'[n]), Len(consumed'[Peer(n)]),
                     outAck'[n], outWindow'[n])
  BY <1>1, <1>4, <1>5, <1>7 DEF Sending
<1>8. ASSUME NEW x \in Nodes
      PROVE  Sending(out'[x], sendq'[x], Len(posted'[x]), Len(consumed'[Peer(x)]),
                     outAck'[x], outWindow'[x])
  <2>1. CASE x = n
    BY <1>3, <1>6, <1>7, <2>1
  <2>2. CASE x # n
    <3>1. Len(consumed[Peer(x)]) \in Nat
      BY Typed, PeerFacts DEF StreamInv
    <3> QED
      BY <1>1, <1>3, <2>2, <3>1, SendKept
  <2> QED
    BY <2>1, <2>2
<1> QED
  BY <1>8 DEF SendOK

(* A node takes packets and gives none back. *)
LEMMA TakenGrows ==
    ASSUME StreamInv, NEW n \in Nodes, NEW pkt \in net, NEW again, process(n, pkt, again)
    PROVE  Len(consumed'[n]) \in Nat /\ Len(consumed[n]) <= Len(consumed'[n])
<1>1. \/ consumed' = consumed
      \/ IsData(pkt) /\ consumed' = [consumed EXCEPT ![n] =
                                       consumed[n] \o Run(n, in[n] \union {pkt})]
  BY DEF process, dispatch_msg
<1>2. consumed \in [Nodes -> Seq(Data)] /\ consumed[n] \in Seq(Data)
      /\ Len(consumed[n]) \in Nat
  BY Typed DEF StreamInv, StreamTypes
<1>3. CASE consumed' = consumed
  BY <1>2, <1>3
<1>4. CASE IsData(pkt) /\ consumed' = [consumed EXCEPT ![n] =
                                         consumed[n] \o Run(n, in[n] \union {pkt})]
  <2> DEFINE run == Run(n, in[n] \union {pkt})
  <2>1. \A q \in in[n] \union {pkt} : IsData(q) /\ Sent(Peer(n), q)
    <3>1. pkt.to = n
      BY DEF process
    <3> QED
      BY <1>4, <3>1 DEF StreamInv, PacketsOK
  <2>2. run \in Seq(Data)
    BY <2>1, RunParts
  <2>3. consumed'[n] = consumed[n] \o run
    BY <1>2, <1>4
  <2> HIDE DEF run
  <2>4. Len(run) \in Nat /\ Len(consumed[n] \o run) = Len(consumed[n]) + Len(run)
    BY <1>2, <2>2, ConcatProperties, LenProperties
  <2> QED
    BY <1>2, <2>3, <2>4
<1> QED
  BY <1>1, <1>3, <1>4

(* process: an acknowledgement that is news moves the window on. *)
LEMMA SendProcess ==
    ASSUME NoOverflow, StreamInv, RestTypes, SendOK, NEW n \in Nodes, NEW pkt \in net, NEW again,
           process(n, pkt, again)
    PROVE  SendOK'
<1> DEFINE newer  == seqno_cmp(pkt.dest_seqno, outWindow[n]) > 0
           window == IF newer THEN pkt.dest_seqno ELSE outWindow[n]
           adjust == newer /\ seqno_cmp(outAck[n], window) < 0
           P == Len(posted[n])
           c == Len(consumed[Peer(n)])
           b == Behind(out[n], sendq[n], P)
<1>1. /\ UNCHANGED <<posted, sendq>> /\ pkt.to = n
      /\ outWindow' = [outWindow EXCEPT ![n] = window]
      /\ out' = [out EXCEPT ![n] = IF adjust THEN Unacked(out[n], window) ELSE out[n]]
      /\ outAck' = [outAck EXCEPT ![n] = IF adjust THEN window ELSE outAck[n]]
  BY DEF process
<1>2. /\ Peer(n) \in Nodes /\ Peer(n) # n /\ Peer(Peer(n)) = n
      /\ \A x \in Nodes : x # n => x = Peer(n)
  <2>1. PICK x, y \in Nodes : x # y /\ Nodes = {x, y}
    BY InboxAssumption
  <2> QED
    BY <2>1, PeerFacts
<1>3. /\ out \in [Nodes -> Seq(Packets)] /\ outWindow \in [Nodes -> Seqnos]
      /\ out[n] \in Seq(Packets) /\ sendq[n] \in Seq(Packets)
      /\ P \in Nat /\ c \in Nat /\ c <= P /\ P <= MaxPosted[n] /\ MaxPosted[n] \in Nat
  BY <1>2, Typed, InboxAssumption DEF StreamInv, StreamTypes, Streams
<1>4. /\ out'[n] = IF adjust THEN Unacked(out[n], window) ELSE out[n]
      /\ outWindow'[n] = window
      /\ \A x \in Nodes \ {n} : out'[x] = out[x] /\ outWindow'[x] = outWindow[x]
  BY <1>1, <1>3
<1>5. /\ outAck'[n] = IF adjust THEN window ELSE outAck[n]
      /\ \A x \in Nodes \ {n} : outAck'[x] = outAck[x]
  BY <1>1 DEF RestTypes
<1>6. /\ Numbered(out[n], sendq[n], P) /\ outAck[n] = outWindow[n]
      /\ \E j \in b .. c : outWindow[n] = Num(j)
  BY DEF SendOK, Sending
<1>7. PICK j \in b .. c : outWindow[n] = Num(j)
  BY <1>6
<1>8. PICK h \in 0 .. c : pkt.dest_seqno = Num(h)
  <2>1. Sent(Peer(n), pkt)
    BY <1>1 DEF StreamInv, PacketsOK
  <2> QED
    BY <2>1 DEF Sent, Genuine
<1>9. b \in Int /\ b >= 0
  BY <1>3, LenProperties, <1>6 DEF Numbered, Behind
<1>10. Len(consumed'[Peer(n)]) = c
  <2>1. \/ UNCHANGED consumed
        \/ \E run : consumed' = [consumed EXCEPT ![n] = run]
    BY DEF process, dispatch_msg
  <2>2. consumed \in [Nodes -> Seq(Data)]
    BY DEF StreamInv, StreamTypes
  <2> QED
    BY <1>2, <2>1, <2>2
<1>11. seqno_cmp(pkt.dest_seqno, outWindow[n]) = h - j
  <2> HIDE DEF b, c, P
  <2>1. h \in 0 .. MaxPosted[n] /\ j \in 0 .. MaxPosted[n]
    BY <1>3, <1>9
  <2> QED
    BY <1>7, <1>8, <2>1, CmpExact
<1>12. seqno_cmp(outAck[n], pkt.dest_seqno) = j - h
  <2> HIDE DEF b, c, P
  <2>1. h \in 0 .. MaxPosted[n] /\ j \in 0 .. MaxPosted[n]
    BY <1>3, <1>9
  <2> QED
    BY <1>6, <1>7, <1>8, <2>1, CmpExact
<1>13. Sending(out'[n], sendq'[n], Len(posted'[n]), Len(consumed'[Peer(n)]),
               outAck'[n], outWindow'[n])
  <2>1. CASE newer
    <3>1. h > j /\ adjust /\ window = pkt.dest_seqno
      BY <1>8, <1>9, <1>11, <1>12, <2>1
    <3>2. /\ out'[n] = Unacked(out[n], Num(h)) /\ outAck'[n] = Num(h)
          /\ outWindow'[n] = Num(h)
      BY <1>4, <1>5, <1>8, <3>1
    <3> HIDE DEF b, c, P, newer, window, adjust
    <3>3. h \in b .. P /\ P \in 0 .. MaxPosted[n]
      BY <1>3, <1>9, <3>1
    <3> DEFINE u == Unacked(out[n], Num(h))
    <3>4. Numbered(u, sendq[n], P) /\ Behind(u, sendq[n], P) <= h
      BY <1>3, <1>6, <3>3, NumberedAck DEF b
    <3>5. Behind(u, sendq[n], P) \in Int
      <4>1. u \in Seq(Packets)
        BY <1>3, UnackedParts
      <4>2. Len(u) \in Nat /\ Len(sendq[n]) \in Nat
        BY <1>3, <4>1, LenProperties
      <4> HIDE DEF u
      <4> QED
        BY <1>3, <4>2 DEF Behind
    <3> HIDE DEF u
    <3>6. h \in Behind(u, sendq[n], P) .. c
      BY <1>3, <3>4, <3>5
    <3>7. Sending(u, sendq[n], P, c, Num(h), Num(h))
      BY <3>4, <3>6 DEF Sending
    <3>8. posted'[n] = posted[n] /\ sendq'[n] = sendq[n]
      BY <1>1
    <3> QED
      BY <1>10, <3>2, <3>7, <3>8 DEF u, P
  <2>2. CASE ~newer
    <3>1. out'[n] = out[n] /\ outAck'[n] = outAck[n] /\ outWindow'[n] = outWindow[n]
      BY <1>4, <1>5, <2>2
    <3> QED
      BY <1>1, <1>3, <1>10, <3>1, SendKept
  <2> QED
    BY <2>1, <2>2
<1>14. ASSUME NEW x \in Nodes, x # n
       PROVE  Sending(out'[x], sendq'[x], Len(posted'[x]), Len(consumed'[Peer(x)]),
                      outAck'[x], outWindow'[x])
  <2>1. Peer(x) = n /\ x = Peer(n)
    BY <1>2, <1>14
  <2>2. Len(consumed'[n]) \in Nat /\ Len(consumed[n]) <= Len(consumed'[n])
    BY TakenGrows
  <2> QED
    BY <1>1, <1>4, <1>5, <1>14, <2>1, <2>2, SendKept
<1> QED
  BY <1>13, <1>14 DEF SendOK

(* Every step keeps the window. *)
LEMMA SendNext ==
    ASSUME NoOverflow, WriteFirst, StreamInv, RestTypes, SendOK, [Next]_vars
    PROVE  SendOK'
<1>1. CASE UNCHANGED vars
  <2>1. UNCHANGED <<out, sendq, posted, consumed, outAck, outWindow>>
    BY <1>1 DEF vars, sendVars, recvVars, queues
  <2> QED
    BY <2>1 DEF SendOK
<1> QED
  BY <1>1, SendPost, SendWrite, SendTimer, SendProcess DEF Next

(* What repair_window would send again begins at or before the packet the  *)
(* peer waits for.                                                         *)
LEMMA NextInReach ==
    ASSUME NoOverflow, StreamInv, SendOK, NEW n \in Nodes,
           Len(consumed[Peer(n)]) + 1 <= Len(posted[n])
    PROVE  LET next == Len(consumed[Peer(n)]) + 1 IN
           \/ \E i \in DOMAIN sendq[n] : sendq[n][i].data = posted[n][next]
           \/ /\ Repair(n, TRUE)
              /\ \E i \in Edge(n) + 1 .. Len(out[n]) : out[n][i].data = posted[n][next]
<1> DEFINE P == Len(posted[n])
           c == Len(consumed[Peer(n)])
           next == c + 1
           b == Behind(out[n], sendq[n], P)
<1>1. /\ out[n] \in Seq(Packets) /\ sendq[n] \in Seq(Packets)
      /\ P \in Nat /\ c \in Nat /\ P <= MaxPosted[n] /\ MaxPosted[n] \in Nat
      /\ MaxPosted[n] < Half /\ Half \in Nat
      /\ Len(out[n]) \in Nat /\ Len(sendq[n]) \in Nat
      /\ DOMAIN out[n] = 1 .. Len(out[n]) /\ DOMAIN sendq[n] = 1 .. Len(sendq[n])
      /\ outSeqno[n] = Num(P) /\ next <= P
  BY Typed, PeerFacts, InboxAssumption DEF StreamInv, Streams
<1>2. /\ Numbered(out[n], sendq[n], P) /\ \E j \in b .. c : outWindow[n] = Num(j)
  BY DEF SendOK, Sending
<1>3. PICK j \in b .. c : outWindow[n] = Num(j)
  BY <1>2
<1>4. b \in Int /\ b >= 0 /\ (b + Len(out[n])) + Len(sendq[n]) = P
  <2> DEFINE o == Len(out[n])
             q == Len(sendq[n])
  <2>1. b = P - o - q /\ b >= 0
    BY <1>2 DEF Numbered, Behind
  <2>2. P \in Nat /\ o \in Nat /\ q \in Nat
    BY <1>1
  <2> HIDE DEF P, b, o, q
  <2>3. b \in Int /\ b >= 0 /\ (b + o) + q = P
    BY <2>1, <2>2
  <2> QED
    BY <2>3 DEF o, q
<1>5. ASSUME NEW q, SentData(n, q), NEW k \in 1 .. Len(q), q[k].src_seqno = Num(next)
      PROVE  q[k].data = posted[n][next]
  <2>1. PICK x \in 0 .. P : q[k].src_seqno = Num(x) /\ q[k].data = posted[n][x]
    BY <1>5 DEF SentData, Sent, Genuine
  <2> HIDE DEF c, P
  <2>2. x \in Nat /\ x < SeqnoMod /\ next \in Nat /\ next < SeqnoMod
    BY <1>1 DEF SeqnoMod
  <2>3. x = next
    <3> HIDE DEF next
    <3> QED
      BY <1>5, <2>1, <2>2, Numbers
  <2> QED
    BY <2>1, <2>3
<1>6. SentData(n, out[n]) /\ SentData(n, sendq[n])
  BY DEF StreamInv, PacketsOK
<1> HIDE DEF P, c, b
<1>7. CASE next > b + Len(out[n])
  <2> DEFINE i == next - (b + Len(out[n]))
  <2>1. i \in 1 .. Len(sendq[n]) /\ (b + Len(out[n])) + i = next
    <3> DEFINE o == b + Len(out[n])
               q == Len(sendq[n])
    <3>1. next \in Int /\ o \in Int /\ q \in Nat /\ P \in Nat
      BY <1>1, <1>4
    <3>2. next <= P /\ o + q = P /\ next > o /\ i = next - o
      BY <1>1, <1>4, <1>7
    <3> HIDE DEF next, o, q, i
    <3>3. i \in 1 .. q /\ o + i = next
      BY <3>1, <3>2
    <3> QED
      BY <3>3 DEF o, q
  <2> HIDE DEF i, next
  <2>2. sendq[n][i].src_seqno = Num(next)
    <3>1. sendq[n][i].src_seqno = Num(b + Len(out[n]) + i)
      BY <1>2, <2>1 DEF Numbered, b
    <3> QED
      BY <2>1, <3>1
  <2>3. sendq[n][i].data = posted[n][next]
    BY <1>5, <1>6, <2>1, <2>2
  <2> QED
    BY <1>1, <2>1, <2>3 DEF next, c
<1>8. CASE ~(next > b + Len(out[n]))
  <2> DEFINE i == next - b
             S == {0} \union {y \in DOMAIN out[n] :
                                 seqno_cmp(out[n][y].src_seqno, outWindow[n]) <= 0}
  <2>1. i \in 1 .. Len(out[n]) /\ b + i = next
    BY <1>1, <1>3, <1>4, <1>8
  <2>2. out[n][i].src_seqno = Num(next)
    <3> HIDE DEF i, next
    <3>1. out[n][i].src_seqno = Num(b + i)
      BY <1>2, <2>1 DEF Numbered, b
    <3> QED
      BY <2>1, <3>1
  <2>3. out[n][i].data = posted[n][next]
    <3> HIDE DEF i, next
    <3> QED
      BY <1>5, <1>6, <2>1, <2>2
  <2>4. \A y \in S : y <= j - b
    <3> TAKE y \in S
    <3>1. CASE y = 0
      BY <1>1, <1>3, <1>4, <3>1
    <3>2. CASE y # 0
      <4>1. y \in 1 .. Len(out[n]) /\ seqno_cmp(out[n][y].src_seqno, Num(j)) <= 0
        BY <1>1, <1>3, <3>2
      <4>2. P \in 0 .. MaxPosted[n] /\ j \in b .. P
        BY <1>1, <1>3, <1>4
      <4>3. seqno_cmp(out[n][y].src_seqno, Num(j)) = b + y - j
        BY <1>1, <1>2, <4>1, <4>2, Covered DEF b
      <4> QED
        BY <1>3, <1>4, <4>1, <4>3
    <3> QED
      BY <3>1, <3>2
  <2>5. Edge(n) = Max(S) /\ Max(S) \in S
    <3>1. S \subseteq 0 .. Len(out[n]) /\ S # {}
      BY <1>1
    <3>2. Edge(n) = Max(S)
      BY DEF Edge
    <3> HIDE DEF S
    <3> QED
      BY <1>1, <3>1, <3>2, MaxFact
  <2>6. Edge(n) <= j - b /\ Edge(n) \in 0 .. Len(out[n])
    <3>1. S \subseteq 0 .. Len(out[n])
      BY <1>1
    <3> HIDE DEF S
    <3> QED
      BY <2>4, <2>5, <3>1
  <2>7. i \in Edge(n) + 1 .. Len(out[n]) /\ Edge(n) < Len(out[n])
    BY <1>1, <1>3, <1>4, <2>1, <2>6
  <2>8. seqno_cmp(outSeqno[n], outWindow[n]) > 0
    <3>1. P \in 0 .. MaxPosted[n] /\ j \in 0 .. MaxPosted[n] /\ P - j > 0
      BY <1>1, <1>3, <1>4
    <3>2. seqno_cmp(Num(P), Num(j)) = P - j
      BY <3>1, CmpExact
    <3> QED
      BY <1>1, <1>3, <3>1, <3>2
  <2>9. Repair(n, TRUE)
    BY <2>7, <2>8 DEF Repair
  <2> HIDE DEF i
  <2> QED
    BY <2>3, <2>7, <2>9 DEF c
<1> QED
  BY <1>7, <1>8

-----------------------------------------------------------------------------
(* The theorems on messages, types and repair                              *)

(* The state keeps its types, whatever the build makes of seqno_cmp: the   *)
(* numbers stay within their width, and so does what process and           *)
(* dispatch_frag_msg keep and deliver.                                     *)
THEOREM InboxTypes == Spec => []TypeOK
<1>1. StreamInv /\ MessagesOK /\ RestTypes => TypeOK
  BY DEF StreamInv, StreamTypes, MessagesOK, RestTypes, TypeOK
<1> QED
  BY StreamInit, StreamNext, MessagesInit, MessagesNext, RestInit, RestNext, <1>1, PTL
  DEF Spec

(* For every way to split messages into packets, bound and network:        *)
(* dispatch_frag_msg delivers the k-th message a peer posted as the k-th,  *)
(* with all its fragments and none of another message.                     *)
THEOREM DeliveredWhole == Spec => []MessagesIntact
<1>1. StreamInv /\ MessagesOK => MessagesIntact
  <2> SUFFICES ASSUME StreamInv, MessagesOK, NEW n \in Nodes,
                      NEW k \in 1 .. Len(delivered[n])
               PROVE  delivered[n][k] = Message(Peer(n), k)
    BY DEF MessagesIntact
  <2> DEFINE p == Peer(n)
             c == Len(consumed[n])
             m == delivered[n][k]
  <2>1. /\ p \in Nodes /\ posted[p] \in Seq(Data) /\ Whole(posted[p])
        /\ c \in Nat /\ Len(posted[p]) \in Nat /\ c <= Len(posted[p])
    BY PeerFacts, Typed DEF StreamInv, Streams, MessagesOK
  <2>2. Assembled(posted[p], c, Carried(n)) /\ Carried(n).msgs = delivered[n]
    BY DEF MessagesOK, Carried
  <2>3. PICK e \in 1 .. c : /\ posted[p][e].msg = k /\ posted[p][e].kind # "fragment"
                            /\ Len(m) = posted[p][e].part /\ Piece(m, posted[p], e)
    <3>1. k \in 1 .. Len(Carried(n).msgs) /\ m = Carried(n).msgs[k]
      BY <2>2
    <3> HIDE DEF m
    <3> QED
      BY <2>2, <3>1 DEF Assembled
  <2>4. m \in Seq(Data)
    BY ElementOfSeq DEF MessagesOK
  <2>5. e \in 1 .. Len(posted[p])
    BY <2>1
  <2> HIDE DEF m, p
  <2>6. m = Message(p, k)
    BY <2>1, <2>3, <2>4, <2>5, MessagePiece
  <2> QED
    BY <2>6 DEF m, p
<1> QED
  BY StreamInit, StreamNext, MessagesInit, MessagesNext, <1>1, PTL DEF Spec

(* As long as the signed numbers do not overflow and the poll loop writes  *)
(* a queue before the timer expires: the packet the peer waits for is      *)
(* about to be written, or among those that repair_window retransmits.     *)
THEOREM AlwaysRepairable ==
    ASSUME NoOverflow, WriteFirst PROVE Spec => []Repairable
<1>1. StreamInv /\ SendOK => Repairable
  BY NextInReach DEF Repairable
<1> QED
  BY StreamInit, StreamNext, RestInit, RestNext, SendInit, SendNext, <1>1, PTL DEF Spec
=============================================================================

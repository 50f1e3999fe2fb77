---------------------------- MODULE MsgSeqnoProof ----------------------------
(***************************************************************************)
(* Proofs about MsgSeqno: the numbers of a publisher increase; what        *)
(* match_seqno reports of a message is what happened to the ones before    *)
(* it; and a subscription is given the messages in their order.            *)
(***************************************************************************)
EXTENDS MsgSeqno, SequenceTheorems, TLAPS

USE DEF None

-----------------------------------------------------------------------------
(* Frames                                                                  *)

(* Division with remainder. *)
LEMMA Division ==
    ASSUME NEW a \in Nat, NEW n \in Nat \ {0}
    PROVE  /\ a \div n \in Nat
           /\ a % n \in Nat /\ a % n < n
           /\ a = n * (a \div n) + (a % n)
    OBVIOUS

(* A multiple of n is at least n away from the next. *)
LEMMA Multiples ==
    ASSUME NEW n \in Nat \ {0}, NEW x \in Nat, NEW y \in Nat, x < y
    PROVE  n * x + n <= n * y
    OBVIOUS

(* A later time or a larger number is not in an earlier frame. *)
LEMMA DivMonotone ==
    ASSUME NEW a \in Nat, NEW b \in Nat, NEW n \in Nat \ {0}, a <= b
    PROVE  a \div n <= b \div n
  <1>1. SUFFICES ASSUME b \div n < a \div n PROVE FALSE
    BY Division
  <1>2. n * (b \div n) + n <= n * (a \div n)
    BY <1>1, Multiples, Division
  <1> QED
    BY <1>2, Division

(* A whole frame later it is a later frame. *)
LEMMA DivNextFrame ==
    ASSUME NEW a \in Nat, NEW b \in Nat, NEW n \in Nat \ {0}, a + n <= b
    PROVE  a \div n < b \div n
    OBVIOUS

(* The first number of a frame is in the frame. *)
LEMMA FirstOfFrame ==
    ASSUME NEW q \in Nat, NEW n \in Nat \ {0, 1}
    PROVE  (q * n + 1) \div n = q
    OBVIOUS

(* A number that is not the first of a frame shares it with the one before. *)
LEMMA SameFrame ==
    ASSUME NEW a \in Nat, NEW n \in Nat \ {0}, (a + 1) % n # 0
    PROVE  (a + 1) \div n = a \div n
    OBVIOUS

(* What MsgSeqno uses of these: frames of times and of numbers. *)
LEMMA Frames ==
    ASSUME NEW a \in Nat, NEW b \in Nat
    PROVE  /\ time_frame(a) \in Nat /\ seqno_frame(a) \in Nat
           /\ seqno_init(a) \in Nat
           /\ a <= b => time_frame(a) <= time_frame(b)
           /\ a + PubIval <= b => time_frame(a) < time_frame(b)
           /\ seqno_frame(a) < seqno_frame(b) => a < b
           /\ seqno_frame(seqno_init(a) + 1) = time_frame(a)
           /\ seqno_base(a + 1) # 0 => seqno_frame(a + 1) = seqno_frame(a)
           /\ a <= b => seqno_frame(a) <= seqno_frame(b)
           /\ a >= FrameTime => time_frame(a) >= 1
           /\ seqno_frame(0) = 0
  <1>1. /\ time_frame(a) \in Nat /\ seqno_frame(a) \in Nat
        /\ time_frame(b) \in Nat /\ seqno_frame(b) \in Nat
    BY Division, MsgSeqnoAssumption DEF time_frame, seqno_frame
  <1>2. seqno_init(a) \in Nat
    BY <1>1, MsgSeqnoAssumption DEF seqno_init
  <1>3. a <= b => time_frame(a) <= time_frame(b)
    BY DivMonotone, MsgSeqnoAssumption DEF time_frame
  <1>4. a + PubIval <= b => time_frame(a) < time_frame(b)
    BY DivNextFrame, MsgSeqnoAssumption DEF time_frame
  <1>5. seqno_frame(a) < seqno_frame(b) => a < b
    <2>1. b <= a => seqno_frame(b) <= seqno_frame(a)
      BY DivMonotone, MsgSeqnoAssumption DEF seqno_frame
    <2> QED
      BY <2>1, <1>1
  <1>6. seqno_frame(seqno_init(a) + 1) = time_frame(a)
    BY <1>1, FirstOfFrame, MsgSeqnoAssumption DEF seqno_frame, seqno_init
  <1>7. seqno_base(a + 1) # 0 => seqno_frame(a + 1) = seqno_frame(a)
    BY SameFrame, MsgSeqnoAssumption DEF seqno_frame, seqno_base
  <1>8. a <= b => seqno_frame(a) <= seqno_frame(b)
    BY DivMonotone, MsgSeqnoAssumption DEF seqno_frame
  <1>9. a >= FrameTime => time_frame(a) >= 1
    <2>1. a >= FrameTime => 0 \div FrameTime < a \div FrameTime
      BY DivNextFrame, MsgSeqnoAssumption
    <2>2. 0 \div FrameTime \in Nat
      BY Division, MsgSeqnoAssumption
    <2> QED
      BY <1>1, <2>1, <2>2 DEF time_frame
  <1>10. seqno_frame(0) = 0
    BY MsgSeqnoAssumption DEF seqno_frame
  <1> QED
    BY <1>1, <1>2, <1>3, <1>4, <1>5, <1>6, <1>7, <1>8, <1>9, <1>10

(* A message that was sent, and the last one. *)
LEMMA Sent ==
    ASSUME PubTypeOK, NEW p \in Pubs
    PROVE  /\ Len(sent[p]) \in Nat
           /\ \A i \in 1 .. Len(sent[p]) :
                 /\ sent[p][i] \in Message
                 /\ sent[p][i].seqno \in Nat /\ sent[p][i].time \in Nat
                 /\ sent[p][i].chain \in Nat
           /\ sent[p] # << >> => Len(sent[p]) \in 1 .. Len(sent[p])
  <1>1. sent[p] \in Seq(Message)
    BY DEF PubTypeOK
  <1>2. Len(sent[p]) \in Nat
    BY <1>1, LenProperties
  <1>3. \A i \in 1 .. Len(sent[p]) : sent[p][i] \in Message
    BY <1>1, ElementOfSeq
  <1>4. \A m \in Message : m.seqno \in Nat /\ m.time \in Nat /\ m.chain \in Nat
    BY DEF Message
  <1>5. sent[p] # << >> => Len(sent[p]) # 0
    BY <1>1, EmptySeq
  <1> QED
    BY <1>2, <1>3, <1>4, <1>5

-----------------------------------------------------------------------------
(* The inductive invariant                                                 *)

(* the last number a publisher used *)
High(p) == sent[p][Len(sent[p])].seqno

(* The window holds the last number, or the frame has moved on since: an   *)
(* entry leaves pub for pub_old at a flip and pub_old at the next one, a   *)
(* window later.                                                           *)
WindowOK(p) ==
    IF sent[p] = << >>
      THEN pubTab[p].pub = None /\ pubTab[p].old = None
      ELSE /\ seqno_frame(High(p)) <= time_frame(timer[p])
           /\ pubTab[p].pub # None => pubTab[p].pub = High(p)
           /\ pubTab[p].pub = None /\ pubTab[p].old # None =>
                 /\ pubTab[p].old = High(p)
                 /\ seqno_frame(High(p)) <= time_frame(pubMark[p] - PubIval)
           /\ pubTab[p].pub = None /\ pubTab[p].old = None =>
                 seqno_frame(High(p)) < time_frame(timer[p])

(* What the numbers tell: within a frame they count the messages, and the  *)
(* chain of a message is the number of the one before it.                  *)
SentOK(p) ==
    \A i \in 1 .. Len(sent[p]) :
        /\ seqno_frame(sent[p][i].seqno) >= 1
        /\ sent[p][i].time >= Start /\ sent[p][i].time <= timer[p]
        /\ sent[p][i].chain # None =>
              i > 1 /\ sent[p][i].chain = sent[p][i - 1].seqno
        /\ \A j \in 1 .. Len(sent[p]) : i < j =>
              /\ sent[p][i].time <= sent[p][j].time
              /\ seqno_frame(sent[p][i].seqno) = seqno_frame(sent[p][j].seqno) =>
                    sent[p][j].seqno - sent[p][i].seqno = j - i

PubInv ==
    /\ PubTypeOK
    /\ \A p \in Pubs : WindowOK(p)
    /\ \A p \in Pubs : SentOK(p)
    /\ SeqnoIncreases

(* It holds at the start: nothing is sent and the window is empty. *)
LEMMA PubInit == Init => PubInv
  <1> SUFFICES ASSUME Init PROVE PubInv
    OBVIOUS
  <1>1. PubTypeOK
    BY MsgSeqnoAssumption DEF Init, PubTypeOK
  <1>2. \A p \in Pubs : WindowOK(p)
    BY DEF Init, WindowOK
  <1>3. SeqnoIncreases
    BY DEF Init, SeqnoIncreases
  <1>4. \A p \in Pubs : SentOK(p)
    BY DEF Init, SentOK
  <1> QED
    BY <1>1, <1>2, <1>3, <1>4 DEF PubInv

(* A step that leaves the publishers alone keeps it, as time goes on. *)
LEMMA PubUnchanged ==
    ASSUME PubInv, UNCHANGED publisher, now' \in Nat, now <= now'
    PROVE  PubInv'
  <1>1. PubTypeOK'
    BY MsgSeqnoAssumption DEF PubInv, PubTypeOK, publisher
  <1>2. (\A p \in Pubs : WindowOK(p))'
    BY DEF PubInv, WindowOK, High, publisher
  <1>3. SeqnoIncreases'
    BY DEF PubInv, SeqnoIncreases, publisher
  <1>4. (\A p \in Pubs : SentOK(p))'
    BY DEF PubInv, SentOK, publisher
  <1> QED
    BY <1>1, <1>2, <1>3, <1>4 DEF PubInv

(* The number next_seqno gives is larger than the last one, and in a frame *)
(* the timer has reached: the next number in the frame of the last one, or *)
(* one in the current frame, which names the last one if the window has it. *)
LEMMA NextIsHigher ==
    ASSUME PubTypeOK, NEW p \in Pubs, WindowOK(p),
           FrameLasts(Windowed(pubTab[p]), timer[p])
    PROVE  LET m == next_seqno(Windowed(pubTab[p]), timer[p])
           IN  /\ m \in Message
               /\ m.seqno # None
               /\ sent[p] # << >> => m.seqno > High(p)
               /\ seqno_frame(m.seqno) <= time_frame(timer[p])
               /\ m.time = timer[p]
               /\ m.chain # None => sent[p] # << >> /\ m.chain = High(p)
               /\ \/ /\ seqno_frame(m.seqno) = time_frame(timer[p])
                     /\ sent[p] # << >> =>
                           seqno_frame(High(p)) < seqno_frame(m.seqno)
                  \/ sent[p] # << >> /\ m.seqno = High(p) + 1
                     /\ seqno_frame(m.seqno) = seqno_frame(High(p))
  <1> DEFINE last == Windowed(pubTab[p])
             time == timer[p]
             m == next_seqno(last, time)
  <1>1. /\ last \in Nat /\ time \in Nat /\ time >= PubIval
        /\ pubTab[p].pub \in Nat /\ pubTab[p].old \in Nat
    BY MsgSeqnoAssumption DEF PubTypeOK, Windowed
  <1>2. sent[p] # << >> => High(p) \in Nat
    BY Sent DEF High
  <1>3. /\ time_frame(time) \in Nat /\ seqno_init(time) \in Nat
        /\ time_frame(time - PubIval) < time_frame(time)
        /\ time_frame(time - PubIval) \in Nat
        /\ seqno_frame(seqno_init(time) + 1) = time_frame(time)
    BY <1>1, Frames, MsgSeqnoAssumption
  <1>4. CASE last = None
    <2>1. m = [seqno |-> seqno_init(time) + 1, time |-> time, chain |-> last]
      BY <1>4 DEF next_seqno, Numbered
    <2>2. sent[p] # << >> => seqno_frame(High(p)) < time_frame(time)
      BY <1>1, <1>4 DEF WindowOK, Windowed
    <2>3. sent[p] # << >> => High(p) < seqno_init(time) + 1
      BY <1>2, <1>3, <2>2, Frames
    <2>4. m \in Message /\ m.seqno # None
      BY <1>1, <1>3, <2>1 DEF Message
    <2>5. sent[p] # << >> => m.seqno > High(p)
      BY <1>2, <1>3, <2>1, <2>3
    <2>6. /\ seqno_frame(m.seqno) = time_frame(timer[p])
          /\ seqno_frame(m.seqno) <= time_frame(timer[p])
      BY <1>3, <2>1
    <2>7. m.time = timer[p] /\ m.chain = None
      BY <1>4, <2>1
    <2> QED
      BY <2>2, <2>4, <2>5, <2>6, <2>7
  <1>5. CASE last # None
    <2>1. sent[p] # << >> /\ last = High(p)
      BY <1>1, <1>5 DEF WindowOK, Windowed
    <2>2. seqno_frame(last) \in Nat /\ seqno_frame(last) <= time_frame(time)
      BY <1>1, <2>1, Frames DEF WindowOK
    <2>3. CASE \/ seqno_frame(last) <= time_frame(time - PubIval)
               \/ seqno_base(last + 1) = 0
      <3>1. m = [seqno |-> seqno_init(time) + 1, time |-> time, chain |-> last]
        BY <2>3 DEF next_seqno, Numbered
      <3>2. seqno_frame(last) < time_frame(time)
        BY <1>3, <2>2, <2>3 DEF FrameLasts
      <3>3. last < seqno_init(time) + 1
        BY <1>1, <1>3, <3>2, Frames
      <3> QED
        BY <1>1, <1>3, <2>1, <3>1, <3>2, <3>3 DEF Message
    <2>4. CASE ~(\/ seqno_frame(last) <= time_frame(time - PubIval)
                 \/ seqno_base(last + 1) = 0)
      <3>1. m = [seqno |-> last + 1, time |-> time, chain |-> None]
        BY <1>5, <2>4 DEF next_seqno, Numbered
      <3>2. seqno_frame(last + 1) = seqno_frame(last)
        BY <1>1, <2>4, Frames
      <3> QED
        BY <1>1, <2>1, <2>2, <3>1, <3>2 DEF Message
    <2> QED
      BY <2>3, <2>4
  <1> QED
    BY <1>1, <1>4, <1>5

(* forward_ipc appends that number. *)
LEMMA PubForward ==
    ASSUME PubInv, NEW p \in Pubs, forward_ipc(p)
    PROVE  PubInv'
  <1> DEFINE m == next_seqno(Windowed(pubTab[p]), timer[p])
  <1>1. /\ sent' = [sent EXCEPT ![p] = Append(@, m)]
        /\ pubTab' = [pubTab EXCEPT ![p].pub = m.seqno]
        /\ UNCHANGED <<now, timer, pubMark>>
    BY DEF forward_ipc, Send
  <1>2. /\ m \in Message /\ m.seqno # None
        /\ sent[p] # << >> => m.seqno > High(p)
        /\ seqno_frame(m.seqno) <= time_frame(timer[p])
        /\ m.time = timer[p]
        /\ m.chain # None => sent[p] # << >> /\ m.chain = High(p)
        /\ \/ /\ seqno_frame(m.seqno) = time_frame(timer[p])
              /\ sent[p] # << >> => seqno_frame(High(p)) < seqno_frame(m.seqno)
           \/ sent[p] # << >> /\ m.seqno = High(p) + 1
              /\ seqno_frame(m.seqno) = seqno_frame(High(p))
    BY NextIsHigher DEF PubInv, forward_ipc
  <1> HIDE DEF m
  <1>3. \A q \in Pubs : sent[q] \in Seq(Message)
    BY DEF PubInv, PubTypeOK
  <1>4. PubTypeOK'
    <2>1. Append(sent[p], m) \in Seq(Message)
      BY <1>2, <1>3, AppendProperties
    <2>2. sent' \in [Pubs -> Seq(Message)]
      BY <1>1, <2>1 DEF PubInv, PubTypeOK
    <2>3. pubTab' \in [Pubs -> [pub : Nat, old : Nat]]
      BY <1>1, <1>2 DEF PubInv, PubTypeOK, Message
    <2> QED
      BY <1>1, <2>2, <2>3 DEF PubInv, PubTypeOK
  <1>5. /\ sent'[p] \in Seq(Message) /\ Len(sent'[p]) = Len(sent[p]) + 1
        /\ sent'[p][Len(sent[p]) + 1] = m
        /\ \A i \in 1 .. Len(sent[p]) : sent'[p][i] = sent[p][i]
    <2>1. sent'[p] = Append(sent[p], m)
      BY <1>1 DEF PubInv, PubTypeOK
    <2> QED
      BY <1>2, <1>3, <2>1, AppendProperties
  <1>6. \A q \in Pubs : q # p => sent'[q] = sent[q] /\ pubTab'[q] = pubTab[q]
    BY <1>1 DEF PubInv, PubTypeOK
  <1>7. (\A q \in Pubs : WindowOK(q))'
    <2> SUFFICES ASSUME NEW q \in Pubs PROVE WindowOK(q)'
      OBVIOUS
    <2>1. CASE q # p
      BY <1>1, <1>6, <2>1 DEF PubInv, WindowOK, High
    <2>2. CASE q = p
      <3>1. sent'[p] # << >> /\ High(p)' = m.seqno
        BY <1>3, <1>5 DEF High
      <3>2. pubTab'[p].pub = m.seqno
        BY <1>1 DEF PubInv, PubTypeOK
      <3> QED
        BY <1>1, <1>2, <2>2, <3>1, <3>2 DEF WindowOK
    <2> QED
      BY <2>1, <2>2
  <1>8. SeqnoIncreases'
    <2> SUFFICES ASSUME NEW q \in Pubs, NEW i \in 1 .. Len(sent'[q]),
                        NEW j \in 1 .. Len(sent'[q]), i < j
                 PROVE  sent'[q][i].seqno < sent'[q][j].seqno
      BY DEF SeqnoIncreases
    <2>1. CASE q # p
      BY <1>6, <2>1 DEF PubInv, SeqnoIncreases
    <2>2. CASE q = p
      <3> DEFINE n == Len(sent[p])
      <3>1. n \in Nat /\ i \in 1 .. n + 1 /\ j \in 1 .. n + 1
        BY <1>5, <2>2, Sent DEF PubInv
      <3>2. CASE j # n + 1
        <4>1. i \in 1 .. n /\ j \in 1 .. n
          BY <3>1, <3>2
        <4> QED
          BY <1>5, <2>2, <4>1 DEF PubInv, SeqnoIncreases
      <3>3. CASE j = n + 1
        <4>1. i \in 1 .. n /\ n \in 1 .. n
          BY <3>1, <3>3
        <4>2. sent[p] # << >> /\ m.seqno > sent[p][n].seqno
          BY <1>2, <1>3, <4>1, EmptySeq DEF High
        <4>3. i < n => sent[p][i].seqno < sent[p][n].seqno
          BY <4>1 DEF PubInv, SeqnoIncreases
        <4>4. sent[p][i].seqno \in Nat /\ sent[p][n].seqno \in Nat
          BY <4>1, Sent DEF PubInv
        <4>5. m.seqno \in Nat
          BY <1>2 DEF Message
        <4>6. i = n \/ i < n
          BY <4>1
        <4>7. sent[p][i].seqno < m.seqno
          BY <4>2, <4>3, <4>4, <4>5, <4>6
        <4> QED
          BY <1>5, <2>2, <3>3, <4>1, <4>7
      <3> QED
        BY <3>2, <3>3
    <2> QED
      BY <2>1, <2>2
  <1>9. (\A q \in Pubs : SentOK(q))'
    <2> SUFFICES ASSUME NEW q \in Pubs PROVE SentOK(q)'
      OBVIOUS
    <2>1. CASE q # p
      <3>1. SentOK(q) /\ sent'[q] = sent[q] /\ timer' = timer
        BY <1>1, <1>6, <2>1 DEF PubInv
      <3> QED
        BY <3>1 DEF SentOK
    <2>2. CASE q = p
      <3> DEFINE n == Len(sent[p])
                 s(k) == sent[p][k]
                 fr(k) == seqno_frame(sent[p][k].seqno)
      <3>1. n \in Nat /\ Len(sent'[p]) = n + 1 /\ (sent[p] # << >> => n >= 1)
        BY <1>5, Sent DEF PubInv
      <3>2. \A k \in 1 .. n : /\ s(k).seqno \in Nat /\ s(k).time \in Nat
                              /\ s(k).chain \in Nat /\ fr(k) \in Nat
        BY Sent, Frames DEF PubInv
      <3>3. /\ m.seqno \in Nat /\ m.time \in Nat /\ m.chain \in Nat
            /\ seqno_frame(m.seqno) \in Nat
        BY <1>2, Frames DEF Message
      <3>4. timer[p] \in Nat /\ timer[p] >= Start /\ timer'[p] = timer[p]
        <4>1. timer[p] \in Start .. now /\ now \in Nat /\ timer' = timer
          BY <1>1 DEF PubInv, PubTypeOK
        <4> QED
          BY <4>1, MsgSeqnoAssumption
      <3>5. \A k \in 1 .. n :
               /\ fr(k) >= 1 /\ s(k).time >= Start /\ s(k).time <= timer[p]
               /\ s(k).chain # None => k > 1 /\ s(k).chain = s(k - 1).seqno
               /\ \A j \in 1 .. n : k < j =>
                     /\ s(k).time <= s(j).time
                     /\ fr(k) = fr(j) => s(j).seqno - s(k).seqno = j - k
        BY DEF PubInv, SentOK
      <3>6. n >= 1 => sent[p] # << >> /\ High(p) = s(n).seqno /\ n \in 1 .. n
        BY <1>3, <3>1, EmptySeq DEF High
      <3>7. \A k \in 1 .. n : n >= 1 /\ fr(k) <= fr(n)
        <4> SUFFICES ASSUME NEW k \in 1 .. n PROVE n >= 1 /\ fr(k) <= fr(n)
          OBVIOUS
        <4>1. n >= 1 /\ (k = n \/ k < n) /\ n \in 1 .. n
          BY <3>1
        <4>2. k < n => s(k).seqno < s(n).seqno
          BY <4>1 DEF PubInv, SeqnoIncreases
        <4>3. s(k).seqno <= s(n).seqno => fr(k) <= fr(n)
          BY <3>2, <4>1, Frames
        <4> QED
          BY <3>2, <4>1, <4>2, <4>3
      <3>8. seqno_frame(m.seqno) >= 1
        <4>1. time_frame(timer[p]) >= 1
          BY <3>4, Frames, MsgSeqnoAssumption
        <4>2. sent[p] # << >> => seqno_frame(High(p)) >= 1
          BY <3>1, <3>5, <3>6
        <4> QED
          BY <1>2, <4>1, <4>2
      <3>9. /\ sent'[p][n + 1] = m
            /\ \A k \in 1 .. n : sent'[p][k] = s(k)
        BY <1>5
      <3> HIDE DEF n
      <3>10. ASSUME NEW i \in 1 .. n + 1
             PROVE  /\ seqno_frame(sent'[p][i].seqno) >= 1
                    /\ sent'[p][i].time >= Start /\ sent'[p][i].time <= timer'[p]
                    /\ sent'[p][i].chain # None =>
                          i > 1 /\ sent'[p][i].chain = sent'[p][i - 1].seqno
        <4>1. CASE i = n + 1
          <5>1. m.chain # None => n >= 1 /\ m.chain = s(n).seqno
            BY <1>2, <3>1, <3>6
          <5>2. n >= 1 => n + 1 > 1 /\ sent'[p][(n + 1) - 1] = s(n)
            BY <3>1, <3>9
          <5> QED
            BY <1>2, <3>1, <3>3, <3>4, <3>8, <3>9, <4>1, <5>1, <5>2
        <4>2. CASE i # n + 1
          <5>1. i \in 1 .. n /\ (i > 1 => i - 1 \in 1 .. n)
            BY <3>1, <4>2
          <5> QED
            BY <3>4, <3>5, <3>9, <5>1
        <4> QED
          BY <4>1, <4>2
      <3>11. ASSUME NEW i \in 1 .. n + 1, NEW j \in 1 .. n + 1, i < j
             PROVE  /\ sent'[p][i].time <= sent'[p][j].time
                    /\ seqno_frame(sent'[p][i].seqno) = seqno_frame(sent'[p][j].seqno)
                          => sent'[p][j].seqno - sent'[p][i].seqno = j - i
        <4>1. i \in 1 .. n /\ sent'[p][i] = s(i)
          BY <3>1, <3>9, <3>11
        <4>2. CASE j # n + 1
          <5>1. j \in 1 .. n /\ sent'[p][j] = s(j)
            BY <3>1, <3>9, <4>2
          <5> QED
            BY <3>5, <3>11, <4>1, <5>1
        <4>3. CASE j = n + 1
          <5>1. sent'[p][j] = m /\ n \in 1 .. n /\ sent[p] # << >> /\ High(p) = s(n).seqno
            BY <3>1, <3>6, <3>9, <4>1, <4>3
          <5>2. s(i).time <= m.time
            BY <1>2, <3>5, <4>1
          <5>3. ASSUME fr(i) = seqno_frame(m.seqno)
                PROVE  m.seqno - s(i).seqno = j - i
            <6>1. fr(i) <= fr(n) /\ fr(n) \in Nat /\ fr(i) \in Nat
              BY <3>2, <3>7, <4>1, <5>1
            <6>2. m.seqno = s(n).seqno + 1 /\ fr(i) = fr(n)
              BY <1>2, <3>3, <5>1, <5>3, <6>1
            <6>3. i < n => s(n).seqno - s(i).seqno = n - i
              BY <3>5, <4>1, <5>1, <6>2
            <6>4. s(n).seqno \in Nat /\ s(i).seqno \in Nat
              BY <3>2, <4>1, <5>1
            <6>5. i = n \/ i < n
              BY <3>1, <4>1
            <6> QED
              <7> DEFINE a == s(n).seqno
                         b == s(i).seqno
              <7>1. a \in Nat /\ b \in Nat /\ (i < n => a - b = n - i) /\ (i = n => a = b)
                BY <6>3, <6>4
              <7>2. m.seqno = a + 1
                BY <6>2
              <7> HIDE DEF a, b
              <7>3. (a + 1) - b = (n + 1) - i
                BY <3>1, <4>1, <6>5, <7>1
              <7> QED
                BY <4>3, <7>2, <7>3 DEF a, b
          <5> QED
            BY <4>1, <5>1, <5>2, <5>3
        <4> QED
          BY <4>2, <4>3
      <3> QED
        BY <2>2, <3>1, <3>10, <3>11 DEF SentOK, n
    <2> QED
      BY <2>1, <2>2
  <1> QED
    BY <1>4, <1>7, <1>8, <1>9 DEF PubInv

(* timer_expire: the flip drops an entry only when its frame is over. *)
LEMMA PubTimer ==
    ASSUME PubInv, NEW p \in Pubs, NEW flip \in BOOLEAN, PubTimerExpire(p, flip)
    PROVE  PubInv'
  <1>1. /\ timer' = [timer EXCEPT ![p] = now]
        /\ UNCHANGED <<now, sent>>
        /\ \/ /\ now > pubMark[p]
              /\ pubTab' = [pubTab EXCEPT ![p] = [pub |-> None, old |-> pubTab[p].pub]]
              /\ pubMark' = [pubMark EXCEPT ![p] = now + PubIval]
           \/ UNCHANGED <<pubTab, pubMark>>
    BY DEF PubTimerExpire, FlippedPub, PubInv, PubTypeOK
  <1>2. /\ now \in Nat /\ timer[p] \in Nat /\ timer[p] <= now /\ Start <= timer[p]
        /\ pubMark[p] \in Nat /\ pubMark[p] >= PubIval /\ Start + PubIval <= pubMark[p]
        /\ PubIval \in Nat /\ Start \in Nat
    BY MsgSeqnoAssumption DEF PubInv, PubTypeOK
  <1>3. PubTypeOK'
    <2>1. pubTab[p].pub \in Nat /\ pubTab[p].old \in Nat
      BY DEF PubInv, PubTypeOK
    <2>2. timer' \in [Pubs -> Start .. now]
      BY <1>1, <1>2 DEF PubInv, PubTypeOK
    <2>3. pubTab' \in [Pubs -> [pub : Nat, old : Nat]]
      <3>1. [pub |-> None, old |-> pubTab[p].pub] \in [pub : Nat, old : Nat]
        BY <2>1
      <3> QED
        BY <1>1, <3>1 DEF PubInv, PubTypeOK
    <2>4. now + PubIval \in Start + PubIval .. now + PubIval
      BY <1>2
    <2>5. pubMark' \in [Pubs -> Start + PubIval .. now + PubIval]
      BY <1>1, <2>4 DEF PubInv, PubTypeOK
    <2> QED
      BY <1>1, <2>2, <2>3, <2>5 DEF PubInv, PubTypeOK
  <1>4. SeqnoIncreases'
    BY <1>1 DEF PubInv, SeqnoIncreases
  <1>5. (\A q \in Pubs : WindowOK(q))'
    <2> SUFFICES ASSUME NEW q \in Pubs PROVE WindowOK(q)'
      OBVIOUS
    <2>1. CASE q # p
      BY <1>1, <2>1 DEF PubInv, PubTypeOK, WindowOK, High
    <2>2. CASE q = p
      <3>1. timer'[p] = now /\ sent'[p] = sent[p] /\ High(p)' = High(p) /\ WindowOK(p)
        BY <1>1 DEF PubInv, PubTypeOK, High
      <3>2. CASE sent[p] = << >>
        BY <1>1, <2>2, <3>1, <3>2 DEF WindowOK, PubInv, PubTypeOK
      <3>3. CASE sent[p] # << >>
        <4>1. High(p) \in Nat
          BY <3>3, Sent DEF High, PubInv
        <4>2. /\ seqno_frame(High(p)) \in Nat
              /\ time_frame(now) \in Nat /\ time_frame(timer[p]) \in Nat
              /\ time_frame(timer[p]) <= time_frame(now)
          BY <1>2, <4>1, Frames
        <4>3. seqno_frame(High(p)) <= time_frame(now)
          BY <3>1, <3>3, <4>2 DEF WindowOK
        <4>4. CASE UNCHANGED <<pubTab, pubMark>>
          BY <2>2, <3>1, <3>3, <4>2, <4>3, <4>4 DEF WindowOK
        <4>5. CASE /\ now > pubMark[p]
                   /\ pubTab' = [pubTab EXCEPT ![p] = [pub |-> None, old |-> pubTab[p].pub]]
                   /\ pubMark' = [pubMark EXCEPT ![p] = now + PubIval]
          <5>1. /\ pubTab'[p].pub = None /\ pubTab'[p].old = pubTab[p].pub
                /\ pubMark'[p] - PubIval = now
            BY <1>2, <4>5 DEF PubInv, PubTypeOK
          <5>2. /\ pubMark[p] - PubIval \in Nat
                /\ (pubMark[p] - PubIval) + PubIval <= now
            BY <1>2, <4>5
          <5>3. /\ time_frame(pubMark[p] - PubIval) \in Nat
                /\ time_frame(pubMark[p] - PubIval) < time_frame(now)
            BY <1>2, <5>2, Frames
          <5>4. pubTab[p].pub = None => seqno_frame(High(p)) < time_frame(now)
            BY <3>1, <3>3, <4>2, <5>3 DEF WindowOK
          <5>5. pubTab[p].pub # None => pubTab[p].pub = High(p)
            BY <3>1, <3>3 DEF WindowOK
          <5> QED
            BY <2>2, <3>1, <3>3, <4>3, <5>1, <5>4, <5>5 DEF WindowOK
        <4> QED
          BY <1>1, <4>4, <4>5
      <3> QED
        BY <3>2, <3>3
    <2> QED
      BY <2>1, <2>2
  <1>6. (\A q \in Pubs : SentOK(q))'
    <2> SUFFICES ASSUME NEW q \in Pubs PROVE SentOK(q)'
      OBVIOUS
    <2>1. timer[q] <= timer'[q] /\ timer[q] \in Nat /\ timer'[q] \in Nat
      BY <1>1, <1>2, MsgSeqnoAssumption DEF PubInv, PubTypeOK
    <2>2. \A i \in 1 .. Len(sent[q]) : sent[q][i].time \in Nat
      BY Sent DEF PubInv
    <2>3. SentOK(q)
      BY DEF PubInv
    <2> QED
      BY <1>1, <2>1, <2>2, <2>3 DEF SentOK
  <1> QED
    BY <1>3, <1>4, <1>5, <1>6 DEF PubInv

-----------------------------------------------------------------------------
(* The publishers                                                          *)

(* Every step keeps the invariant, when the console does not publish. *)
LEMMA PubNext ==
    ASSUME ~Console, PubInv, [Next]_vars
    PROVE  PubInv'
  <1>1. now \in Nat
    BY DEF PubInv, PubTypeOK
  <1>2. ASSUME NEW p \in Pubs, forward_ipc(p) PROVE PubInv'
    BY <1>2, PubForward
  <1>3. ASSUME NEW p \in Pubs, NEW flip \in BOOLEAN, PubTimerExpire(p, flip)
        PROVE  PubInv'
    BY <1>3, PubTimer
  <1>4. ASSUME NEW p \in Pubs, publish(p) PROVE PubInv'
    BY <1>4 DEF publish
  <1>5. ASSUME NEW p \in Pubs, NEW i, NEW skew, Recv(p, i, skew) PROVE PubInv'
    <2>1. UNCHANGED <<now, publisher>>
      BY <1>5 DEF Recv, DropOld, NotSubscribed, FirstOfSub, Matched, Arrive
    <2> QED
      BY <1>1, <2>1, PubUnchanged
  <1>6. CASE Tick
    BY <1>1, <1>6, PubUnchanged DEF Tick
  <1>7. CASE Flip \/ SubStart \/ SubStop \/ OtherSub
    BY <1>1, <1>7, PubUnchanged DEF Flip, SubStart, SubStop, OtherSub
  <1>8. CASE UNCHANGED vars
    BY <1>1, <1>8, PubUnchanged DEF vars
  <1> QED
    BY <1>2, <1>3, <1>4, <1>5, <1>6, <1>7, <1>8 DEF Next

(* The numbers of a publisher increase for every frame length, window and  *)
(* interleaving of publishes, timers and flips, as long as the window is   *)
(* not shorter than a frame (MsgSeqnoAssumption) and the console does not  *)
(* publish on the subject.                                                 *)
THEOREM SeqnosIncrease ==
    ASSUME ~Console
    PROVE  Spec => []SeqnoIncreases
  <1>1. Init => PubInv
    BY PubInit
  <1>2. PubInv /\ [Next]_vars => PubInv'
    BY PubNext
  <1>3. PubInv => SeqnoIncreases
    BY DEF PubInv
  <1> QED
    BY <1>1, <1>2, <1>3, PTL DEF Spec
-----------------------------------------------------------------------------
(* What match_seqno says                                                   *)

(* The classification of message i of a publisher against message k: the   *)
(* next one is the next one, and a loss that is counted is the number of   *)
(* messages between them.  A message given that is not after k is in an    *)
(* earlier frame.                                                          *)
LEMMA ClassifyExact ==
    ASSUME PubInv, NEW p \in Pubs,
           NEW i \in 1 .. Len(sent[p]), NEW k \in 1 .. Len(sent[p])
    PROVE  LET c == Classify(sent[p][k].seqno, sent[p][i])
           IN  /\ c.status \in {"next", "skip", "cycle", "repeat"}
               /\ c.loss \in 0 .. FrameLoss
               /\ c.status = "next" => i = k + 1
               /\ c.status = "skip" /\ c.loss # FrameLoss =>
                     c.loss = Lesser(i - k - 1, MaxMsgLoss)
               /\ c.status # "repeat" =>
                     \/ i > k
                     \/ seqno_frame(sent[p][i].seqno) < seqno_frame(sent[p][k].seqno)
  <1> DEFINE m == sent[p][i]
             last == sent[p][k].seqno
             n == Len(sent[p])
             fm == seqno_frame(m.seqno)
             fl == seqno_frame(last)
             c == Classify(last, m)
  <1>1. /\ n \in Nat /\ m.seqno \in Nat /\ last \in Nat /\ m.chain \in Nat
        /\ i \in Nat /\ k \in Nat /\ MaxMsgLoss \in Nat
    BY Sent, MsgSeqnoAssumption DEF PubInv
  <1>2. /\ fm \in Nat /\ fl \in Nat /\ seqno_frame(m.chain) \in Nat
        /\ m.seqno <= last => fm <= fl
        /\ last <= m.seqno => fl <= fm
        /\ seqno_frame(0) = 0
    BY <1>1, Frames
  <1>3. /\ i < k => m.seqno < last
        /\ k < i => last < m.seqno
        /\ i = k => m.seqno = last
    BY DEF PubInv, SeqnoIncreases
  <1>4. /\ fl >= 1 /\ fm >= 1
        /\ m.chain # None => i > 1 /\ m.chain = sent[p][i - 1].seqno
        /\ k < i /\ fm = fl => m.seqno - last = i - k
    BY DEF PubInv, SentOK
  <1>5. m.seqno = last + 1 => i = k + 1
    <2> SUFFICES ASSUME m.seqno = last + 1 PROVE i = k + 1
      OBVIOUS
    <2>1. k < i
      BY <1>1, <1>3
    <2>2. SUFFICES ASSUME k + 1 < i PROVE FALSE
      BY <1>1, <2>1
    <2>3. k + 1 \in 1 .. n
      BY <1>1, <2>2
    <2>4. last < sent[p][k + 1].seqno /\ sent[p][k + 1].seqno < m.seqno
      BY <1>1, <2>2, <2>3 DEF PubInv, SeqnoIncreases
    <2>5. sent[p][k + 1].seqno \in Nat
      BY <2>3, Sent DEF PubInv
    <2> QED
      BY <1>1, <2>4, <2>5
  <1>6. fm > fl => k < i
    BY <1>1, <1>2, <1>3
  <1>7. ASSUME fm > fl, seqno_frame(m.chain) = fl
        PROVE  /\ i - 1 \in 1 .. n /\ m.chain = sent[p][i - 1].seqno
               /\ m.chain - last = i - k - 1 /\ i - k - 1 \in Nat
    <2>1. i > 1 /\ m.chain = sent[p][i - 1].seqno /\ k < i
      BY <1>2, <1>4, <1>6, <1>7
    <2>2. i - 1 \in 1 .. n /\ (k = i - 1 \/ k < i - 1)
      BY <1>1, <2>1
    <2>3. k < i - 1 => m.chain - last = (i - 1) - k
      <3>1. k < i - 1 /\ fl = seqno_frame(sent[p][i - 1].seqno) =>
               sent[p][i - 1].seqno - last = (i - 1) - k
        BY <2>2 DEF PubInv, SentOK
      <3> QED
        BY <1>7, <2>1, <3>1
    <2>4. k = i - 1 => m.chain = last
      BY <2>1
    <2> QED
      BY <1>1, <2>1, <2>2, <2>3, <2>4
  <1>8. \A d \in Nat : /\ Counted(d).status = "skip"
                       /\ Counted(d).loss = Lesser(d, MaxMsgLoss)
                       /\ Counted(d).loss \in 0 .. FrameLoss
    BY <1>1 DEF Counted, Lesser, FrameLoss
  <1>9. /\ \A t : As(t).status = t /\ As(t).loss = 0
        /\ Unknown.status = "skip" /\ Unknown.loss = FrameLoss
        /\ 0 \in 0 .. FrameLoss /\ FrameLoss \in 0 .. FrameLoss
    BY <1>1 DEF As, Unknown, FrameLoss
  <1>10. CASE m.seqno = last + 1
    <2>1. c = As("next")
      BY <1>10 DEF Classify
    <2> QED
      BY <1>1, <1>5, <1>9, <1>10, <2>1
  <1>11. CASE m.seqno # last + 1 /\ fm = fl
    <2>1. c = IF m.seqno > last THEN Counted(m.seqno - (last + 1)) ELSE As("repeat")
      BY <1>2, <1>11 DEF Classify
    <2>2. CASE m.seqno > last
      <3>1. k < i
        BY <1>1, <1>3, <2>2
      <3>2. m.seqno - (last + 1) = i - k - 1 /\ i - k - 1 \in Nat
        <4>1. m.seqno - last = i - k
          BY <1>4, <1>11, <3>1
        <4> HIDE DEF m, last
        <4> QED
          BY <1>1, <3>1, <4>1
      <3> QED
        BY <1>1, <1>8, <2>1, <2>2, <3>1, <3>2
    <2>3. CASE ~(m.seqno > last)
      BY <1>9, <2>1, <2>3
    <2> QED
      BY <2>2, <2>3
  <1>12. CASE m.seqno # last + 1 /\ fm > fl
    <2>1. c = IF m.chain = last THEN As("next")
              ELSE IF seqno_frame(m.chain) = fl THEN Counted(m.chain - last)
              ELSE IF seqno_base(m.seqno) = 1 THEN As("cycle")
              ELSE Unknown
      BY <1>2, <1>12 DEF Classify
    <2>2. k < i
      BY <1>6, <1>12
    <2>3. CASE m.chain = last
      <3>1. m.chain - last = i - k - 1
        BY <1>7, <1>12, <2>3
      <3>2. i = k + 1
        BY <1>1, <2>3, <3>1
      <3> QED
        BY <1>1, <1>9, <2>1, <2>3, <3>2
    <2>4. CASE m.chain # last /\ seqno_frame(m.chain) = fl
      <3>1. m.chain - last = i - k - 1 /\ i - k - 1 \in Nat
        BY <1>7, <1>12, <2>4
      <3>2. c = Counted(i - k - 1)
        BY <2>1, <2>4, <3>1
      <3> QED
        BY <1>1, <1>8, <2>2, <3>1, <3>2
    <2>5. CASE m.chain # last /\ seqno_frame(m.chain) # fl
      BY <1>1, <1>9, <2>1, <2>2, <2>5
    <2> QED
      BY <2>3, <2>4, <2>5
  <1>13. CASE m.seqno # last + 1 /\ fm < fl
    <2>1. c = IF seqno_base(m.seqno) = 1 THEN As("cycle") ELSE Unknown
      BY <1>2, <1>13 DEF Classify
    <2> QED
      BY <1>9, <1>13, <2>1
  <1>14. fm < fl \/ fm = fl \/ fm > fl
    BY <1>2
  <1> QED
    BY <1>10, <1>11, <1>12, <1>13, <1>14

-----------------------------------------------------------------------------
(* The inductive invariant of the subscriber                               *)

(* the window is flipped no sooner than sub_window_ival after the last time *)
WinOK ==
    /\ flipTime \in Nat /\ trailing \in Nat
    /\ trailing <= flipTime /\ flipTime <= now
    /\ subMark = flipTime + SubIval

(* An entry is of a subscription that was started; one that update_seqno   *)
(* says is still in use is of the subscription there is.                   *)
EntryOK(s) ==
    /\ SeqOK(s)
    /\ IsSeq(s) => s.start # 0
    /\ s.fresh => s.start = sub /\ sub # 0

(* The entry SeqnoTab::upsert finds for the subscription there is has the  *)
(* number of the last message given to it, for each publisher in it.       *)
LastGiven ==
    sub # 0 /\ Found.start = sub =>
        \A p \in DOMAIN Found.last :
            prev[p] # 0 /\ Found.last[p] = sent[p][prev[p]].seqno

SubTypeOK ==
    /\ arrived \in [Pubs -> Nat] /\ prev \in [Pubs -> Nat]
    /\ starts \in Nat /\ sub \in 0 .. starts
    /\ tab = [cur |-> tab.cur, old |-> tab.old, old2 |-> tab.old2]

GivenArrived ==
    \A p \in Pubs : prev[p] <= arrived[p] /\ arrived[p] <= Len(sent[p])

Statuses == {"none", "first", "next", "skip", "cycle", "repeat", "not_subscribed"}

ReportOK ==
    report \in [uid : Pubs \union {0}, msg : Nat, prev : Nat, loss : 0 .. FrameLoss,
                status : Statuses]

SubInv ==
    /\ PubInv /\ SubTypeOK /\ WinOK /\ GivenArrived
    /\ EntryOK(tab.cur) /\ EntryOK(tab.old) /\ EntryOK(tab.old2)
    /\ LastGiven
    /\ ReportOK /\ LossExact

(* It says that the types are right. *)
LEMMA SubInvTypes == SubInv => TypeOK
  <1> SUFFICES ASSUME SubInv PROVE TypeOK
    OBVIOUS
  <1>1. subMark \in Nat
    BY MsgSeqnoAssumption DEF SubInv, WinOK
  <1> QED
    BY <1>1 DEF SubInv, PubInv, SubTypeOK, WinOK, EntryOK, ReportOK, Statuses, TypeOK

(* No entry. *)
LEMMA NoEntry ==
    /\ NoSeq.start = 0 /\ NoSeq.fresh = FALSE /\ NoSeq.last = [u \in {} |-> None]
    /\ DOMAIN NoSeq.last = {} /\ ~IsSeq(NoSeq)
    /\ starts \in Nat => EntryOK(NoSeq)
    BY DEF NoSeq, IsSeq, EntryOK, SeqOK

(* An entry is told from none by the start it was matched with. *)
LEMMA EntryStart ==
    ASSUME NEW s, EntryOK(s)
    PROVE  IsSeq(s) <=> s.start # 0
    BY NoEntry DEF EntryOK, IsSeq

(* The entry found is one of the three. *)
LEMMA FoundOK == SubInv => EntryOK(Found)
    BY DEF SubInv, Found

(* A step that reports nothing. *)
LEMMA QuietOK == Quiet => ReportOK' /\ LossExact'
  <1> SUFFICES ASSUME Quiet PROVE ReportOK' /\ LossExact'
    OBVIOUS
  <1>1. FrameLoss \in Nat
    BY MsgSeqnoAssumption DEF FrameLoss
  <1>2. ReportOK'
    BY <1>1 DEF Quiet, NoReport, ReportOK, Statuses
  <1>3. LossExact'
    BY DEF Quiet, NoReport, LossExact
  <1> QED
    BY <1>2, <1>3

(* It holds at the start. *)
LEMMA SubInit == Init => SubInv
  <1> SUFFICES ASSUME Init PROVE SubInv
    OBVIOUS
  <1>1. PubInv
    BY PubInit
  <1>2. SubTypeOK /\ GivenArrived
    BY DEF Init, SubTypeOK, GivenArrived
  <1>3. WinOK
    BY MsgSeqnoAssumption DEF Init, WinOK
  <1>4. EntryOK(tab.cur) /\ EntryOK(tab.old) /\ EntryOK(tab.old2)
    BY NoEntry DEF Init
  <1>5. LastGiven
    BY DEF Init, LastGiven
  <1>6. FrameLoss \in Nat
    BY MsgSeqnoAssumption DEF FrameLoss
  <1>7. ReportOK /\ LossExact
    BY <1>6 DEF Init, NoReport, ReportOK, Statuses, LossExact
  <1> QED
    BY <1>1, <1>2, <1>3, <1>4, <1>5, <1>7 DEF SubInv

(* Messages sent stay as they are. *)
SentKept ==
    \A p \in Pubs : /\ Len(sent[p]) <= Len(sent'[p])
                    /\ \A i \in 1 .. Len(sent[p]) : sent'[p][i] = sent[p][i]

(* forward_ipc only appends. *)
LEMMA ForwardKeeps ==
    ASSUME PubInv, NEW p \in Pubs, forward_ipc(p)
    PROVE  SentKept
  <1> DEFINE m == next_seqno(Windowed(pubTab[p]), timer[p])
  <1>1. sent' = [sent EXCEPT ![p] = Append(@, m)]
    BY DEF forward_ipc, Send
  <1>2. m \in Message
    BY NextIsHigher DEF PubInv, forward_ipc
  <1>3. \A q \in Pubs : sent[q] \in Seq(Message)
    BY DEF PubInv, PubTypeOK
  <1> HIDE DEF m
  <1>4. /\ sent'[p] = Append(sent[p], m)
        /\ \A q \in Pubs : q # p => sent'[q] = sent[q]
    BY <1>1 DEF PubInv, PubTypeOK
  <1>5. /\ Len(sent'[p]) = Len(sent[p]) + 1
        /\ \A i \in 1 .. Len(sent[p]) : sent'[p][i] = sent[p][i]
    BY <1>2, <1>3, <1>4, AppendProperties
  <1>6. \A q \in Pubs : Len(sent[q]) \in Nat
    BY Sent DEF PubInv
  <1> QED
    BY <1>4, <1>5, <1>6 DEF SentKept

(* The last message given to a subscription is one that was sent. *)
LEMMA PrevSent ==
    ASSUME SubInv, NEW p \in Pubs
    PROVE  /\ prev[p] \in Nat /\ arrived[p] \in Nat /\ Len(sent[p]) \in Nat
           /\ prev[p] # 0 => prev[p] \in 1 .. Len(sent[p])
           /\ arrived[p] # 0 => arrived[p] \in 1 .. Len(sent[p])
  <1>1. prev[p] \in Nat /\ arrived[p] \in Nat /\ Len(sent[p]) \in Nat
    BY Sent DEF SubInv, PubInv, SubTypeOK
  <1> QED
    BY <1>1 DEF SubInv, GivenArrived

(* A step of the publishers or of the clock. *)
LEMMA SubKept ==
    ASSUME SubInv, PubInv', SentKept, now' \in Nat, now <= now', Quiet,
           UNCHANGED <<arrived, subscriber>>
    PROVE  SubInv'
  <1>1. UNCHANGED <<arrived, tab, flipTime, trailing, subMark, sub, starts, prev>>
    BY DEF subscriber, window
  <1>2. SubTypeOK'
    BY <1>1 DEF SubInv, SubTypeOK
  <1>3. WinOK'
    <2>1. now \in Nat
      BY DEF SubInv, PubInv, PubTypeOK
    <2> QED
      BY <1>1, <2>1 DEF SubInv, WinOK
  <1>4. GivenArrived'
    <2> SUFFICES ASSUME NEW p \in Pubs
                 PROVE  prev'[p] <= arrived'[p] /\ arrived'[p] <= Len(sent'[p])
      BY DEF GivenArrived
    <2>1. Len(sent'[p]) \in Nat /\ Len(sent[p]) <= Len(sent'[p])
      <3>1. sent'[p] \in Seq(Message)
        BY DEF PubInv, PubTypeOK
      <3> QED
        BY <3>1, LenProperties DEF SentKept
    <2>2. prev[p] <= arrived[p] /\ arrived[p] <= Len(sent[p])
      BY DEF SubInv, GivenArrived
    <2> QED
      BY <1>1, <2>1, <2>2, PrevSent
  <1>5. EntryOK(tab.cur)' /\ EntryOK(tab.old)' /\ EntryOK(tab.old2)'
    BY <1>1 DEF SubInv, EntryOK, SeqOK
  <1>6. LastGiven'
    <2>1. DOMAIN Found.last \subseteq Pubs
      BY FoundOK DEF EntryOK, SeqOK
    <2>2. Found' = Found
      BY <1>1 DEF Found
    <2>3. \A p \in DOMAIN Found.last : prev[p] # 0 => sent'[p][prev[p]] = sent[p][prev[p]]
      BY <2>1, PrevSent DEF SentKept
    <2> QED
      BY <1>1, <2>2, <2>3 DEF SubInv, LastGiven
  <1> QED
    BY <1>2, <1>3, <1>4, <1>5, <1>6, QuietOK DEF SubInv

(* An entry with another value of fresh. *)
LEMMA Stamped ==
    ASSUME NEW s, NEW v,
           s = [last |-> s.last, uid |-> s.uid, start |-> s.start, fresh |-> s.fresh]
    PROVE  [s EXCEPT !.fresh = v]
              = [last |-> s.last, uid |-> s.uid, start |-> s.start, fresh |-> v]
    OBVIOUS

(* An entry once it is stale. *)
LEMMA Stale ==
    ASSUME NEW s, s = [last |-> s.last, uid |-> s.uid, start |-> s.start, fresh |-> s.fresh]
    PROVE  [s EXCEPT !.fresh = FALSE]
              = [last |-> s.last, uid |-> s.uid, start |-> s.start, fresh |-> FALSE]
    BY Stamped, Zenon

(* update_bloom makes the entries stale and changes nothing else in them. *)
LEMMA RestampOK ==
    ASSUME SubInv, tab' = Restamp(tab), starts' \in Nat, starts <= starts'
    PROVE  /\ tab' = [cur |-> tab'.cur, old |-> tab'.old, old2 |-> tab'.old2]
           /\ EntryOK(tab.cur)' /\ EntryOK(tab.old)' /\ EntryOK(tab.old2)'
           /\ IsSeq(tab.cur)' <=> IsSeq(tab.cur)
           /\ IsSeq(tab.old)' <=> IsSeq(tab.old)
           /\ IsSeq(tab.old2)' <=> IsSeq(tab.old2)
           /\ Found'.start = Found.start /\ Found'.last = Found.last
  <1> DEFINE St(s) == [s EXCEPT !.fresh = FALSE]
  <1>1. tab' = [cur |-> St(tab.cur), old |-> St(tab.old), old2 |-> St(tab.old2)]
    <2>1. tab = [cur |-> tab.cur, old |-> tab.old, old2 |-> tab.old2]
      BY DEF SubInv, SubTypeOK
    <2> HIDE DEF St
    <2>2. tab' = [f \in DOMAIN tab |-> St(tab[f])]
      BY DEF Restamp, St
    <2>3. DOMAIN tab = {"cur", "old", "old2"}
      BY <2>1
    <2>4. tab' = [f \in {"cur", "old", "old2"} |-> St(tab[f])]
      BY <2>2, <2>3
    <2> QED
      BY <2>4
  <1>2. ASSUME NEW s, EntryOK(s)
        PROVE  /\ St(s) = [last |-> s.last, uid |-> s.uid, start |-> s.start, fresh |-> FALSE]
               /\ IsSeq(St(s)) <=> IsSeq(s)
               /\ St(s).start = s.start /\ St(s).last = s.last
    <2>1. St(s) = [last |-> s.last, uid |-> s.uid, start |-> s.start, fresh |-> FALSE]
      BY <1>2, Stale DEF EntryOK, SeqOK
    <2>2. IsSeq(s) => IsSeq(St(s))
      BY <1>2, <2>1, EntryStart, NoEntry DEF IsSeq
    <2>3. ~IsSeq(s) => ~IsSeq(St(s))
      <3>1. SUFFICES ASSUME s = NoSeq PROVE St(s) = NoSeq
        BY DEF IsSeq
      <3>2. St(s) = [last |-> NoSeq.last, uid |-> NoSeq.uid, start |-> NoSeq.start,
                     fresh |-> FALSE]
        BY <2>1, <3>1
      <3> HIDE DEF St
      <3> QED
        BY <3>2, Zenon DEF NoSeq
    <2> QED
      BY <2>1, <2>2, <2>3
  <1>3. ASSUME NEW s, EntryOK(s)
        PROVE  /\ SeqOK(St(s))'
               /\ IsSeq(St(s)) => St(s).start # 0
               /\ St(s).fresh = FALSE
    <2>1. /\ St(s) = [last |-> s.last, uid |-> s.uid, start |-> s.start, fresh |-> FALSE]
          /\ IsSeq(St(s)) <=> IsSeq(s)
      BY <1>2, <1>3
    <2>2. starts \in Nat /\ (s.start \in 0 .. starts => s.start \in 0 .. starts')
      BY DEF SubInv, SubTypeOK
    <2> HIDE DEF St
    <2> QED
      BY <1>3, <2>1, <2>2 DEF EntryOK, SeqOK
  <1> HIDE DEF St
  <1>4. EntryOK(tab.cur) /\ EntryOK(tab.old) /\ EntryOK(tab.old2)
    BY DEF SubInv
  <1>5. tab'.cur = St(tab.cur) /\ tab'.old = St(tab.old) /\ tab'.old2 = St(tab.old2)
    BY <1>1
  <1>6. EntryOK(tab.cur)' /\ EntryOK(tab.old)' /\ EntryOK(tab.old2)'
    BY <1>3, <1>4, <1>5 DEF EntryOK, SeqOK, IsSeq
  <1>7. /\ IsSeq(tab.cur)' <=> IsSeq(tab.cur)
        /\ IsSeq(tab.old)' <=> IsSeq(tab.old)
        /\ IsSeq(tab.old2)' <=> IsSeq(tab.old2)
    BY <1>2, <1>4, <1>5 DEF IsSeq
  <1>8. Found'.start = Found.start /\ Found'.last = Found.last
    BY <1>2, <1>4, <1>5, <1>7 DEF Found
  <1> QED
    BY <1>1, <1>5, <1>6, <1>7, <1>8

(* A start or a stop of the subject or of another. *)
LEMMA SubSteps ==
    ASSUME SubInv, SubStart \/ SubStop \/ OtherSub
    PROVE  SubInv'
  <1>1. /\ UNCHANGED <<now, publisher, arrived, flipTime, trailing, subMark>>
        /\ tab' = Restamp(tab) /\ Quiet
    BY DEF SubStart, SubStop, OtherSub
  <1>2. PubInv'
    <2>1. now \in Nat
      BY DEF SubInv, PubInv, PubTypeOK
    <2> QED
      BY <1>1, <2>1, PubUnchanged DEF SubInv
  <1>3. starts \in Nat /\ sub \in 0 .. starts /\ prev \in [Pubs -> Nat]
    BY DEF SubInv, SubTypeOK
  <1>4. \/ sub' = starts + 1 /\ starts' = starts + 1 /\ prev' = [p \in Pubs |-> 0]
        \/ sub' = 0 /\ starts' = starts /\ prev' = prev
        \/ sub' = sub /\ starts' = starts /\ prev' = prev
    BY DEF SubStart, SubStop, OtherSub
  <1>5. starts' \in Nat /\ starts <= starts' /\ sub' \in 0 .. starts'
        /\ prev' \in [Pubs -> Nat]
    BY <1>3, <1>4
  <1>6. /\ tab' = [cur |-> tab'.cur, old |-> tab'.old, old2 |-> tab'.old2]
        /\ EntryOK(tab.cur)' /\ EntryOK(tab.old)' /\ EntryOK(tab.old2)'
        /\ Found'.start = Found.start /\ Found'.last = Found.last
    BY <1>1, <1>5, RestampOK
  <1>7. SubTypeOK'
    BY <1>1, <1>5, <1>6 DEF SubInv, SubTypeOK
  <1>8. WinOK'
    BY <1>1 DEF SubInv, WinOK
  <1>9. GivenArrived'
    <2> SUFFICES ASSUME NEW p \in Pubs
                 PROVE  prev'[p] <= arrived'[p] /\ arrived'[p] <= Len(sent'[p])
      BY DEF GivenArrived
    <2>1. arrived'[p] = arrived[p] /\ sent'[p] = sent[p] /\ (prev'[p] = prev[p] \/ prev'[p] = 0)
      BY <1>1, <1>4 DEF publisher
    <2>2. prev[p] <= arrived[p] /\ arrived[p] <= Len(sent[p]) /\ arrived[p] \in Nat
      BY PrevSent DEF SubInv, GivenArrived
    <2> QED
      BY <2>1, <2>2
  <1>10. LastGiven'
    <2>1. Found.start \in 0 .. starts
      BY FoundOK DEF EntryOK, SeqOK
    <2>2. sub' # 0 /\ Found'.start = sub' => sub' = sub /\ prev' = prev
      BY <1>3, <1>4, <1>6, <2>1
    <2> QED
      BY <1>1, <1>6, <2>2 DEF SubInv, LastGiven, publisher
  <1> QED
    BY <1>1, <1>2, <1>6, <1>7, <1>8, <1>9, <1>10, QuietOK DEF SubInv

(* SeqnoTab::flip: the entry in use is still found, until it leaves. *)
LEMMA FlipStep ==
    ASSUME SubInv, Flip
    PROVE  SubInv'
  <1>1. /\ UNCHANGED <<now, publisher, arrived, sub, starts, prev>>
        /\ tab' = [cur |-> NoSeq, old |-> tab.cur, old2 |-> tab.old]
        /\ now > subMark /\ trailing' = flipTime /\ flipTime' = now
        /\ subMark' = now + SubIval /\ Quiet
    BY DEF Flip
  <1>2. now \in Nat /\ starts \in Nat
    BY DEF SubInv, PubInv, PubTypeOK, SubTypeOK
  <1>3. PubInv'
    BY <1>1, <1>2, PubUnchanged DEF SubInv
  <1>4. SubTypeOK' /\ GivenArrived'
    BY <1>1 DEF SubInv, SubTypeOK, GivenArrived, publisher
  <1>5. WinOK'
    BY <1>1, <1>2, MsgSeqnoAssumption DEF SubInv, WinOK
  <1>6. EntryOK(tab.cur)' /\ EntryOK(tab.old)' /\ EntryOK(tab.old2)'
    <2>1. tab'.cur = NoSeq /\ tab'.old = tab.cur /\ tab'.old2 = tab.old
      BY <1>1
    <2>2. EntryOK(NoSeq)
      BY <1>2, NoEntry
    <2> QED
      BY <1>1, <2>1, <2>2 DEF SubInv, EntryOK, SeqOK
  <1>7. Found' = Found \/ Found' = NoSeq
    BY <1>1 DEF Found, IsSeq
  <1>8. LastGiven'
    BY <1>1, <1>7, NoEntry DEF SubInv, LastGiven, publisher
  <1> QED
    BY <1>1, <1>3, <1>4, <1>5, <1>6, <1>8, QuietOK DEF SubInv

(* SubSeqno::copy leaves an entry that was an entry. *)
LEMMA CopiedOK ==
    ASSUME NEW s, EntryOK(s)
    PROVE  EntryOK(CopiedFrom(s))
  <1>1. CASE ~IsSeq(s)
    BY <1>1 DEF CopiedFrom
  <1>2. CASE IsSeq(s)
    <2> DEFINE one == [u \in {s.uid} |-> s.last[u]]
    <2>1. CopiedFrom(s) = [s EXCEPT !.last = one]
      BY <1>2 DEF CopiedFrom
    <2>2. /\ s = [last |-> s.last, uid |-> s.uid, start |-> s.start, fresh |-> s.fresh]
          /\ s.uid \in DOMAIN s.last /\ DOMAIN s.last \subseteq Pubs
          /\ s.last \in [DOMAIN s.last -> Nat]
          /\ s.start \in 0 .. starts /\ s.fresh \in BOOLEAN
      BY <1>2 DEF EntryOK, SeqOK
    <2>3. DOMAIN one = {s.uid} /\ one \in [DOMAIN one -> Nat] /\ DOMAIN one \subseteq Pubs
      BY <2>2
    <2> HIDE DEF one
    <2>4. CopiedFrom(s) = [last |-> one, uid |-> s.uid, start |-> s.start, fresh |-> s.fresh]
      BY <2>1, <2>2
    <2> QED
      BY <1>2, <2>2, <2>3, <2>4 DEF EntryOK, SeqOK
  <1> QED
    BY <1>1, <1>2

(* SeqnoTab::upsert: the entry matched is the one in use from here on. *)
LEMMA UpsertedOK ==
    ASSUME SubInv, NEW s, EntryOK(s), s.start # 0, tab' = Upserted(s),
           UNCHANGED <<sub, starts>>
    PROVE  /\ tab' = [cur |-> tab'.cur, old |-> tab'.old, old2 |-> tab'.old2]
           /\ EntryOK(tab.cur)' /\ EntryOK(tab.old)' /\ EntryOK(tab.old2)'
           /\ Found' = s /\ IsSeq(tab'.cur)
  <1>1. EntryOK(tab.cur) /\ EntryOK(tab.old) /\ EntryOK(tab.old2)
    BY DEF SubInv
  <1>2. EntryOK(CopiedFrom(tab.old)) /\ EntryOK(CopiedFrom(tab.old2))
    BY <1>1, CopiedOK
  <1>3. PICK o, o2 : /\ tab' = [cur |-> s, old |-> o, old2 |-> o2]
                     /\ EntryOK(o) /\ EntryOK(o2)
    BY <1>1, <1>2 DEF Upserted
  <1>4. tab'.cur = s /\ tab'.old = o /\ tab'.old2 = o2
    BY <1>3
  <1>5. IsSeq(s)
    BY EntryStart
  <1>6. \A e : EntryOK(e) => EntryOK(e)'
    BY DEF EntryOK, SeqOK
  <1>7. EntryOK(tab.cur)' /\ EntryOK(tab.old)' /\ EntryOK(tab.old2)'
    BY <1>3, <1>4, <1>6 DEF EntryOK, SeqOK
  <1>8. Found' = s
    BY <1>4, <1>5 DEF Found, IsSeq
  <1> QED
    BY <1>3, <1>4, <1>5, <1>7, <1>8

(* What a message does whatever it is matched with. *)
LEMMA ArriveStep ==
    ASSUME SubInv, NEW p \in Pubs, NEW i \in 1 .. Len(sent[p]), NEW c,
           Arrive(p, i), Given(p, i, c),
           c.status \in Statuses, c.loss \in 0 .. FrameLoss
    PROVE  /\ UNCHANGED <<now, publisher, sent, flipTime, trailing, subMark, sub, starts>>
           /\ PubInv' /\ WinOK' /\ GivenArrived' /\ ReportOK'
           /\ arrived' \in [Pubs -> Nat] /\ prev' \in [Pubs -> Nat]
           /\ \A q \in Pubs : prev'[q] = IF q # p \/ c.status \in {"repeat", "not_subscribed"}
                                           THEN prev[q] ELSE i
           /\ report' = [uid |-> p, msg |-> i, prev |-> prev[p],
                         status |-> c.status, loss |-> c.loss]
  <1>1. /\ UNCHANGED <<now, publisher, sent, flipTime, trailing, subMark, sub, starts>>
        /\ arrived' = [arrived EXCEPT ![p] = IF i > @ THEN i ELSE @]
        /\ report' = [uid |-> p, msg |-> i, prev |-> prev[p],
                      status |-> c.status, loss |-> c.loss]
        /\ prev' = IF c.status \in {"repeat", "not_subscribed"} THEN prev
                                                              ELSE [prev EXCEPT ![p] = i]
    BY DEF Arrive, Given, Report, publisher
  <1>2. now \in Nat
    BY DEF SubInv, PubInv, PubTypeOK
  <1>3. PubInv'
    BY <1>1, <1>2, PubUnchanged DEF SubInv
  <1>4. WinOK'
    BY <1>1 DEF SubInv, WinOK
  <1>5. /\ i \in Nat /\ arrived \in [Pubs -> Nat] /\ prev \in [Pubs -> Nat]
        /\ \A q \in Pubs : prev[q] \in Nat /\ arrived[q] \in Nat /\ Len(sent[q]) \in Nat
    BY PrevSent DEF SubInv, SubTypeOK
  <1>6. arrived' \in [Pubs -> Nat] /\ prev' \in [Pubs -> Nat]
    BY <1>1, <1>5
  <1>7. \A q \in Pubs : prev'[q] = IF q # p \/ c.status \in {"repeat", "not_subscribed"}
                                     THEN prev[q] ELSE i
    BY <1>1, <1>5
  <1>8. GivenArrived'
    <2> SUFFICES ASSUME NEW q \in Pubs
                 PROVE  prev'[q] <= arrived'[q] /\ arrived'[q] <= Len(sent'[q])
      BY DEF GivenArrived
    <2>1. prev[q] <= arrived[q] /\ arrived[q] <= Len(sent[q])
      BY DEF SubInv, GivenArrived
    <2>2. arrived'[q] = IF q = p /\ i > arrived[p] THEN i ELSE arrived[q]
      BY <1>1, <1>5
    <2>3. sent'[q] = sent[q] /\ i <= Len(sent[p])
      BY <1>1, <1>5
    <2> QED
      BY <1>5, <1>7, <2>1, <2>2, <2>3
  <1>9. ReportOK'
    BY <1>1, <1>5 DEF ReportOK
  <1> QED
    BY <1>1, <1>3, <1>4, <1>6, <1>7, <1>8, <1>9

(* The status of a message that is not classified. *)
LEMMA AsOK ==
    /\ \A t : As(t).status = t /\ As(t).loss = 0
    /\ 0 \in 0 .. FrameLoss
    BY MsgSeqnoAssumption DEF As, FrameLoss

(* match_seqno drops an old message, or finds no subscription for it. *)
LEMMA DropStep ==
    ASSUME SubInv, NEW p \in Pubs, NEW i \in 1 .. Len(sent[p]), NEW skew,
           DropOld(p, i, skew) \/ NotSubscribed(p, i, skew)
    PROVE  SubInv'
  <1>1. PICK t \in {"repeat", "not_subscribed"} :
           /\ Arrive(p, i) /\ Given(p, i, As(t))
           /\ tab' = tab \/ (tab' = Removed /\ sub = 0)
    <2>1. CASE DropOld(p, i, skew)
      <3>1. Arrive(p, i) /\ Given(p, i, As("repeat")) /\ tab' = tab
        BY <2>1 DEF DropOld
      <3> QED
        BY <3>1
    <2>2. CASE NotSubscribed(p, i, skew)
      <3>1. /\ Arrive(p, i) /\ Given(p, i, As("not_subscribed"))
            /\ tab' = Removed /\ sub = 0
        BY <2>2 DEF NotSubscribed
      <3> QED
        BY <3>1
    <2> QED
      BY <2>1, <2>2
  <1>2. As(t).status = t /\ As(t).loss \in 0 .. FrameLoss /\ t \in Statuses
    BY AsOK DEF Statuses
  <1>3. /\ UNCHANGED <<now, publisher, sent, flipTime, trailing, subMark, sub, starts>>
        /\ PubInv' /\ WinOK' /\ GivenArrived' /\ ReportOK'
        /\ arrived' \in [Pubs -> Nat] /\ prev' \in [Pubs -> Nat]
        /\ \A q \in Pubs : prev'[q] = prev[q]
        /\ report'.status = t
    BY <1>1, <1>2, ArriveStep
  <1>4. LossExact'
    BY <1>3 DEF LossExact
  <1>5. /\ starts \in Nat /\ EntryOK(tab.cur) /\ EntryOK(tab.old) /\ EntryOK(tab.old2)
        /\ EntryOK(NoSeq) /\ tab = [cur |-> tab.cur, old |-> tab.old, old2 |-> tab.old2]
    BY NoEntry DEF SubInv, SubTypeOK
  <1>6. PICK e, o, o2 : /\ tab' = [cur |-> e, old |-> o, old2 |-> o2]
                        /\ EntryOK(e) /\ EntryOK(o) /\ EntryOK(o2)
    BY <1>1, <1>5 DEF Removed
  <1>7. tab'.cur = e /\ tab'.old = o /\ tab'.old2 = o2
    BY <1>6
  <1>8. \A s : EntryOK(s) => EntryOK(s)'
    BY <1>3 DEF EntryOK, SeqOK
  <1>9. EntryOK(tab.cur)' /\ EntryOK(tab.old)' /\ EntryOK(tab.old2)'
    BY <1>6, <1>7, <1>8 DEF EntryOK, SeqOK
  <1>10. SubTypeOK'
    BY <1>3, <1>6, <1>7 DEF SubInv, SubTypeOK
  <1>11. LastGiven'
    <2>1. CASE tab' = tab
      <3>1. Found' = Found /\ DOMAIN Found.last \subseteq Pubs
        BY <2>1, FoundOK DEF Found, EntryOK, SeqOK
      <3> QED
        BY <1>3, <3>1 DEF SubInv, LastGiven
    <2>2. CASE sub = 0
      BY <1>3, <2>2 DEF LastGiven
    <2> QED
      BY <1>1, <2>1, <2>2
  <1> QED
    BY <1>3, <1>4, <1>9, <1>10, <1>11 DEF SubInv

(* The first message of a subscription. *)
LEMMA FirstStep ==
    ASSUME SubInv, NEW p \in Pubs, NEW i \in 1 .. Len(sent[p]), NEW skew,
           FirstOfSub(p, i, skew)
    PROVE  SubInv'
  <1> DEFINE l == [u \in {p} |-> sent[p][i].seqno]
             s == [last |-> l, uid |-> p, start |-> sub, fresh |-> TRUE]
  <1>1. /\ Arrive(p, i) /\ Given(p, i, As("first")) /\ tab' = Upserted(s) /\ sub # 0
    BY DEF FirstOfSub
  <1>2. /\ As("first").status = "first" /\ As("first").loss \in 0 .. FrameLoss
        /\ "first" \in Statuses
    BY AsOK DEF Statuses
  <1>3. /\ UNCHANGED <<now, publisher, sent, flipTime, trailing, subMark, sub, starts>>
        /\ PubInv' /\ WinOK' /\ GivenArrived' /\ ReportOK'
        /\ arrived' \in [Pubs -> Nat] /\ prev' \in [Pubs -> Nat]
        /\ prev'[p] = i /\ report'.status = "first"
    <2> DEFINE c == As("first")
    <2>1. /\ Arrive(p, i) /\ Given(p, i, c)
          /\ c.status = "first" /\ c.status \in Statuses /\ c.loss \in 0 .. FrameLoss
      BY <1>1, <1>2
    <2> HIDE DEF c
    <2>2. /\ UNCHANGED <<now, publisher, sent, flipTime, trailing, subMark, sub, starts>>
          /\ PubInv' /\ WinOK' /\ GivenArrived' /\ ReportOK'
          /\ arrived' \in [Pubs -> Nat] /\ prev' \in [Pubs -> Nat]
          /\ \A q \in Pubs : prev'[q] = IF q # p \/ c.status \in {"repeat", "not_subscribed"}
                                          THEN prev[q] ELSE i
          /\ report' = [uid |-> p, msg |-> i, prev |-> prev[p],
                        status |-> c.status, loss |-> c.loss]
      BY <2>1, ArriveStep
    <2>3. prev'[p] = i /\ report'.status = "first"
      BY <2>1, <2>2
    <2> QED
      BY <2>2, <2>3
  <1>4. LossExact'
    BY <1>3 DEF LossExact
  <1>5. sent[p][i].seqno \in Nat /\ starts \in Nat /\ sub \in 0 .. starts
    BY Sent DEF SubInv, PubInv, SubTypeOK
  <1>6. DOMAIN l = {p} /\ l \in [DOMAIN l -> Nat] /\ l[p] = sent[p][i].seqno
    BY <1>5
  <1> HIDE DEF l
  <1>7. s.last = l /\ s.uid = p /\ s.start = sub /\ s.fresh = TRUE
    OBVIOUS
  <1>8. EntryOK(s)
    BY <1>1, <1>5, <1>6, <1>7, Zenon DEF EntryOK, SeqOK
  <1> HIDE DEF s
  <1>9. /\ tab' = [cur |-> tab'.cur, old |-> tab'.old, old2 |-> tab'.old2]
        /\ EntryOK(tab.cur)' /\ EntryOK(tab.old)' /\ EntryOK(tab.old2)'
        /\ Found' = s
    BY <1>1, <1>3, <1>7, <1>8, UpsertedOK
  <1>10. SubTypeOK'
    BY <1>3, <1>9 DEF SubInv, SubTypeOK
  <1>11. LastGiven'
    BY <1>3, <1>6, <1>7, <1>9 DEF LastGiven
  <1> QED
    BY <1>3, <1>4, <1>9, <1>10, <1>11 DEF SubInv

(* The last message given of a publisher that the entry has.  *)
LEMMA InUse ==
    ASSUME SubInv, IsSeq(Found), Found.fresh \/ sub = Found.start
    PROVE  /\ sub # 0 /\ Found.start = sub
           /\ \A q \in DOMAIN Found.last :
                 /\ q \in Pubs /\ prev[q] \in 1 .. Len(sent[q])
                 /\ Found.last[q] = sent[q][prev[q]].seqno
  <1>1. EntryOK(Found)
    BY FoundOK
  <1>2. sub # 0 /\ Found.start = sub
    BY <1>1 DEF EntryOK
  <1> QED
    BY <1>1, <1>2, PrevSent DEF SubInv, LastGiven, EntryOK, SeqOK

(* The entry once a message was matched: how Matched writes it, and the    *)
(* record it is.                                                           *)
Rewrite(s, l, u, v) == [s EXCEPT !.last = l, !.uid = u, !.fresh = v]
Record(s, l, u, v)  == [last |-> l, uid |-> u, start |-> s.start, fresh |-> v]

(* The two are the same. *)
LEMMA Rewritten ==
    ASSUME NEW s, NEW l, NEW u, NEW v,
           s = [last |-> s.last, uid |-> s.uid, start |-> s.start, fresh |-> s.fresh]
    PROVE  Rewrite(s, l, u, v) = Record(s, l, u, v)
  <1> DEFINE d == [s EXCEPT !.last = l]
             e == [d EXCEPT !.uid = u]
  <1>1. d = [last |-> l, uid |-> s.uid, start |-> s.start, fresh |-> s.fresh]
    OBVIOUS
  <1>2. e = [last |-> l, uid |-> u, start |-> s.start, fresh |-> s.fresh]
    <2> HIDE DEF d
    <2> QED
      BY <1>1
  <1>3. e = [last |-> e.last, uid |-> e.uid, start |-> e.start, fresh |-> e.fresh]
        /\ e.last = l /\ e.uid = u /\ e.start = s.start
    <2> HIDE DEF e
    <2> QED
      BY <1>2
  <1>4. Rewrite(s, l, u, v) = [e EXCEPT !.fresh = v]
    BY DEF Rewrite
  <1> HIDE DEF e
  <1> QED
    BY <1>3, <1>4, Stamped DEF Record

(* A message of a subscription that has an entry. *)
LEMMA MatchedStep ==
    ASSUME SubInv, NEW p \in Pubs, NEW i \in 1 .. Len(sent[p]), NEW skew,
           Matched(p, i, skew)
    PROVE  SubInv'
  <1> DEFINE m == sent[p][i]
             f == Found
             c == IF p \in DOMAIN f.last THEN Classify(f.last[p], m) ELSE As("first")
             n == IF c.status = "repeat" THEN f.last[p] ELSE m.seqno
             l == restore_uid(f.last, p, n)
             s == [last |-> l, uid |-> p, start |-> f.start, fresh |-> TRUE]
  <1>1. /\ Arrive(p, i) /\ IsSeq(f) /\ (f.fresh \/ sub = f.start) /\ Given(p, i, c)
        /\ tab' = Upserted([f EXCEPT !.last = l, !.uid = p, !.fresh = TRUE])
    BY DEF Matched
  <1>2. EntryOK(f)
    BY FoundOK
  <1>3. /\ sub # 0 /\ f.start = sub
        /\ \A q \in DOMAIN f.last :
              /\ q \in Pubs /\ prev[q] \in 1 .. Len(sent[q])
              /\ f.last[q] = sent[q][prev[q]].seqno
    BY <1>1, InUse
  <1>4. /\ c.status \in Statuses /\ c.loss \in 0 .. FrameLoss
        /\ c.status # "not_subscribed"
        /\ c.status = "repeat" => p \in DOMAIN f.last
        /\ c.status = "next" => i = prev[p] + 1
        /\ c.status = "skip" /\ c.loss # FrameLoss =>
              c.loss = Lesser(i - prev[p] - 1, MaxMsgLoss)
    <2>1. CASE p \in DOMAIN f.last
      <3>1. c = Classify(sent[p][prev[p]].seqno, m) /\ prev[p] \in 1 .. Len(sent[p])
        BY <1>3, <2>1
      <3> HIDE DEF c, f
      <3> QED
        BY <2>1, <3>1, ClassifyExact DEF Statuses, SubInv
    <2>2. CASE p \notin DOMAIN f.last
      <3>1. c = As("first")
        BY <2>2
      <3> HIDE DEF c, f
      <3> QED
        BY <3>1, AsOK DEF Statuses
    <2> QED
      BY <2>1, <2>2
  <1> HIDE DEF c, f
  <1>5. n \in Nat
    <2>1. m.seqno \in Nat
      BY Sent DEF SubInv, PubInv
    <2>2. p \in DOMAIN f.last => f.last[p] \in Nat
      BY <1>2 DEF EntryOK, SeqOK
    <2> QED
      BY <1>4, <2>1, <2>2
  <1>6. /\ UNCHANGED <<now, publisher, sent, flipTime, trailing, subMark, sub, starts>>
        /\ PubInv' /\ WinOK' /\ GivenArrived' /\ ReportOK'
        /\ arrived' \in [Pubs -> Nat] /\ prev' \in [Pubs -> Nat]
        /\ \A q \in Pubs : prev'[q] = IF q # p \/ c.status \in {"repeat", "not_subscribed"}
                                        THEN prev[q] ELSE i
        /\ report' = [uid |-> p, msg |-> i, prev |-> prev[p],
                      status |-> c.status, loss |-> c.loss]
    BY <1>1, <1>4, ArriveStep
  <1>7. LossExact'
    BY <1>4, <1>6 DEF LossExact
  <1> HIDE DEF n
  <1>8. /\ DOMAIN l = DOMAIN f.last \union {p} /\ l[p] = n
        /\ \A q \in DOMAIN f.last : q # p => l[q] = f.last[q]
    BY DEF restore_uid
  <1>9. /\ f = [last |-> f.last, uid |-> f.uid, start |-> f.start, fresh |-> f.fresh]
        /\ DOMAIN f.last \subseteq Pubs /\ f.last \in [DOMAIN f.last -> Nat]
        /\ f.start \in 0 .. starts
    BY <1>2 DEF EntryOK, SeqOK
  <1>10. l \in [DOMAIN l -> Nat]
    BY <1>5, <1>9 DEF restore_uid
  <1> HIDE DEF l
  <1>11. s.last = l /\ s.uid = p /\ s.start = sub /\ s.fresh = TRUE
    BY <1>3
  <1>12. [f EXCEPT !.last = l, !.uid = p, !.fresh = TRUE] = s
    <2>1. f = [last |-> f.last, uid |-> f.uid, start |-> f.start, fresh |-> f.fresh]
      BY <1>9
    <2>2. Rewrite(f, l, p, TRUE) = Record(f, l, p, TRUE)
      BY <2>1, Rewritten
    <2>3. Record(f, l, p, TRUE) = s
      BY DEF Record
    <2>4. Rewrite(f, l, p, TRUE) = [f EXCEPT !.last = l, !.uid = p, !.fresh = TRUE]
      BY DEF Rewrite
    <2> HIDE DEF s
    <2> QED
      BY ONLY <2>2, <2>3, <2>4, Zenon
  <1>13. EntryOK(s)
    <2>1. s.start \in 0 .. starts
      BY <1>3, <1>9, <1>11
    <2>2. s = [last |-> s.last, uid |-> s.uid, start |-> s.start, fresh |-> s.fresh]
      BY Zenon
    <2>3. /\ DOMAIN s.last \subseteq Pubs /\ s.last \in [DOMAIN s.last -> Nat]
          /\ s.uid \in DOMAIN s.last /\ s.fresh \in BOOLEAN
          /\ s.start # 0 /\ s.start = sub
      BY <1>3, <1>8, <1>9, <1>10, <1>11
    <2> QED
      BY <1>3, <2>1, <2>2, <2>3, Zenon DEF EntryOK, SeqOK
  <1> HIDE DEF s
  <1>14. /\ tab' = [cur |-> tab'.cur, old |-> tab'.old, old2 |-> tab'.old2]
         /\ EntryOK(tab.cur)' /\ EntryOK(tab.old)' /\ EntryOK(tab.old2)'
         /\ Found' = s
    BY <1>1, <1>3, <1>6, <1>11, <1>12, <1>13, UpsertedOK
  <1>15. SubTypeOK'
    BY <1>6, <1>14 DEF SubInv, SubTypeOK
  <1>16. LastGiven'
    <2> SUFFICES ASSUME NEW q \in DOMAIN l
                 PROVE  prev'[q] # 0 /\ l[q] = sent[q][prev'[q]].seqno
      BY <1>6, <1>11, <1>14 DEF LastGiven
    <2>1. CASE q # p
      BY <1>3, <1>6, <1>8, <2>1
    <2>2. CASE q = p /\ c.status = "repeat"
      <3>1. n = f.last[p] /\ p \in DOMAIN f.last /\ prev'[p] = prev[p]
        BY <1>4, <1>6, <2>2 DEF n
      <3> QED
        BY <1>3, <1>8, <2>2, <3>1
    <2>3. CASE q = p /\ c.status # "repeat"
      <3>1. n = m.seqno /\ prev'[p] = i
        BY <1>4, <1>6, <2>3 DEF n
      <3> QED
        BY <1>8, <2>3, <3>1
    <2> QED
      BY <2>1, <2>2, <2>3
  <1> QED
    BY <1>6, <1>7, <1>14, <1>15, <1>16 DEF SubInv

(* Every step keeps the invariant, when the console does not publish. *)
LEMMA SubNext ==
    ASSUME ~Console, SubInv, [Next]_vars
    PROVE  SubInv'
  <1>1. now \in Nat /\ \A p \in Pubs : Len(sent[p]) \in Nat
    BY Sent DEF SubInv, PubInv, PubTypeOK
  <1>2. PubInv'
    BY PubNext DEF SubInv
  <1>3. ASSUME NEW p \in Pubs, forward_ipc(p) PROVE SubInv'
    <2>1. SentKept
      BY <1>3, ForwardKeeps DEF SubInv
    <2>2. UNCHANGED <<now, arrived, subscriber>> /\ Quiet
      BY <1>3 DEF forward_ipc
    <2> QED
      BY <1>1, <1>2, <2>1, <2>2, SubKept
  <1>4. sent' = sent => SentKept
    BY <1>1 DEF SentKept
  <1>5. ASSUME NEW p \in Pubs, NEW flip \in BOOLEAN, PubTimerExpire(p, flip)
        PROVE  SubInv'
    BY <1>1, <1>2, <1>4, <1>5, SubKept DEF PubTimerExpire
  <1>6. ASSUME NEW p \in Pubs, publish(p) PROVE SubInv'
    BY <1>6 DEF publish
  <1>7. ASSUME NEW p \in Pubs, NEW i \in 1 .. Len(sent[p]), NEW skew \in Skews,
               Recv(p, i, skew)
        PROVE  SubInv'
    BY <1>7, DropStep, FirstStep, MatchedStep DEF Recv
  <1>8. CASE Tick
    BY <1>1, <1>2, <1>4, <1>8, SubKept DEF Tick, publisher
  <1>9. CASE Flip \/ SubStart \/ SubStop \/ OtherSub
    BY <1>9, FlipStep, SubSteps
  <1>10. CASE UNCHANGED vars
    <2>1. UNCHANGED <<now, arrived, tab, flipTime, trailing, subMark, sub, starts,
                      prev, sent, report>>
      BY <1>10 DEF vars, publisher, subscriber, window
    <2> QED
      BY <1>2, <2>1 DEF SubInv, SubTypeOK, WinOK, GivenArrived, EntryOK, SeqOK,
                        LastGiven, Found, ReportOK, LossExact
  <1> QED
    BY <1>3, <1>5, <1>6, <1>7, <1>8, <1>9, <1>10 DEF Next

-----------------------------------------------------------------------------
(* The order of the messages given                                         *)

(* how long ago the entry in use was last matched: in this window, in the  *)
(* last one or the one before                                              *)
Aged(t) ==
    \/ IsSeq(tab.cur)
    \/ ~IsSeq(tab.cur) /\ IsSeq(tab.old) /\ t <= flipTime
    \/ ~IsSeq(tab.cur) /\ ~IsSeq(tab.old) /\ t + SubIval < flipTime

(* The last message given to the subscription is in the entry found, or is *)
(* too old to be taken again by sub_window_ival and more.                  *)
Remembered(p) ==
    sub # 0 /\ prev[p] # 0 =>
        \/ sent[p][prev[p]].time + SubIval < trailing
        \/ /\ Found.start = sub /\ p \in DOMAIN Found.last
           /\ Aged(sent[p][prev[p]].time)

OrderInv == (\A p \in Pubs : Remembered(p)) /\ InOrder

(* A step that reports nothing gives no message out of order. *)
LEMMA QuietInOrder == Quiet => InOrder'
    BY DEF Quiet, NoReport, InOrder

(* The messages in Remembered have times the clock has reached. *)
LEMMA PrevTime ==
    ASSUME SubInv, NEW p \in Pubs, prev[p] # 0
    PROVE  sent[p][prev[p]].time \in Nat /\ sent[p][prev[p]].time <= now
  <1>1. prev[p] \in 1 .. Len(sent[p])
    BY PrevSent
  <1>2. sent[p][prev[p]].time \in Nat
    BY <1>1, Sent DEF SubInv, PubInv
  <1>3. sent[p][prev[p]].time <= timer[p]
    BY <1>1 DEF SubInv, PubInv, SentOK
  <1>4. timer[p] \in Nat /\ timer[p] <= now /\ now \in Nat
    BY MsgSeqnoAssumption DEF SubInv, PubInv, PubTypeOK
  <1> QED
    BY <1>2, <1>3, <1>4

(* A step of the publishers or of the clock. *)
LEMMA OrderKept ==
    ASSUME SubInv, OrderInv, SentKept, Quiet, UNCHANGED <<arrived, subscriber>>
    PROVE  OrderInv'
  <1>1. UNCHANGED <<tab, flipTime, trailing, sub, prev>>
    BY DEF subscriber, window
  <1>2. ASSUME NEW p \in Pubs, prev[p] # 0 PROVE sent'[p][prev[p]] = sent[p][prev[p]]
    BY <1>2, PrevSent DEF SentKept
  <1>3. (\A p \in Pubs : Remembered(p))'
    BY <1>1, <1>2 DEF OrderInv, Remembered, Aged, Found
  <1> QED
    BY <1>3, QuietInOrder DEF OrderInv

(* A start or a stop of the subject or of another. *)
LEMMA OrderSub ==
    ASSUME SubInv, OrderInv, SubStart \/ SubStop \/ OtherSub
    PROVE  OrderInv'
  <1>1. /\ UNCHANGED <<sent, flipTime, trailing>>
        /\ tab' = Restamp(tab) /\ Quiet /\ starts' \in Nat /\ starts <= starts'
        /\ \/ prev' = [p \in Pubs |-> 0]
           \/ sub' = 0
           \/ sub' = sub /\ prev' = prev
    BY DEF SubStart, SubStop, OtherSub, publisher, SubInv, SubTypeOK
  <1>2. /\ IsSeq(tab.cur)' <=> IsSeq(tab.cur)
        /\ IsSeq(tab.old)' <=> IsSeq(tab.old)
        /\ Found'.start = Found.start /\ Found'.last = Found.last
    BY <1>1, RestampOK
  <1>3. \A t : Aged(t)' <=> Aged(t)
    BY <1>1, <1>2 DEF Aged
  <1>4. ASSUME NEW p \in Pubs PROVE Remembered(p)'
    BY <1>1, <1>2, <1>3 DEF OrderInv, Remembered
  <1> QED
    BY <1>1, <1>4, QuietInOrder DEF OrderInv

(* SeqnoTab::flip: an entry that leaves the window was last matched more   *)
(* than sub_window_ival before trailing_time.                              *)
LEMMA OrderFlip ==
    ASSUME SubInv, OrderInv, Flip
    PROVE  OrderInv'
  <1>1. /\ UNCHANGED <<now, sent, sub, prev>>
        /\ tab' = [cur |-> NoSeq, old |-> tab.cur, old2 |-> tab.old]
        /\ now > subMark /\ trailing' = flipTime /\ flipTime' = now /\ Quiet
    BY DEF Flip, publisher
  <1>2. /\ tab'.cur = NoSeq /\ tab'.old = tab.cur /\ tab'.old2 = tab.old
        /\ ~IsSeq(NoSeq)
    BY <1>1, NoEntry
  <1>3. /\ now \in Nat /\ flipTime \in Nat /\ trailing \in Nat /\ SubIval \in Nat
        /\ trailing <= flipTime /\ flipTime <= now /\ flipTime + SubIval < now
    BY <1>1, MsgSeqnoAssumption DEF SubInv, PubInv, PubTypeOK, WinOK
  <1>4. ASSUME NEW p \in Pubs PROVE Remembered(p)'
    <2> SUFFICES ASSUME sub # 0, prev[p] # 0
                 PROVE  Remembered(p)'
      BY <1>1 DEF Remembered
    <2> DEFINE t == sent[p][prev[p]].time
    <2>1. t \in Nat /\ t <= now
      BY PrevTime
    <2>2. CASE t + SubIval < trailing
      <3>1. t + SubIval < trailing'
        BY <1>1, <1>3, <2>1, <2>2
      <3> QED
        BY <1>1, <3>1 DEF Remembered
    <2>3. CASE ~(t + SubIval < trailing)
      <3>1. Found.start = sub /\ p \in DOMAIN Found.last /\ Aged(t)
        BY <2>3 DEF OrderInv, Remembered
      <3>2. CASE IsSeq(tab.cur)
        <4>1. Found' = Found /\ Aged(t)'
          BY <1>1, <1>2, <2>1, <3>2 DEF Found, Aged
        <4> QED
          BY <1>1, <3>1, <4>1 DEF Remembered
      <3>3. CASE ~IsSeq(tab.cur) /\ IsSeq(tab.old)
        <4>1. Found' = Found
          BY <1>2, <3>3 DEF Found
        <4>2. t <= flipTime
          BY <3>1, <3>3 DEF Aged
        <4>3. t + SubIval < now
          BY <1>3, <2>1, <4>2
        <4>4. Aged(t)'
          BY <1>1, <1>2, <3>3, <4>3 DEF Aged
        <4> QED
          BY <1>1, <3>1, <4>1, <4>4 DEF Remembered
      <3>4. CASE ~IsSeq(tab.cur) /\ ~IsSeq(tab.old)
        <4>1. t + SubIval < trailing'
          BY <1>1, <3>1, <3>4 DEF Aged
        <4> QED
          BY <1>1, <4>1 DEF Remembered
      <3> QED
        BY <3>2, <3>3, <3>4
    <2> QED
      BY <2>2, <2>3
  <1> QED
    BY <1>1, <1>4, QuietInOrder DEF OrderInv

(* The network hands over an old copy only in the frame of the newest      *)
(* message: one that is not after the last message given is in its frame   *)
(* or a later one.                                                         *)
LEMMA LateInFrame ==
    ASSUME SubInv, LateCopies # "ever", NEW p \in Pubs, NEW i \in 1 .. Len(sent[p]),
           MayArrive(p, i), prev[p] # 0, i <= prev[p]
    PROVE  seqno_frame(sent[p][prev[p]].seqno) <= seqno_frame(sent[p][i].seqno)
  <1> DEFINE a == arrived[p]
             k == prev[p]
  <1>1. /\ k \in 1 .. Len(sent[p]) /\ a \in Nat /\ k <= a /\ a <= Len(sent[p])
        /\ Len(sent[p]) \in Nat
    BY PrevSent DEF SubInv, GivenArrived
  <1>2. i <= a /\ a \in 1 .. Len(sent[p])
    BY <1>1
  <1>3. seqno_frame(sent[p][i].seqno) = seqno_frame(sent[p][a].seqno)
    BY <1>1, <1>2 DEF MayArrive
  <1>4. sent[p][k].seqno \in Nat /\ sent[p][a].seqno \in Nat
    BY <1>1, <1>2, Sent DEF SubInv, PubInv
  <1>5. sent[p][k].seqno <= sent[p][a].seqno
    <2>1. k < a => sent[p][k].seqno < sent[p][a].seqno
      BY <1>1, <1>2 DEF SubInv, PubInv, SeqnoIncreases
    <2>2. k = a \/ k < a
      BY <1>1
    <2> QED
      BY <1>4, <2>1, <2>2
  <1> QED
    BY <1>3, <1>4, <1>5, Frames

(* A message that is not too old is later than one that is too old to be   *)
(* taken again by sub_window_ival, when the error of the skew is no more.  *)
LEMMA NotOldIsLater ==
    ASSUME SubInv, NEW p \in Pubs, NEW i \in 1 .. Len(sent[p]), NEW skew \in Skews,
           skew <= SubIval, ~Old(sent[p][i], skew), prev[p] # 0,
           sent[p][prev[p]].time + SubIval < trailing
    PROVE  i > prev[p]
  <1> DEFINE k == prev[p]
  <1>1. k \in 1 .. Len(sent[p]) /\ i \in Nat /\ k \in Nat
    BY PrevSent
  <1>2. /\ sent[p][i].time \in Nat /\ sent[p][k].time \in Nat
        /\ trailing \in Nat /\ SubIval \in Nat /\ skew \in Int
    BY <1>1, Sent, MsgSeqnoAssumption DEF SubInv, PubInv, WinOK
  <1>3. sent[p][i].time # 0
    BY <1>2, MsgSeqnoAssumption DEF SubInv, PubInv, SentOK
  <1>4. sent[p][k].time < sent[p][i].time
    BY <1>2, <1>3 DEF Old
  <1>5. i < k => sent[p][i].time <= sent[p][k].time
    BY <1>1 DEF SubInv, PubInv, SentOK
  <1>6. i # k
    BY <1>2, <1>4
  <1> QED
    BY <1>1, <1>2, <1>4, <1>5, <1>6

(* match_seqno drops an old message, or finds no subscription for it. *)
LEMMA OrderDrop ==
    ASSUME SubInv, OrderInv, NEW p \in Pubs, NEW i \in 1 .. Len(sent[p]), NEW skew,
           DropOld(p, i, skew) \/ NotSubscribed(p, i, skew)
    PROVE  OrderInv'
  <1>1. /\ UNCHANGED <<sent, flipTime, trailing, sub, prev>>
        /\ report'.status \in {"repeat", "not_subscribed"}
        /\ tab' = tab \/ sub = 0
    BY AsOK DEF DropOld, NotSubscribed, Arrive, Given, Report, publisher
  <1>2. InOrder'
    BY <1>1 DEF InOrder
  <1>3. ASSUME NEW q \in Pubs PROVE Remembered(q)'
    BY <1>1 DEF OrderInv, Remembered, Aged, Found
  <1> QED
    BY <1>2, <1>3 DEF OrderInv

(* The first message of a subscription: another one given to it is no      *)
(* longer in the window.                                                   *)
LEMMA OrderFirst ==
    ASSUME SubInv, OrderInv, \A e \in Skews : e <= SubIval,
           NEW p \in Pubs, NEW i \in 1 .. Len(sent[p]), NEW skew \in Skews,
           FirstOfSub(p, i, skew)
    PROVE  OrderInv'
  <1> DEFINE l == [u \in {p} |-> sent[p][i].seqno]
             s == [last |-> l, uid |-> p, start |-> sub, fresh |-> TRUE]
  <1>1. /\ Arrive(p, i) /\ Given(p, i, As("first")) /\ tab' = Upserted(s)
        /\ sub # 0 /\ sub # Found.start /\ ~Old(sent[p][i], skew)
    BY DEF FirstOfSub
  <1>2. /\ UNCHANGED <<sent, flipTime, trailing, sub, starts>>
        /\ \A q \in Pubs : prev'[q] = IF q = p THEN i ELSE prev[q]
        /\ report' = [uid |-> p, msg |-> i, prev |-> prev[p],
                      status |-> "first", loss |-> 0]
    <2>1. prev \in [Pubs -> Nat]
      BY DEF SubInv, SubTypeOK
    <2> QED
      BY <1>1, <2>1, AsOK DEF Arrive, Given, Report, publisher
  <1>3. \A q \in Pubs : prev[q] # 0 => sent[q][prev[q]].time + SubIval < trailing
    BY <1>1 DEF OrderInv, Remembered
  <1>4. InOrder'
    <2>1. prev[p] \in Nat /\ i \in Nat /\ i > 0
      BY PrevSent
    <2>2. prev[p] # 0 => i > prev[p]
      BY <1>1, <1>3, NotOldIsLater
    <2> QED
      BY <1>2, <2>1, <2>2 DEF InOrder
  <1>5. tab'.cur = s
    BY <1>1 DEF Upserted
  <1>6. s.start = sub /\ DOMAIN s.last = {p}
    OBVIOUS
  <1> HIDE DEF s
  <1>7. IsSeq(s)
    BY <1>1, <1>6, NoEntry DEF IsSeq
  <1>8. Found' = s /\ \A t : Aged(t)'
    BY <1>5, <1>7 DEF Found, IsSeq, Aged
  <1>9. ASSUME NEW q \in Pubs PROVE Remembered(q)'
    <2>1. CASE q = p
      BY <1>2, <1>6, <1>8, <2>1 DEF Remembered
    <2>2. CASE q # p
      BY <1>2, <1>3, <2>2 DEF Remembered
    <2> QED
      BY <2>1, <2>2
  <1> QED
    BY <1>4, <1>9 DEF OrderInv

(* A message of a subscription that has an entry. *)
LEMMA OrderMatched ==
    ASSUME SubInv, OrderInv, LateCopies # "ever", \A e \in Skews : e <= SubIval,
           NEW p \in Pubs, NEW i \in 1 .. Len(sent[p]), NEW skew \in Skews,
           Matched(p, i, skew)
    PROVE  OrderInv'
  <1> DEFINE m == sent[p][i]
             f == Found
             c == IF p \in DOMAIN f.last THEN Classify(f.last[p], m) ELSE As("first")
             n == IF c.status = "repeat" THEN f.last[p] ELSE m.seqno
             l == restore_uid(f.last, p, n)
             s == [f EXCEPT !.last = l, !.uid = p, !.fresh = TRUE]
  <1>1. /\ Arrive(p, i) /\ ~Old(m, skew) /\ Given(p, i, c) /\ tab' = Upserted(s)
        /\ IsSeq(f) /\ (f.fresh \/ sub = f.start)
    BY DEF Matched
  <1>2. /\ sub # 0 /\ f.start = sub
        /\ \A q \in DOMAIN f.last :
              /\ q \in Pubs /\ prev[q] \in 1 .. Len(sent[q])
              /\ f.last[q] = sent[q][prev[q]].seqno
    BY <1>1, InUse
  <1>3. prev[p] \in Nat /\ i \in Nat /\ i > 0
    BY PrevSent
  <1>4. c.status # "repeat" => i > prev[p]
    <2>1. CASE p \in DOMAIN f.last
      <3>1. c = Classify(sent[p][prev[p]].seqno, m) /\ prev[p] \in 1 .. Len(sent[p])
        BY <1>2, <2>1
      <3> HIDE DEF c, f
      <3>2. c.status # "repeat" =>
               \/ i > prev[p]
               \/ seqno_frame(m.seqno) < seqno_frame(sent[p][prev[p]].seqno)
        BY <3>1, ClassifyExact DEF SubInv
      <3>3. i <= prev[p] =>
               seqno_frame(sent[p][prev[p]].seqno) <= seqno_frame(m.seqno)
        BY <1>1, <3>1, LateInFrame DEF Arrive
      <3>4. /\ seqno_frame(m.seqno) \in Nat
            /\ seqno_frame(sent[p][prev[p]].seqno) \in Nat
        BY <3>1, Sent, Frames DEF SubInv, PubInv
      <3> QED
        BY <1>3, <3>2, <3>3, <3>4
    <2>2. CASE p \notin DOMAIN f.last
      <3>1. prev[p] # 0 => sent[p][prev[p]].time + SubIval < trailing
        BY <1>2, <2>2 DEF OrderInv, Remembered
      <3>2. prev[p] # 0 => i > prev[p]
        BY <1>1, <3>1, NotOldIsLater
      <3> QED
        BY <1>3, <3>2
    <2> QED
      BY <2>1, <2>2
  <1>5. c.status = "repeat" => p \in DOMAIN f.last
    BY AsOK
  <1> HIDE DEF c
  <1>6. /\ UNCHANGED <<sent, flipTime, trailing, sub, starts>>
        /\ \A q \in Pubs : q # p => prev'[q] = prev[q]
        /\ report' = [uid |-> p, msg |-> i, prev |-> prev[p],
                      status |-> c.status, loss |-> c.loss]
    <2>1. prev \in [Pubs -> Nat]
      BY DEF SubInv, SubTypeOK
    <2> QED
      BY <1>1, <2>1 DEF Arrive, Given, Report, publisher
  <1>7. InOrder'
    BY <1>3, <1>4, <1>6 DEF InOrder
  <1> HIDE DEF f
  <1>8. s.start = f.start /\ s.last = l
    <2>1. f = [last |-> f.last, uid |-> f.uid, start |-> f.start, fresh |-> f.fresh]
      BY FoundOK DEF f, EntryOK, SeqOK
    <2> HIDE DEF l
    <2> QED
      BY <2>1
  <1>9. DOMAIN l = DOMAIN f.last \union {p}
    BY DEF restore_uid
  <1>10. tab'.cur = s
    BY <1>1 DEF Upserted
  <1> HIDE DEF s, l
  <1>11. IsSeq(s)
    BY <1>2, <1>8, NoEntry DEF IsSeq
  <1>12. Found' = s /\ \A t : Aged(t)'
    BY <1>10, <1>11 DEF Found, IsSeq, Aged
  <1>13. ASSUME NEW q \in Pubs PROVE Remembered(q)'
    <2>1. CASE q \in DOMAIN l
      BY <1>2, <1>6, <1>8, <1>12, <2>1 DEF Remembered
    <2>2. CASE q \notin DOMAIN l
      <3>1. q # p /\ q \notin DOMAIN f.last
        BY <1>9, <2>2
      <3> QED
        BY <1>6, <3>1 DEF OrderInv, Remembered, f
    <2> QED
      BY <2>1, <2>2
  <1> QED
    BY <1>7, <1>13 DEF OrderInv

(* Every step keeps it. *)
LEMMA OrderNext ==
    ASSUME ~Console, LateCopies # "ever", \A skew \in Skews : skew <= SubIval,
           SubInv, OrderInv, [Next]_vars
    PROVE  OrderInv'
  <1>1. \A p \in Pubs : Len(sent[p]) \in Nat
    BY Sent DEF SubInv, PubInv
  <1>2. sent' = sent => SentKept
    BY <1>1 DEF SentKept
  <1>3. ASSUME NEW p \in Pubs, forward_ipc(p) PROVE OrderInv'
    <2>1. SentKept
      BY <1>3, ForwardKeeps DEF SubInv
    <2>2. UNCHANGED <<arrived, subscriber>> /\ Quiet
      BY <1>3 DEF forward_ipc
    <2> QED
      BY <2>1, <2>2, OrderKept
  <1>4. ASSUME NEW p \in Pubs, NEW flip \in BOOLEAN, PubTimerExpire(p, flip)
        PROVE  OrderInv'
    BY <1>2, <1>4, OrderKept DEF PubTimerExpire
  <1>5. ASSUME NEW p \in Pubs, publish(p) PROVE OrderInv'
    BY <1>5 DEF publish
  <1>6. ASSUME NEW p \in Pubs, NEW i \in 1 .. Len(sent[p]), NEW skew \in Skews,
               Recv(p, i, skew)
        PROVE  OrderInv'
    BY <1>6, OrderDrop, OrderFirst, OrderMatched DEF Recv
  <1>7. CASE Tick
    BY <1>2, <1>7, OrderKept DEF Tick, publisher
  <1>8. CASE Flip \/ SubStart \/ SubStop \/ OtherSub
    BY <1>8, OrderFlip, OrderSub
  <1>9. CASE UNCHANGED vars
    <2>1. UNCHANGED <<tab, flipTime, trailing, sub, prev, sent, report>>
      BY <1>9 DEF vars, publisher, subscriber, window
    <2> QED
      BY <2>1 DEF OrderInv, InOrder, Remembered, Aged, Found
  <1> QED
    BY <1>3, <1>4, <1>5, <1>6, <1>7, <1>8, <1>9 DEF Next

-----------------------------------------------------------------------------
(* Theorems                                                                *)

(* The variables keep their types, and the entries of the window are of    *)
(* subscriptions that were started.                                        *)
THEOREM SeqnoTypes ==
    ASSUME ~Console
    PROVE  Spec => []TypeOK
  <1>1. Init => SubInv
    BY SubInit
  <1>2. SubInv /\ [Next]_vars => SubInv'
    BY SubNext
  <1>3. SubInv => TypeOK
    BY SubInvTypes
  <1> QED
    BY <1>1, <1>2, <1>3, PTL DEF Spec

(* What match_seqno reports is what happened, for every loss, copy that    *)
(* arrives late, skew and interleaving of the flips with the messages:     *)
(* "next" means that no message was lost, and a loss that is counted is    *)
(* the number of messages lost, also across frames.                        *)
THEOREM LossesExact ==
    ASSUME ~Console
    PROVE  Spec => []LossExact
  <1>1. Init => SubInv
    BY SubInit
  <1>2. SubInv /\ [Next]_vars => SubInv'
    BY SubNext
  <1>3. SubInv => LossExact
    BY DEF SubInv
  <1> QED
    BY <1>1, <1>2, <1>3, PTL DEF Spec

(* A subscription is given the messages of a publisher in their order and  *)
(* none twice, for every window and frame, when a copy that arrives late   *)
(* is in the frame of the newest message and the error of the skew is not  *)
(* above sub_window_ival.                                                  *)
THEOREM GivenInOrder ==
    ASSUME ~Console, LateCopies # "ever", \A skew \in Skews : skew <= SubIval
    PROVE  Spec => []InOrder
  <1>1. Init => SubInv /\ OrderInv
    <2>1. Init => OrderInv
      BY DEF Init, OrderInv, Remembered, InOrder, NoReport
    <2> QED
      BY <2>1, SubInit
  <1>2. SubInv /\ OrderInv /\ [Next]_vars => SubInv' /\ OrderInv'
    BY SubNext, OrderNext
  <1>3. OrderInv => InOrder
    BY DEF OrderInv
  <1> QED
    BY <1>1, <1>2, <1>3, PTL DEF Spec
=============================================================================

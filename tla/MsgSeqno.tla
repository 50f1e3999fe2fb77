------------------------------- MODULE MsgSeqno -------------------------------
(***************************************************************************)
(* The sequence numbers of one multicast subject, from the publishers to   *)
(* one subscriber (src/include/raims/sub.h, src/src/sub.cpp, session.cpp). *)
(*                                                                         *)
(* A publisher keeps the last number it used in a window of two tables     *)
(* (PubTab) that timer_expire rotates.  A number is a time frame and a     *)
(* count within it; a stream that leaves the window, or whose frame is     *)
(* older than the window, starts again in the frame of the current time,   *)
(* and the first message of such a frame carries the number before it      *)
(* (chain_seqno).  The subscriber keeps the last number of each publisher  *)
(* in a window of three tables (SeqnoTab) and tells with match_seqno       *)
(* whether a message is the next one, follows a loss or is a repeat.       *)
(*                                                                         *)
(* Messages of a publisher are lost at will.  They arrive in the order     *)
(* they were sent, and LateCopies says which copies of older ones may      *)
(* still arrive, by a second path, after that.                             *)
(***************************************************************************)
EXTENDS Integers, Sequences, FiniteSets

CONSTANTS
    Pubs,        \* publishers of the subject, by uid
    FrameTime,   \* ticks in a time frame (2^33 ns in the code)
    FrameSize,   \* numbers in a time frame (2^35 in the code)
    PubIval,     \* pub_window_ival
    SubIval,     \* sub_window_ival
    MaxMsgLoss,  \* MAX_MSG_LOSS: the largest loss that is counted
    Skews,       \* errors of the clock skew estimate (min_skew)
    LateCopies,  \* "never", "frame" (in the newest frame) or "ever"
    Console,     \* the console publishes too (SessionMgr::publish)
    Start,       \* the time the nodes start
    MaxTime,     \* bound: ticks of the clock
    LastPub,     \* bound: the time until which publishers send and rotate
    MaxSent,     \* bound: messages of a publisher
    MaxSubs      \* bound: times the subject is subscribed

ASSUME MsgSeqnoAssumption ==
    /\ FrameTime \in Nat \ {0} /\ FrameSize \in Nat \ {0, 1}
    /\ PubIval \in Nat /\ PubIval >= FrameTime
    /\ SubIval \in Nat
    /\ MaxMsgLoss \in Nat
    /\ Skews \subseteq Int
    /\ LateCopies \in {"never", "frame", "ever"}
    /\ Console \in BOOLEAN
    /\ Start \in Nat /\ Start >= PubIval /\ Start >= SubIval /\ Start >= FrameTime
    /\ MaxTime \in Nat /\ LastPub \in Nat /\ MaxSent \in Nat /\ MaxSubs \in Nat

VARIABLES
    now,         \* real time
    timer,       \* timer_time of a publisher: now at its last timer_expire
    pubTab,      \* the subject in pub and pub_old of PubTab
    pubMark,     \* pub_window_mono_time
    sent,        \* the messages of a publisher, in order
    arrived,     \* the newest message of a publisher to have arrived
    tab,         \* the subject in tab, tab_old and tab_old2 of SeqnoTab
    flipTime,    \* flip_time of SeqnoTab
    trailing,    \* trailing_time of SeqnoTab
    subMark,     \* sub_window_mono_time
    sub,         \* start_seqno of the subscription, 0 when there is none
    starts,      \* subscription starts so far (the source of start_seqno)
    prev,        \* history: last message of a publisher given to this subscription
    report       \* how match_seqno classified a message, in the step that did

publisher  == <<timer, pubTab, pubMark, sent>>
window     == <<tab, flipTime, trailing, subMark>>
subscriber == <<window, sub, starts, prev>>
vars       == <<now, publisher, arrived, subscriber, report>>

NoReport == [uid |-> 0, msg |-> 0, prev |-> 0, status |-> "none", loss |-> 0]

(* a step that classifies no message *)
Quiet == report' = NoReport

-----------------------------------------------------------------------------
(* Sequence numbers: a number is FrameSize times its frame plus its count. *)

seqno_frame(seqno) == seqno \div FrameSize
seqno_base(seqno)  == seqno % FrameSize
time_frame(time)   == time \div FrameTime
seqno_init(time)   == time_frame(time) * FrameSize

Lesser(a, b) == IF a < b THEN a ELSE b

(* no number: 0 is in no frame the clock reaches *)
None == 0

Numbered(last, time, restart) ==
    [seqno |-> IF restart THEN seqno_init(time) + 1 ELSE last + 1,
     time  |-> time,
     chain |-> IF restart THEN last ELSE None]

(* mutant: the stream starts again in the frame it is still in *)
next_seqno_ByNow(last, time) ==
    Numbered(last, time, last = None \/ seqno_frame(last) <= time_frame(time))

(* Pub::next_seqno: last is the number in the window, None when is_new *)
next_seqno(last, time) ==
    Numbered(last, time,
             \/ last = None
             \/ seqno_frame(last) <= time_frame(time - PubIval)
             \/ seqno_base(last + 1) = 0)

-----------------------------------------------------------------------------
(* Publishers                                                              *)

PubRuns == now <= LastPub

Send(p, m) ==
    /\ PubRuns /\ Len(sent[p]) < MaxSent
    /\ sent' = [sent EXCEPT ![p] = Append(@, m)]

(* the number of the subject in the window: PubTab::upsert copies it from  *)
(* pub_old                                                                 *)
Windowed(w) == IF w.pub # None THEN w.pub ELSE w.old

(* a publisher does not use up a frame within the frame: 2^35 numbers      *)
(* would have to be sent in 8.6 seconds                                    *)
FrameLasts(last, time) ==
    \/ seqno_base(last + 1) # 0
    \/ seqno_frame(last) < time_frame(time)

(* SessionMgr::forward_ipc: a message of a local client *)
forward_ipc(p) ==
    LET last == Windowed(pubTab[p])
        m    == next_seqno(last, timer[p])
    IN  /\ FrameLasts(last, timer[p])
        /\ Send(p, m)
        /\ pubTab' = [pubTab EXCEPT ![p].pub = m.seqno]
        /\ UNCHANGED <<now, timer, pubMark, arrived, subscriber>>
        /\ Quiet

(* SessionMgr::publish, from the console.  Only a subject that is not in   *)
(* the pub table is given a number; otherwise mc.seqno stays 0, and so do  *)
(* the time and the chain.                                                 *)
publish(p) ==
    /\ Console
    /\ \/ pubTab[p].pub = None /\ forward_ipc(p)
       \/ /\ pubTab[p].pub # None
          /\ Send(p, [seqno |-> 0, time |-> 0, chain |-> None])
          /\ UNCHANGED <<now, timer, pubTab, pubMark, arrived, subscriber>>
          /\ Quiet

(* PubTab::flip *)
FlippedPub(w) == [pub |-> None, old |-> w.pub]

(* SessionMgr::timer_expire at a publisher.  Whether the table is over its *)
(* size depends on the other subjects: it is flipped or not, but never     *)
(* before pub_window_mono_time.                                            *)
PubTimerExpire(p, flip) ==
    /\ PubRuns
    /\ timer' = [timer EXCEPT ![p] = now]
    /\ IF flip
         THEN /\ now > pubMark[p]
              /\ pubTab' = [pubTab EXCEPT ![p] = FlippedPub(@)]
              /\ pubMark' = [pubMark EXCEPT ![p] = now + PubIval]
         ELSE /\ timer[p] # now
              /\ UNCHANGED <<pubTab, pubMark>>
    /\ UNCHANGED <<now, sent, arrived, subscriber>>
    /\ Quiet

-----------------------------------------------------------------------------
(* The subscriber.  A SubSeqno holds the last number of each publisher     *)
(* (last_uid's, and the others in seqno_ht), the start of the subscription *)
(* it was matched with, and whether update_seqno is still that of SubDB.   *)

NoSeq == [last |-> [u \in {} |-> None], uid |-> None, start |-> 0, fresh |-> FALSE]

IsSeq(s) == s # NoSeq

(* the entry SeqnoTab::upsert finds *)
Found == IF IsSeq(tab.cur) THEN tab.cur
         ELSE IF IsSeq(tab.old) THEN tab.old ELSE tab.old2

(* SubSeqno::copy: the entry copied from keeps last_uid only *)
CopiedFrom(s) == IF IsSeq(s) THEN [s EXCEPT !.last = [u \in {s.uid} |-> s.last[u]]]
                             ELSE s

(* the tables once the entry in use is s *)
Upserted(s) ==
    [cur  |-> s,
     old  |-> IF IsSeq(tab.cur) THEN tab.old ELSE CopiedFrom(tab.old),
     old2 |-> IF IsSeq(tab.cur) \/ IsSeq(tab.old) THEN tab.old2
                                                   ELSE CopiedFrom(tab.old2)]

(* SeqnoTab::remove: a copy in tab_old2 goes only together with one in     *)
(* tab_old, or when the entry was just found there                         *)
Removed ==
    [cur  |-> NoSeq,
     old  |-> NoSeq,
     old2 |-> IF IsSeq(tab.old) \/ ~IsSeq(tab.cur) THEN NoSeq ELSE tab.old2]

FrameLoss == MaxMsgLoss + 1   \* MSG_FRAME_LOSS: no count is known

As(status) == [status |-> status, loss |-> 0]
Unknown    == [status |-> "skip", loss |-> FrameLoss]

(* mutant: the message itself is counted *)
Counted_PlusOne(n) == [status |-> "skip", loss |-> Lesser(n + 1, MaxMsgLoss)]

Counted(n) == [status |-> "skip", loss |-> Lesser(n, MaxMsgLoss)]

(* match_seqno, from "normal case" on: last is the number before, and      *)
(* last_time is in the frame of last, so that the two decide which of the  *)
(* frames is the newer                                                     *)
Classify(last, m) ==
    LET frame == seqno_frame(m.seqno) IN
    CASE m.seqno = last + 1 -> As("next")
      [] m.seqno # last + 1 /\ frame = seqno_frame(last) ->
           IF m.seqno > last THEN Counted(m.seqno - (last + 1)) ELSE As("repeat")
      [] m.seqno # last + 1 /\ frame > seqno_frame(last) ->
           IF m.chain = last THEN As("next")
           ELSE IF seqno_frame(m.chain) = seqno_frame(last) THEN Counted(m.chain - last)
           ELSE IF seqno_base(m.seqno) = 1 THEN As("cycle")
           ELSE Unknown
      [] m.seqno # last + 1 /\ frame < seqno_frame(last) ->
           IF seqno_base(m.seqno) = 1 THEN As("cycle") ELSE Unknown

(* mutant: the number of the publisher before is not saved *)
restore_uid_NotSaved(last, p, n) == [u \in {p} |-> n]

(* SubSeqno::restore_uid and what follows it: n is now the last number of  *)
(* p, and the other publishers keep theirs                                 *)
restore_uid(last, p, n) ==
    [u \in DOMAIN last \union {p} |-> IF u = p THEN n ELSE last[u]]

Report(p, i, c) ==
    report' = [uid |-> p, msg |-> i, prev |-> prev[p],
               status |-> c.status, loss |-> c.loss]

Given(p, i, c) ==
    /\ Report(p, i, c)
    /\ prev' = IF c.status \in {"repeat", "not_subscribed"} THEN prev
                                                          ELSE [prev EXCEPT ![p] = i]

(* the copies of its messages that the network may still hand over *)
MayArrive(p, i) ==
    \/ i > arrived[p]
    \/ LateCopies = "ever"
    \/ /\ LateCopies = "frame" /\ i <= arrived[p]
       /\ seqno_frame(sent[p][i].seqno) = seqno_frame(sent[p][arrived[p]].seqno)

Arrive(p, i) ==
    /\ MayArrive(p, i)
    /\ arrived' = [arrived EXCEPT ![p] = IF i > @ THEN i ELSE @]
    /\ UNCHANGED <<now, publisher, flipTime, trailing, subMark, sub, starts>>

Old(m, skew) == m.time # 0 /\ m.time + skew < trailing

(* match_seqno: the message is older than the window *)
DropOld(p, i, skew) ==
    /\ Arrive(p, i)
    /\ Old(sent[p][i], skew)
    /\ Given(p, i, As("repeat"))
    /\ UNCHANGED tab

(* match_seqno: no entry, or a stale one, and match_subscription fails *)
NotSubscribed(p, i, skew) ==
    /\ Arrive(p, i)
    /\ ~Old(sent[p][i], skew)
    /\ ~Found.fresh /\ sub = 0
    /\ Given(p, i, As("not_subscribed"))
    /\ tab' = Removed

(* match_seqno: a new entry, or one of an earlier subscription *)
FirstOfSub(p, i, skew) ==
    /\ Arrive(p, i)
    /\ ~Old(sent[p][i], skew)
    /\ ~Found.fresh /\ sub # 0 /\ sub # Found.start
    /\ Given(p, i, As("first"))
    /\ tab' = Upserted([last |-> [u \in {p} |-> sent[p][i].seqno],
                        uid |-> p, start |-> sub, fresh |-> TRUE])

(* match_seqno: the entry is in use, and restore_uid has the publisher or  *)
(* not                                                                     *)
Matched(p, i, skew) ==
    LET m == sent[p][i]
        s == Found
        c == IF p \in DOMAIN s.last THEN Classify(s.last[p], m)
                                    ELSE As("first")
        n == IF c.status = "repeat" THEN s.last[p] ELSE m.seqno
    IN  /\ Arrive(p, i)
        /\ ~Old(m, skew)
        /\ IsSeq(s) /\ (s.fresh \/ sub = s.start)
        /\ Given(p, i, c)
        /\ tab' = Upserted([s EXCEPT !.last = restore_uid(@, p, n),
                                     !.uid = p, !.fresh = TRUE])

Restamp(w) == [f \in DOMAIN w |-> [w[f] EXCEPT !.fresh = FALSE]]

(* mutant: the number of the start is not used up *)
SubStart_Reused ==
    /\ sub = 0 /\ starts < MaxSubs
    /\ sub' = starts + 1 /\ starts' = starts
    /\ tab' = Restamp(tab)
    /\ prev' = [p \in Pubs |-> 0]
    /\ Quiet
    /\ UNCHANGED <<now, publisher, arrived, flipTime, trailing, subMark>>

(* SubTab::start of a subject that is not subscribed; update_bloom makes   *)
(* every entry stale                                                       *)
SubStart ==
    /\ sub = 0 /\ starts < MaxSubs
    /\ sub' = starts + 1 /\ starts' = starts + 1
    /\ tab' = Restamp(tab)
    /\ prev' = [p \in Pubs |-> 0]
    /\ Quiet
    /\ UNCHANGED <<now, publisher, arrived, flipTime, trailing, subMark>>

SubStop ==
    /\ sub # 0
    /\ sub' = 0
    /\ tab' = Restamp(tab)
    /\ UNCHANGED <<now, publisher, arrived, flipTime, trailing, subMark,
                   starts, prev>>
    /\ Quiet

(* a start or a stop of another subject *)
OtherSub ==
    /\ tab' = Restamp(tab) /\ tab' # tab
    /\ UNCHANGED <<now, publisher, arrived, flipTime, trailing, subMark,
                   sub, starts, prev>>
    /\ Quiet

(* mutant: trailing_time stays where it was *)
Flip_NotTrailing ==
    /\ now > subMark
    /\ tab' = [cur |-> NoSeq, old |-> tab.cur, old2 |-> tab.old]
    /\ trailing' = trailing
    /\ flipTime' = now
    /\ subMark' = now + SubIval
    /\ UNCHANGED <<now, publisher, arrived, sub, starts, prev>>
    /\ Quiet

(* SessionMgr::timer_expire and SeqnoTab::flip at the subscriber *)
Flip ==
    /\ now > subMark
    /\ tab' = [cur |-> NoSeq, old |-> tab.cur, old2 |-> tab.old]
    /\ trailing' = flipTime
    /\ flipTime' = now
    /\ subMark' = now + SubIval
    /\ UNCHANGED <<now, publisher, arrived, sub, starts, prev>>
    /\ Quiet

-----------------------------------------------------------------------------
Tick ==
    /\ now < MaxTime
    /\ now' = now + 1
    /\ UNCHANGED <<publisher, arrived, subscriber>>
    /\ Quiet

Init ==
    /\ now = Start
    /\ timer = [p \in Pubs |-> Start]
    /\ pubTab = [p \in Pubs |-> [pub |-> None, old |-> None]]
    /\ pubMark = [p \in Pubs |-> Start + PubIval]
    /\ sent = [p \in Pubs |-> << >>]
    /\ arrived = [p \in Pubs |-> 0]
    /\ tab = [cur |-> NoSeq, old |-> NoSeq, old2 |-> NoSeq]
    /\ flipTime = Start
    /\ trailing = Start - SubIval
    /\ subMark = Start + SubIval
    /\ sub = 0
    /\ starts = 0
    /\ prev = [p \in Pubs |-> 0]
    /\ report = NoReport

Recv(p, i, skew) ==
    \/ DropOld(p, i, skew)
    \/ NotSubscribed(p, i, skew)
    \/ FirstOfSub(p, i, skew)
    \/ Matched(p, i, skew)

Next ==
    \/ Tick
    \/ Flip
    \/ SubStart \/ SubStop \/ OtherSub
    \/ \E p \in Pubs :
          \/ forward_ipc(p)
          \/ publish(p)
          \/ \E flip \in BOOLEAN : PubTimerExpire(p, flip)
          \/ \E i \in 1 .. Len(sent[p]), skew \in Skews : Recv(p, i, skew)

Spec == Init /\ [][Next]_vars

-----------------------------------------------------------------------------
(* Properties                                                              *)

SeqOK(s) ==
    /\ s = [last |-> s.last, uid |-> s.uid, start |-> s.start, fresh |-> s.fresh]
    /\ DOMAIN s.last \subseteq Pubs /\ s.last \in [DOMAIN s.last -> Nat]
    /\ IsSeq(s) => s.uid \in DOMAIN s.last
    /\ s.start \in 0 .. starts
    /\ s.fresh \in BOOLEAN

Message == [seqno : Nat, time : Nat, chain : Nat]

PubTypeOK ==
    /\ now \in Nat
    /\ timer \in [Pubs -> Start .. now]
    /\ pubTab \in [Pubs -> [pub : Nat, old : Nat]]
    /\ pubMark \in [Pubs -> Start + PubIval .. now + PubIval]
    /\ sent \in [Pubs -> Seq(Message)]

(* The types of the variables; a subscription's start_seqno was issued.    *)
TypeOK ==
    /\ PubTypeOK
    /\ arrived \in [Pubs -> Nat]
    /\ tab = [cur |-> tab.cur, old |-> tab.old, old2 |-> tab.old2]
    /\ SeqOK(tab.cur) /\ SeqOK(tab.old) /\ SeqOK(tab.old2)
    /\ flipTime \in Nat /\ trailing \in Nat /\ subMark \in Nat
    /\ starts \in Nat /\ sub \in 0 .. starts
    /\ prev \in [Pubs -> Nat]
    /\ report \in [uid : Pubs \union {0}, msg : Nat, prev : Nat, loss : 0 .. FrameLoss,
                   status : {"none", "first", "next", "skip", "cycle", "repeat",
                             "not_subscribed"}]

(* The numbers a publisher gives a subject increase, whatever the timer,   *)
(* the rotation of its window and the frames do (Pub::next_seqno,          *)
(* PubTab::flip): a number is never used for two messages.                 *)
SeqnoIncreases ==
    \A p \in Pubs : \A i, j \in 1 .. Len(sent[p]) :
        i < j => sent[p][i].seqno < sent[p][j].seqno

(* What match_seqno says of a message is what happened: "next" means that  *)
(* nothing was lost since the message before, and a counted loss is the    *)
(* number of messages lost, also across a change of frame.                 *)
LossExact ==
    /\ report.status = "next" => report.msg = report.prev + 1
    /\ report.status = "skip" /\ report.loss # FrameLoss =>
          report.loss = Lesser(report.msg - report.prev - 1, MaxMsgLoss)

(* A subscription is given the numbered messages of a publisher in the     *)
(* order they were sent and none of them twice, also after its entry was   *)
(* rotated out of the window (SeqnoTab::flip and the trailing_time test of *)
(* match_seqno).                                                           *)
InOrder ==
    report.status \in {"first", "next", "skip", "cycle"} =>
        \/ sent[report.uid][report.msg].seqno = 0
        \/ report.msg > report.prev

(* A message that names its predecessor, which the subscription did not    *)
(* get, is given with a notice of loss.                                    *)
ChainedLossNotified ==
    report.status = "cycle" =>
        \/ sent[report.uid][report.msg].chain = None
        \/ report.msg = report.prev + 1
=============================================================================

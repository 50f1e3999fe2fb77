------------------------------- MODULE SubList -------------------------------
(***************************************************************************)
(* The list of a node's subscriptions in the order they started, kept for  *)
(* replay (src/include/raims/sub_list.h): a linked list of arrays of Cap   *)
(* slots.  A stopped subscription leaves a hole, a full array with holes   *)
(* is compacted, an array without subscriptions is freed.  The counters    *)
(* count and drop are unsigned integers of Width values.                   *)
(***************************************************************************)
EXTENDS Integers, Sequences, SequencesExt

CONSTANTS
    Cap,     \* SUB_ELEM_CAP: slots of an array (64 in the code)
    Width    \* values of count and drop (2^16 in the code)

ASSUME SubListAssumption == Cap \in Nat \ {0} /\ Width \in Nat /\ Width > Cap

(* an entry is what finds a route: its start_seqno, its hash and whether   *)
(* it is a pattern (action); a hole has the seqno 0                        *)
Hole == [seqno |-> 0, hash |-> 0, pat |-> FALSE]

SubElem == [slot |-> [i \in 0 .. Cap - 1 |-> Hole],
            drop |-> 0, count |-> 0, first |-> 0, last |-> 0]

is_full(el)  == el.count - el.drop = Cap
is_empty(el) == el.count - el.drop = 0

(* the elements of s with an index in I, in order *)
Picked(s, I) ==
    LET P[i \in 0 .. Len(s)] ==
            IF i = 0 THEN << >>
            ELSE IF i \in I THEN Append(P[i - 1], s[i]) ELSE P[i - 1]
    IN  P[Len(s)]

(* the slots in use, in order; those that are not holes, and those of them *)
(* that are in start .. end                                                *)
Slots(el)   == [i \in 1 .. el.last - el.first |-> el.slot[el.first + i - 1]]
Entries(el) == Picked(Slots(el), {i \in DOMAIN Slots(el) : Slots(el)[i].seqno # 0})
Within(el, start, end) ==
    Picked(Slots(el), {i \in DOMAIN Slots(el) :
                          Slots(el)[i].seqno # 0 /\ Slots(el)[i].seqno \in start .. end})

(* mutant: drop still counts the holes that were removed *)
Compact_KeepsDrop(el) ==
    LET kept == Entries(el)
    IN  [slot  |-> [i \in 0 .. Cap - 1 |-> IF i < Len(kept) THEN kept[i + 1] ELSE el.slot[i]],
         drop  |-> el.drop,
         count |-> Len(kept),
         first |-> 0,
         last  |-> Len(kept)]

(* the first half of SubElem::push, when the last slot is taken *)
Compact(el) ==
    LET kept == Entries(el)
    IN  [slot  |-> [i \in 0 .. Cap - 1 |-> IF i < Len(kept) THEN kept[i + 1] ELSE el.slot[i]],
         drop  |-> 0,
         count |-> Len(kept),
         first |-> 0,
         last  |-> Len(kept)]

(* SubElem::push.  A slot past the end of the array is outside of the      *)
(* memory of the list.                                                     *)
ElemPush(el, e) ==
    LET c == IF el.last = Cap THEN Compact(el) ELSE el
    IN  [c EXCEPT !.slot[c.last] = e, !.last = @ + 1, !.count = (@ + 1) % Width]

(* SubElem::exists: the slots that hold the seqno, at most one *)
Found(el, sno) ==
    {i \in el.first .. el.last - 1 :
        /\ ~is_empty(el)
        /\ el.slot[el.last - 1].seqno >= sno
        /\ el.slot[i].seqno = sno
        /\ \A j \in el.first .. i - 1 : el.slot[j].seqno < sno}

(* SubElem::pop of the entry in slot i *)
ElemPop(el, i) ==
    LET e    == [el EXCEPT !.slot[i].seqno = 0, !.drop = (@ + 1) % Width]
        Used == {j \in e.first .. e.last - 1 : e.slot[j].seqno # 0}
    IN  IF e.drop = e.count THEN [e EXCEPT !.first = 0, !.last = 0]
        ELSE IF i = e.first THEN [e EXCEPT !.first = CHOOSE j \in Used : \A k \in Used : j <= k]
        ELSE IF i = e.last - 1 THEN [e EXCEPT !.last = 1 + CHOOSE j \in Used : \A k \in Used : j >= k]
        ELSE e

(* SubList::push *)
ListPush(list, e) ==
    IF list = << >> \/ is_full(list[Len(list)])
      THEN Append(list, ElemPush(SubElem, e))
      ELSE [list EXCEPT ![Len(list)] = ElemPush(@, e)]

(* SubList::pop: the first array that has the seqno loses it, and is freed *)
(* with its last entry                                                     *)
ListPop(list, sno) ==
    LET Has == {n \in DOMAIN list : Found(list[n], sno) # {}}
        at  == CHOOSE n \in Has : \A m \in Has : n <= m
        el  == ElemPop(list[at], CHOOSE i \in Found(list[at], sno) : TRUE)
    IN  IF Has = {} THEN list
        ELSE IF is_empty(el) THEN RemoveAt(list, at)
        ELSE [list EXCEPT ![at] = el]

(* SubListIter: the entries in start .. end, from the first array on *)
Replay(list, start, end) ==
    FlattenSeq([n \in DOMAIN list |-> Within(list[n], start, end)])
=============================================================================

--------------------------- MODULE ConnectMgrProof ---------------------------
(***************************************************************************)
(* Proofs about ConnectMgr for any urls, routes, sockets and bounds, when  *)
(* sockets that are told to close do so before other events (Prompt): a    *)
(* context has one connection, counts are exact, no context waits for what *)
(* does not come, and no peer is forgotten.                                *)
(***************************************************************************)
EXTENDS ConnectMgr, WellFoundedInduction, TLAPS

(* A socket that a context made is its client; one that was accepted has a *)
(* route without a context once its keys are exchanged                     *)
Placed(s) ==
    LET k == sock[s]
    IN  /\ k.kind = "free" => k = FreeSock
        /\ k.kind = "connect" =>
              /\ k.id \in Id /\ rte[k.id].ctx
              /\ rte[k.id].client = s /\ rte[k.id].host = k.peer
        /\ k.kind = "accept" /\ k.open =>
              /\ k.id \in Id /\ rte[k.id].made /\ ~rte[k.id].ctx
              /\ rte[k.id].url \in {NoUrl, k.peer}
        /\ k.kind = "accept" /\ ~k.open => k.id = None

(* What a route waits for in each state of its context *)
Waits(r) ==
    /\ r.state = "lookup"   => ~r.timer /\ (r.asked <=> r.client = None)
    /\ r.state = "timer"    => r.timer /\ ~r.asked /\ r.client = None
    /\ r.state = "active"   => ~r.timer /\ ~r.asked /\ r.client # None
    /\ r.state = "idle"     => ~r.timer /\ ~r.asked /\ r.client = None
    /\ r.state = "shutdown" => (r.client # None => ~r.asked)

Shaped(i) ==
    LET r == rte[i]
    IN  /\ ~r.made => r = NewRoute
        /\ r.ctx => r.made /\ r.host \in Url /\ r.url = r.host
        /\ ~r.ctx => /\ r.state = "shutdown" /\ r.host = NoUrl
                     /\ ~r.timer /\ ~r.asked /\ r.client = None
        /\ Waits(r)
        /\ r.client # None => /\ sock[r.client].kind = "connect"
                              /\ sock[r.client].id = i
                              /\ r.state = "shutdown" => sock[r.client].closing
        /\ r.made /\ ~r.shut => r.conn # {} \/ (r.ctx /\ r.state # "shutdown")
        /\ \A s, t \in r.conn : s = t

(* A route notifies a context of the peer it leads to, which has no client *)
(* if it stopped; a route without a context does so while it is connected  *)
Notifies(j) ==
    LET k == rte[j].notify
    IN  k # None =>
          /\ k # j /\ rte[k].ctx /\ rte[k].host = rte[j].url
          /\ rte[k].state = "shutdown" => rte[k].client = None
          /\ ~rte[j].ctx => rte[j].conn # {}

IndInv ==
    /\ TypeOK
    /\ \A s \in Sock : Placed(s)
    /\ \A i \in Id : Shaped(i)
    /\ CountExact
    /\ \A j \in Id : Notifies(j)
    /\ NoneForgotten

-----------------------------------------------------------------------------
(* Parts                                                                   *)

(* A set of numbers that is not empty has its first. *)
LEMMA FirstIn ==
    ASSUME NEW S, S \subseteq Nat, S # {}
    PROVE  First(S) \in S
<1>1. PICK m \in S : \A n \in S : ~(<<n, m>> \in OpToRel(<, Nat))
  BY WFMin, NatLessThanWellFounded
<1>2. \A m1, n1 \in Nat : m1 < n1 => <<m1, n1>> \in OpToRel(<, Nat)
  BY DEF OpToRel
<1>3. \A n \in S : ~(n < m)
  BY <1>1, <1>2
<1>4. \A n \in S : m <= n
  BY <1>3
<1> QED
  BY <1>4 DEF First

(* The ids of routes and sockets are numbers, and None is not one. *)
LEMMA Ids ==
    /\ Id \subseteq Nat /\ None \notin Id
    /\ Sock \subseteq Nat /\ None \notin Sock
BY ConnectMgrAssumption DEF Id, Sock, None

(* The values routes and sockets start with have their types. *)
LEMMA NewTypes == NewRoute \in Route /\ FreeSock \in Socket
BY DEF NewRoute, FreeSock, Route, Socket, NoUrl, None

(* A change of state clears the timer and nothing else. *)
LEMMA StateFacts ==
    ASSUME NEW r \in Route,
           NEW st \in {"idle", "lookup", "active", "timer", "shutdown"}
    PROVE  /\ set_state(r, st) \in Route
           /\ set_state(r, st) = [r EXCEPT !.state = st, !.timer = FALSE]
BY DEF set_state, Route

(* A context that connects waits for its lookup. *)
LEMMA ConnectFacts ==
    ASSUME NEW r \in Route
    PROVE  LET q == connect(r)
           IN  /\ q \in Route
               /\ q.made = r.made /\ q.url = r.url /\ q.shut = r.shut
               /\ q.conn = r.conn /\ q.notify = r.notify /\ q.ctx = r.ctx
               /\ q.host = r.host /\ q.client = r.client
               /\ q.state = "lookup" /\ q.asked /\ ~q.timer
<1> DEFINE p == set_state(r, "lookup")
<1>1. p \in Route /\ p = [r EXCEPT !.state = "lookup", !.timer = FALSE]
  BY StateFacts
<1>2. connect(r) = [p EXCEPT !.prog = TRUE, !.asked = TRUE]
  BY DEF connect
<1> HIDE DEF p
<1> QED
  BY <1>1, <1>2 DEF Route

(* A context that did not stop waits for its timer, or gave up. *)
LEMMA AgainFacts ==
    ASSUME NEW r \in Route, NEW e \in BOOLEAN, ~r.asked, r.client = None
    PROVE  LET q == Again(r, e)
           IN  /\ q \in Route
               /\ q.made = r.made /\ q.url = r.url /\ q.shut = r.shut
               /\ q.conn = r.conn /\ q.notify = r.notify /\ q.ctx = r.ctx
               /\ q.host = r.host /\ q.client = None /\ ~q.asked
               /\ r.state = "shutdown" => q = r
               /\ r.state # "shutdown" => q.state \in {"idle", "timer"}
               /\ Waits(q)
<1>1. CASE r.state = "shutdown"
  <2>1. Again(r, e) = r
    BY <1>1 DEF Again
  <2> QED
    BY <1>1, <2>1 DEF Waits
<1>2. CASE r.state # "shutdown" /\ e
  <2> DEFINE p == set_state(r, "idle")
  <2>1. p \in Route /\ p = [r EXCEPT !.state = "idle", !.timer = FALSE]
    BY StateFacts
  <2>2. Again(r, e) = [p EXCEPT !.prog = FALSE]
    BY <1>2 DEF Again
  <2> HIDE DEF p
  <2> QED
    BY <1>2, <2>1, <2>2 DEF Waits, Route
<1>3. CASE r.state # "shutdown" /\ ~e
  <2> DEFINE p == set_state(r, "timer")
  <2>1. p \in Route /\ p = [r EXCEPT !.state = "timer", !.timer = FALSE]
    BY StateFacts
  <2>2. Again(r, e) = [p EXCEPT !.timer = TRUE]
    BY <1>3 DEF Again
  <2> HIDE DEF p
  <2> QED
    BY <1>3, <2>1, <2>2 DEF Waits, Route
<1> QED
  BY <1>1, <1>2, <1>3

-----------------------------------------------------------------------------
(* A step of one context                                                   *)

(* What listener, flag, wanted urls and counters have as types in the next *)
(* state                                                                   *)
RestTyped ==
    /\ listener' \in {"up", "closing", "down"} /\ down' \in BOOLEAN
    /\ wanted' \subseteq Url
    /\ calls' \in 0 .. MaxCalls /\ faults' \in 0 .. MaxFaults

(* A context that moves on, without a change of sockets, keeps the invariant. *)
LEMMA ContextStep ==
    ASSUME IndInv, NEW i \in Id, NEW q \in Route,
           q.made, q.ctx, q.host \in Url, q.url = q.host, Waits(q),
           q.conn = rte[i].conn, q.client = rte[i].client, q.notify = rte[i].notify,
           rte[i].ctx => q.host = rte[i].host,
           rte[i].ctx \/ rte[i].conn = {},
           q.state = "shutdown" => rte[i].state = "shutdown",
           ~q.shut => q.conn # {} \/ q.state # "shutdown",
           rte' = [rte EXCEPT ![i] = q], sock' = sock,
           started' = started \/ (started' = started \union {q.host} /\ q.state = "lookup"),
           RestTyped
    PROVE  IndInv'
<1>1. /\ rte \in [Id -> Route] /\ sock \in [Sock -> Socket] /\ started \subseteq Url
      /\ \A s \in Sock : Placed(s)
      /\ \A j \in Id : Shaped(j) /\ Notifies(j)
      /\ CountExact /\ NoneForgotten
  BY DEF IndInv, TypeOK
<1>2. rte'[i] = q /\ \A j \in Id : j # i => rte'[j] = rte[j]
  BY <1>1
<1>3. TypeOK'
  BY <1>1 DEF TypeOK, RestTyped
<1>4. ASSUME NEW s \in Sock PROVE Placed(s)'
  <2>1. Placed(s) /\ Shaped(i)
    BY <1>1
  <2>2. CASE sock[s].id = i
    <3>1. CASE sock[s].kind = "connect"
      BY <2>1, <2>2, <3>1, <1>2 DEF Placed
    <3>2. CASE sock[s].kind = "accept" /\ sock[s].open
      <4>1. s \in rte[i].conn /\ ~rte[i].ctx
        BY <1>1, <2>1, <2>2, <3>2 DEF CountExact, Placed
      <4> QED
        BY <4>1
    <3>3. CASE sock[s].kind = "accept" /\ ~sock[s].open
      BY <2>1, <3>3 DEF Placed
    <3>4. CASE sock[s].kind = "free"
      BY <2>1, <3>4 DEF Placed
    <3> QED
      BY <3>1, <3>2, <3>3, <3>4, <1>1 DEF Socket
  <2>3. CASE sock[s].id # i
    BY <2>1, <2>3, <1>2 DEF Placed
  <2> QED
    BY <2>2, <2>3
<1>5. ASSUME NEW j \in Id PROVE Shaped(j)'
  <2>1. Shaped(j) /\ Waits(rte[j])
    BY <1>1 DEF Shaped
  <2>2. CASE j = i
    BY <2>1, <2>2, <1>2 DEF Shaped, Waits
  <2>3. CASE j # i
    BY <2>1, <2>3, <1>2 DEF Shaped, Waits
  <2> QED
    BY <2>2, <2>3
<1>6. CountExact'
  BY <1>1, <1>2 DEF CountExact
<1>7. ASSUME NEW j \in Id PROVE Notifies(j)'
  <2>1. Notifies(j) /\ Shaped(j) /\ Shaped(i)
    BY <1>1
  <2>2. rte'[j].notify = rte[j].notify
    BY <1>2
  <2>3. CASE rte[j].notify = None
    BY <2>2, <2>3 DEF Notifies
  <2>4. CASE rte[j].notify # None
    <3>1. rte[j].notify \in Id
      BY <2>4, <1>1 DEF Route
    <3>2. j = i => rte[i].ctx
      BY <2>1, <2>4 DEF Notifies
    <3>3. rte'[j].url = rte[j].url /\ rte'[j].conn = rte[j].conn
      BY <3>2, <2>1, <1>2 DEF Shaped
    <3> QED
      BY <2>1, <2>2, <2>4, <3>1, <3>2, <3>3, <1>2 DEF Notifies
  <2> QED
    BY <2>3, <2>4
<1>8. NoneForgotten'
  <2> SUFFICES ASSUME NEW u \in started'
               PROVE  \/ GaveUp(u)'
                      \/ \E k \in Id : rte'[k].host = u /\ (Trying(k)' \/ Watched(k)')
    BY DEF NoneForgotten
  <2>1. \A k \in Id : Watched(k) => Watched(k)'
    BY <1>2 DEF Watched
  <2>2. \A k \in Id : rte[k].host \in Url => rte'[k].host = rte[k].host
    <3>1. Shaped(i)
      BY <1>1
    <3> QED
      BY <3>1, <1>2, ConnectMgrAssumption DEF Shaped
  <2>3. \A k \in Id : Trying(k) => Trying(k)' \/ rte'[k].state = "idle"
    BY <1>1, <1>2 DEF Trying, Route
  <2>4. \A k \in Id : rte[k].state = "idle" => Trying(k)' \/ rte'[k].state = "idle"
    BY <1>1, <1>2 DEF Trying, Route
  <2>5. CASE u \in started
    <3>1. u \in Url
      BY <2>5, <1>1
    <3>2. PICK k \in Id : /\ rte[k].host = u
                          /\ rte[k].state = "idle" \/ Trying(k) \/ Watched(k)
      BY <2>5, <1>1 DEF NoneForgotten, GaveUp
    <3>3. rte'[k].host = u
      BY <3>1, <3>2, <2>2
    <3> QED
      BY <3>2, <3>3, <2>1, <2>3, <2>4 DEF GaveUp
  <2>6. CASE u \notin started
    <3>1. u = q.host /\ q.state = "lookup"
      BY <2>6
    <3> QED
      BY <3>1, <1>2 DEF Trying
  <2> QED
    BY <2>5, <2>6
<1> QED
  BY <1>3, <1>4, <1>5, <1>6, <1>7, <1>8 DEF IndInv

-----------------------------------------------------------------------------
(* The actions                                                             *)

(* The invariant is about routes, sockets and started connects only. *)
LEMMA RestStep ==
    ASSUME IndInv, UNCHANGED <<rte, sock, started>>, RestTyped
    PROVE  IndInv'
<1>1. TypeOK'
  BY DEF IndInv, TypeOK, RestTyped
<1>2. \A s \in Sock : Placed(s)'
  BY DEF IndInv, Placed
<1>3. \A i \in Id : Shaped(i)'
  BY DEF IndInv, Shaped, Waits
<1>4. CountExact'
  BY DEF IndInv, CountExact
<1>5. \A i \in Id : Notifies(i)'
  BY DEF IndInv, Notifies
<1>6. NoneForgotten'
  BY DEF IndInv, NoneForgotten, GaveUp, Trying, Watched
<1> QED
  BY <1>1, <1>2, <1>3, <1>4, <1>5, <1>6 DEF IndInv

(* What the invariant says, taken apart *)
LEMMA Parts ==
    ASSUME IndInv
    PROVE  /\ TypeOK /\ CountExact /\ NoneForgotten
           /\ rte \in [Id -> Route] /\ sock \in [Sock -> Socket] /\ started \subseteq Url
           /\ \A s \in Sock : Placed(s)
           /\ \A j \in Id : Shaped(j) /\ Notifies(j)
BY DEF IndInv, TypeOK

(* With Prompt a context that stopped has no client when other events come. *)
LEMMA ReadyFacts ==
    ASSUME IndInv, Prompt, Ready, NEW i \in Id, rte[i].state \in {"shutdown", "idle"}
    PROVE  rte[i].client = None
<1>1. Shaped(i) /\ rte[i] \in Route
  BY Parts
<1>2. CASE rte[i].state = "idle"
  BY <1>1, <1>2 DEF Shaped, Waits
<1>3. CASE rte[i].state = "shutdown"
  <2> SUFFICES ASSUME rte[i].client # None PROVE FALSE
    OBVIOUS
  <2>1. rte[i].client \in Sock /\ sock[rte[i].client].closing
    BY <1>1, <1>3 DEF Shaped, Route
  <2> QED
    BY <2>1 DEF Ready
<1> QED
  BY <1>2, <1>3

(* A route is found for reuse among those looked for, or is a new one. *)
LEMMA ReusedFacts ==
    ASSUME NEW F, F \subseteq Made, NEW i \in Reused(F)
    PROVE  i \in Id /\ (i \in F \/ ~rte[i].made)
<1>1. CASE F # {}
  <2>1. i = First(F)
    BY <1>1 DEF Reused
  <2>2. F \subseteq Nat /\ F \subseteq Id
    BY Ids DEF Made
  <2>3. First(F) \in F
    BY <2>2, <1>1, FirstIn
  <2> QED
    BY <2>1, <2>2, <2>3
<1>2. CASE F = {}
  <2>1. Made # Id /\ i = First(Id \ Made)
    BY <1>2 DEF Reused
  <2>2. Id \ Made \subseteq Nat /\ Id \ Made # {}
    BY <2>1, Ids DEF Made
  <2>3. First(Id \ Made) \in Id \ Made
    BY <2>2, FirstIn
  <2> QED
    BY <2>1, <2>3 DEF Made
<1> QED
  BY <1>1, <1>2

(* A connect that starts keeps the invariant. *)
LEMMA MeshConnectStep ==
    ASSUME IndInv, Prompt, Ready, NEW u \in Url, add_mesh_connect(u),
           sock' = sock, RestTyped
    PROVE  IndInv'
<1>1. CASE UNCHANGED <<rte, started>>
  BY <1>1, RestStep
<1>2. CASE ~UNCHANGED <<rte, started>>
  <2>1. PICK i \in Reused(Reusable(u)) :
           /\ rte' = [rte EXCEPT ![i] = connect(
                  [init_state(rte[i]) EXCEPT !.url = u, !.ctx = TRUE, !.host = u])]
           /\ started' = started \union {u}
    BY <1>2 DEF add_mesh_connect
  <2>2. i \in Id /\ (i \in Reusable(u) \/ ~rte[i].made)
    BY <2>1, ReusedFacts DEF Reusable
  <2>3. rte[i] \in Route /\ Shaped(i)
    BY <2>2, Parts
  <2>4. /\ rte[i].conn = {} /\ rte[i].client = None
        /\ rte[i].ctx => rte[i].host = u
    <3>1. CASE ~rte[i].made
      BY <2>3, <3>1 DEF Shaped, NewRoute
    <3>2. CASE i \in Reusable(u)
      BY <2>2, <2>3, <3>2, ReadyFacts DEF Reusable, Shaped
    <3> QED
      BY <2>2, <3>1, <3>2
  <2> DEFINE n == init_state(rte[i])
             m == [n EXCEPT !.url = u, !.ctx = TRUE, !.host = u]
  <2>5. /\ n \in Route /\ n.made /\ n.conn = {} /\ n.client = None
        /\ n.notify = rte[i].notify
    BY <2>3, <2>4 DEF init_state, Route
  <2> HIDE DEF n
  <2>6. /\ m \in Route /\ m.made /\ m.conn = {} /\ m.client = None
        /\ m.notify = rte[i].notify /\ m.ctx /\ m.host = u /\ m.url = u
    BY <2>5 DEF Route
  <2> HIDE DEF m
  <2> DEFINE q == connect(m)
  <2>7. /\ q \in Route /\ q.made /\ q.conn = {} /\ q.client = None
        /\ q.notify = rte[i].notify /\ q.ctx /\ q.host = u /\ q.url = u
        /\ q.state = "lookup" /\ q.asked /\ ~q.timer
    BY <2>6, ConnectFacts
  <2>8. rte' = [rte EXCEPT ![i] = q]
    BY <2>1 DEF m, n
  <2> HIDE DEF q
  <2>9. Waits(q)
    BY <2>7 DEF Waits
  <2> QED
    BY <2>1, <2>2, <2>4, <2>7, <2>8, <2>9, ContextStep
<1> QED
  BY <1>1, <1>2

(* The counters of calls and faults stay within their bounds. *)
LEMMA Counted ==
    ASSUME TypeOK
    PROVE  /\ Called => calls' \in 0 .. MaxCalls
           /\ Fault => faults' \in 0 .. MaxFaults
BY ConnectMgrAssumption DEF TypeOK, Called, Fault

(* A url learned from another node keeps the invariant. *)
LEMMA LearnedStep ==
    ASSUME IndInv, Prompt, NEW u \in Url, Learned(u)
    PROVE  IndInv'
<1>1. RestTyped
  BY Parts, Counted DEF Learned, add_mesh_connect, RestTyped, TypeOK
<1> QED
  BY <1>1, MeshConnectStep DEF Learned

(* A command that starts the transport keeps the invariant. *)
LEMMA StartStep ==
    ASSUME IndInv, Prompt, NEW connecting \in BOOLEAN, Start(connecting)
    PROVE  IndInv'
<1>1. calls' \in 0 .. MaxCalls /\ sock' = sock /\ Ready /\ TypeOK
  BY Parts, Counted DEF Start
<1>2. CASE Fault /\ UNCHANGED <<listener, down, rte, wanted, started>>
  <2>1. RestTyped
    BY <1>1, <1>2, Counted DEF RestTyped, TypeOK
  <2> QED
    BY <1>1, <1>2, <2>1, RestStep
<1>3. CASE /\ listener' = IF down /\ listener = "down" THEN "up" ELSE listener
           /\ down' = FALSE
           /\ IF connecting THEN add_mesh_connect(Home)
              ELSE UNCHANGED <<rte, wanted, started>>
           /\ UNCHANGED faults
  <2>1. RestTyped
    BY <1>1, <1>3, ConnectMgrAssumption DEF add_mesh_connect, RestTyped, TypeOK
  <2>2. CASE connecting
    BY <1>1, <1>3, <2>1, <2>2, MeshConnectStep, ConnectMgrAssumption
  <2>3. CASE ~connecting
    BY <1>1, <1>3, <2>1, <2>3, RestStep
  <2> QED
    BY <2>2, <2>3
<1> QED
  BY <1>2, <1>3 DEF Start

(* A timer that runs out keeps the invariant. *)
LEMMA TimerStep ==
    ASSUME IndInv, NEW i \in Id, timer_cb(i)
    PROVE  IndInv'
<1>1. rte[i] \in Route /\ Shaped(i) /\ TypeOK
  BY Parts
<1>2. RestTyped /\ sock' = sock /\ started' = started /\ rte[i].timer
  BY <1>1 DEF timer_cb, RestTyped, TypeOK
<1>3. rte[i].ctx /\ rte[i].made /\ Waits(rte[i])
  BY <1>1, <1>2 DEF Shaped
<1>4. CASE rte[i].state = "shutdown"
  <2> DEFINE q == [rte[i] EXCEPT !.timer = FALSE]
  <2>1. rte' = [rte EXCEPT ![i] = q]
    BY <1>4 DEF timer_cb
  <2>2. /\ q \in Route /\ q.made /\ q.ctx /\ q.host = rte[i].host /\ q.url = rte[i].url
        /\ q.conn = rte[i].conn /\ q.client = rte[i].client /\ q.notify = rte[i].notify
        /\ q.state = "shutdown" /\ q.asked = rte[i].asked /\ q.shut = rte[i].shut
    BY <1>1, <1>3, <1>4 DEF Route
  <2> HIDE DEF q
  <2>3. Waits(q)
    BY <1>3, <1>4, <2>2 DEF Waits
  <2>4. /\ q.host \in Url /\ q.url = q.host
        /\ ~q.shut => q.conn # {} \/ q.state # "shutdown"
    BY <1>1, <1>3, <1>4, <2>2 DEF Shaped
  <2> QED
    BY <1>2, <1>3, <1>4, <2>1, <2>2, <2>3, <2>4, ContextStep
<1>5. CASE rte[i].state # "shutdown"
  <2> DEFINE q == [rte[i] EXCEPT !.timer = FALSE, !.state = "lookup", !.prog = TRUE,
                                 !.asked = TRUE]
  <2>1. rte' = [rte EXCEPT ![i] = q]
    BY <1>5 DEF timer_cb
  <2>2. rte[i].client = None
    BY <1>1, <1>2, <1>3, <1>5 DEF Waits, Route
  <2>3. /\ q \in Route /\ q.made /\ q.ctx /\ q.host = rte[i].host /\ q.url = rte[i].url
        /\ q.conn = rte[i].conn /\ q.client = rte[i].client /\ q.notify = rte[i].notify
        /\ q.state = "lookup" /\ q.asked /\ ~q.timer
    BY <1>1, <1>3 DEF Route
  <2> HIDE DEF q
  <2>4. Waits(q) /\ q.host \in Url /\ q.url = q.host
    BY <1>1, <1>3, <2>2, <2>3 DEF Waits, Shaped
  <2> QED
    BY <1>2, <1>3, <2>1, <2>3, <2>4, ContextStep
<1> QED
  BY <1>4, <1>5

(* A lookup that is answered for a context that stopped, or that failed. *)
LEMMA AnsweredStep ==
    ASSUME IndInv, NEW i \in Id, rte[i].asked, NEW q \in Route,
           NEW e \in BOOLEAN, NEW p \in Route,
           ~p.asked, p.made = rte[i].made, p.url = rte[i].url, p.ctx = rte[i].ctx,
           p.host = rte[i].host, p.conn = rte[i].conn, p.notify = rte[i].notify,
           p.client = rte[i].client, p.state = rte[i].state,
           rte[i].shut => p.shut,
           \/ rte[i].state = "shutdown" /\ q = p
           \/ rte[i].state # "shutdown" /\ q = Again(p, e),
           rte' = [rte EXCEPT ![i] = q], sock' = sock, started' = started, RestTyped
    PROVE  IndInv'
<1>1. rte[i] \in Route /\ Shaped(i)
  BY Parts
<1>2. rte[i].ctx /\ rte[i].made /\ Waits(rte[i])
  BY <1>1 DEF Shaped
<1>3. rte[i].client = None
  BY <1>1, <1>2 DEF Waits, Route
<1>4. CASE rte[i].state = "shutdown"
  <2>1. Waits(p)
    BY <1>2, <1>3, <1>4 DEF Waits
  <2>2. ~p.shut => p.conn # {}
    BY <1>1, <1>2, <1>4 DEF Shaped
  <2>3. p.host \in Url /\ p.url = p.host
    BY <1>1, <1>2 DEF Shaped
  <2> QED
    BY <1>2, <1>4, <2>1, <2>2, <2>3, ContextStep
<1>5. CASE rte[i].state # "shutdown"
  <2>1. /\ q.made /\ q.ctx /\ q.host = rte[i].host /\ q.url = rte[i].url
        /\ q.conn = rte[i].conn /\ q.client = None /\ q.notify = rte[i].notify
        /\ q.state \in {"idle", "timer"} /\ Waits(q)
    <3>1. q = Again(p, e) /\ p.client = None /\ p.state # "shutdown"
      BY <1>3, <1>5
    <3>2. /\ q.made = p.made /\ q.url = p.url /\ q.conn = p.conn /\ q.notify = p.notify
          /\ q.ctx = p.ctx /\ q.host = p.host /\ q.client = None
          /\ q.state \in {"idle", "timer"} /\ Waits(q)
      BY <3>1, AgainFacts
    <3> QED
      BY <1>2, <3>2
  <2>2. q.host \in Url /\ q.url = q.host
    BY <1>1, <1>2, <2>1 DEF Shaped
  <2> QED
    BY <1>2, <1>3, <2>1, <2>2, ContextStep
<1> QED
  BY <1>4, <1>5

(* A context that finds its peer connected stops and is notified later. *)
LEMMA ParkedStep ==
    ASSUME IndInv, NEW i \in Id, rte[i].asked, rte[i].state # "shutdown",
           NEW j \in Id, j # i, rte[j].made, ~rte[j].shut, rte[j].url = rte[i].url,
           rte' = Parked(i, j), sock' = sock, started' = started, RestTyped
    PROVE  IndInv'
<1>1. /\ rte \in [Id -> Route] /\ sock \in [Sock -> Socket] /\ started \subseteq Url
      /\ \A s \in Sock : Placed(s)
      /\ \A k \in Id : Shaped(k) /\ Notifies(k)
      /\ CountExact /\ NoneForgotten
  BY Parts
<1>2. /\ rte[i].ctx /\ rte[i].client = None
      /\ rte[i].host = rte[i].url /\ rte[i].host \in Url
  <2>1. Shaped(i) /\ rte[i] \in Route
    BY <1>1
  <2> QED
    BY <2>1 DEF Shaped, Waits, Route
<1>3. /\ rte[j].conn # {} \/ (rte[j].ctx /\ rte[j].state # "shutdown")
      /\ rte[j].ctx => rte[j].host = rte[i].host
  <2>1. Shaped(j)
    BY <1>1
  <2> QED
    BY <2>1, <1>2 DEF Shaped
<1> DEFINE p == [rte[i] EXCEPT !.asked = FALSE, !.prog = FALSE, !.shut = TRUE,
                               !.state = "shutdown"]
           n == [rte[j] EXCEPT !.notify = i]
<1>4. rte'[i] = p /\ rte'[j] = n /\ \A k \in Id : k # i /\ k # j => rte'[k] = rte[k]
  BY <1>1 DEF Parked
<1>5. /\ p \in Route /\ p.made = rte[i].made /\ p.url = rte[i].url /\ p.shut
      /\ p.conn = rte[i].conn /\ p.notify = rte[i].notify /\ p.ctx
      /\ p.host = rte[i].host /\ p.state = "shutdown" /\ p.timer = rte[i].timer
      /\ ~p.asked /\ p.client = None
  BY <1>1, <1>2 DEF Route
<1>6. /\ n \in Route /\ n.made = rte[j].made /\ n.url = rte[j].url /\ n.shut = rte[j].shut
      /\ n.conn = rte[j].conn /\ n.notify = i /\ n.ctx = rte[j].ctx
      /\ n.host = rte[j].host /\ n.state = rte[j].state /\ n.timer = rte[j].timer
      /\ n.asked = rte[j].asked /\ n.client = rte[j].client
  BY <1>1 DEF Route
<1> HIDE DEF p, n
<1>7. rte' \in [Id -> Route]
  <2>1. rte' = [rte EXCEPT ![i] = rte'[i], ![j] = rte'[j]]
    BY <1>1 DEF Parked
  <2> QED
    BY <2>1, <1>1, <1>4, <1>5, <1>6
<1>8. \A k \in Id : /\ rte'[k].made = rte[k].made /\ rte'[k].url = rte[k].url
                    /\ rte'[k].conn = rte[k].conn /\ rte'[k].ctx = rte[k].ctx
                    /\ rte'[k].host = rte[k].host /\ rte'[k].client = rte[k].client
  BY <1>2, <1>4, <1>5, <1>6
<1>9. TypeOK'
  BY <1>1, <1>7 DEF TypeOK, RestTyped
<1>10. ASSUME NEW s \in Sock PROVE Placed(s)'
  <2>1. Placed(s)
    BY <1>1
  <2> QED
    BY <2>1, <1>8 DEF Placed
<1>11. ASSUME NEW k \in Id PROVE Shaped(k)'
  <2>1. Shaped(k)
    BY <1>1
  <2>2. CASE k = i
    BY <2>1, <2>2, <1>2, <1>4, <1>5 DEF Shaped, Waits
  <2>3. CASE k = j
    BY <2>1, <2>3, <1>4, <1>6 DEF Shaped, Waits
  <2>4. CASE k # i /\ k # j
    BY <2>1, <2>4, <1>4 DEF Shaped, Waits
  <2> QED
    BY <2>2, <2>3, <2>4
<1>12. CountExact'
  BY <1>1, <1>8 DEF CountExact
<1>13. ASSUME NEW k \in Id PROVE Notifies(k)'
  <2>1. Notifies(k)
    BY <1>1
  <2>2. CASE k = j
    BY <2>2, <1>2, <1>3, <1>4, <1>5, <1>6 DEF Notifies
  <2>3. CASE k # j
    <3>1. rte'[k].notify = rte[k].notify
      BY <2>3, <1>4, <1>5
    <3>2. CASE rte[k].notify = None
      BY <3>1, <3>2 DEF Notifies
    <3>3. CASE rte[k].notify # None
      <4>1. rte[k].notify \in Id
        BY <3>3, <1>1 DEF Route
      <4>2. /\ rte'[rte[k].notify].state = "shutdown"
            => rte'[rte[k].notify].client = None
        BY <2>1, <3>3, <4>1, <1>4, <1>5, <1>6 DEF Notifies
      <4> QED
        BY <2>1, <3>1, <3>3, <4>1, <4>2, <1>8 DEF Notifies
    <3> QED
      BY <3>2, <3>3
  <2> QED
    BY <2>2, <2>3
<1>14. NoneForgotten'
  <2> SUFFICES ASSUME NEW u \in started
               PROVE  \/ GaveUp(u)'
                      \/ \E k \in Id : rte'[k].host = u /\ (Trying(k)' \/ Watched(k)')
    BY DEF NoneForgotten
  <2>1. CASE u = rte[i].host
    <3>1. CASE rte[j].conn # {}
      <4>1. Watched(i)'
        BY <3>1, <1>4, <1>6 DEF Watched
      <4> QED
        BY <4>1, <2>1, <1>8
    <3>2. CASE rte[j].conn = {}
      <4>1. rte'[j].host = u /\ rte'[j].state # "shutdown" /\ rte'[j] \in Route
        BY <3>2, <2>1, <1>3, <1>4, <1>6
      <4> QED
        BY <4>1 DEF Trying, GaveUp, Route
    <3> QED
      BY <3>1, <3>2
  <2>2. CASE u # rte[i].host
    <3>1. PICK k \in Id : /\ rte[k].host = u
                          /\ rte[k].state = "idle" \/ Trying(k) \/ Watched(k)
      BY <1>1 DEF NoneForgotten, GaveUp
    <3>2. k # i /\ rte'[k].host = u /\ rte'[k].state = rte[k].state
      BY <3>1, <2>2, <1>4, <1>6, <1>8
    <3>3. CASE Watched(k)
      <4>1. PICK x \in Id : rte[x].notify = k /\ rte[x].conn # {}
        BY <3>3 DEF Watched
      <4>2. x # j
        <5>1. k # None /\ Notifies(x)
          BY Ids, <1>1
        <5> QED
          BY <5>1, <4>1, <3>1, <2>2, <1>2 DEF Notifies
      <4>3. rte'[x].notify = k /\ rte'[x].conn # {}
        BY <4>1, <4>2, <1>4, <1>5, <1>8
      <4> QED
        BY <4>3, <3>2 DEF Watched
    <3>4. CASE ~Watched(k)
      BY <3>1, <3>2, <3>4 DEF Trying, GaveUp
    <3> QED
      BY <3>3, <3>4
  <2> QED
    BY <2>1, <2>2
<1> QED
  BY <1>9, <1>10, <1>11, <1>12, <1>13, <1>14 DEF IndInv

(* The first free socket is a free one. *)
LEMMA FreeFacts ==
    ASSUME IndInv, Free # {}
    PROVE  First(Free) \in Sock /\ sock[First(Free)] = FreeSock
<1>1. Free \subseteq Nat /\ Free \subseteq Sock
  BY Ids DEF Free
<1>2. First(Free) \in Free
  BY <1>1, FirstIn
<1>3. Placed(First(Free))
  BY <1>1, <1>2, Parts
<1> QED
  BY <1>1, <1>2, <1>3 DEF Free, Placed

(* A context whose lookup is answered makes its client. *)
LEMMA ClientStep ==
    ASSUME IndInv, NEW i \in Id, rte[i].asked, rte[i].state # "shutdown",
           NEW c \in Sock, sock[c] = FreeSock,
           NEW q \in Route, q.made, q.url = rte[i].url, q.conn = rte[i].conn,
           q.notify = rte[i].notify, q.ctx, q.host = rte[i].host,
           q.state = "lookup", ~q.timer, ~q.asked, q.client = c,
           NEW k \in Socket, k.kind = "connect", k.peer = rte[i].host, k.id = i, ~k.open,
           rte' = [rte EXCEPT ![i] = q], sock' = [sock EXCEPT ![c] = k],
           started' = started, RestTyped
    PROVE  IndInv'
<1>1. /\ rte \in [Id -> Route] /\ sock \in [Sock -> Socket] /\ started \subseteq Url
      /\ \A s \in Sock : Placed(s)
      /\ \A x \in Id : Shaped(x) /\ Notifies(x)
      /\ CountExact /\ NoneForgotten
  BY Parts
<1>2. /\ rte[i].ctx /\ rte[i].client = None /\ rte[i].state = "lookup" /\ ~rte[i].timer
      /\ rte[i].host \in Url /\ rte[i].url = rte[i].host
  <2>1. Shaped(i) /\ rte[i] \in Route
    BY <1>1
  <2> QED
    BY <2>1 DEF Shaped, Waits, Route
<1>3. /\ rte'[i] = q /\ \A j \in Id : j # i => rte'[j] = rte[j]
      /\ sock'[c] = k /\ \A s \in Sock : s # c => sock'[s] = sock[s]
      /\ ~sock[c].open /\ sock[c].kind = "free"
  BY <1>1 DEF FreeSock
<1>4. c # None
  BY Ids
<1>5. TypeOK'
  BY <1>1 DEF TypeOK, RestTyped
<1>6. ASSUME NEW s \in Sock PROVE Placed(s)'
  <2>1. Placed(s)
    BY <1>1
  <2>2. CASE s = c
    BY <2>2, <1>3 DEF Placed
  <2>3. CASE s # c
    <3>1. sock'[s] = sock[s]
      BY <2>3, <1>3
    <3>2. sock[s].id = i => sock[s].kind # "connect" /\ ~(sock[s].kind = "accept" /\ sock[s].open)
      BY <2>1, <1>2, Ids DEF Placed
    <3> QED
      BY <2>1, <3>1, <3>2, <1>3 DEF Placed
  <2> QED
    BY <2>2, <2>3
<1>7. ASSUME NEW j \in Id PROVE Shaped(j)'
  <2>1. Shaped(j)
    BY <1>1
  <2>2. CASE j = i
    <3>1. \A s, t \in rte[i].conn : s = t
      BY <2>1, <2>2 DEF Shaped
    <3> QED
      BY <2>1, <2>2, <3>1, <1>2, <1>3, <1>4 DEF Shaped, Waits
  <2>3. CASE j # i
    <3>1. rte'[j] = rte[j] /\ rte[j] \in Route
      BY <2>3, <1>3, <1>1
    <3>2. rte[j].client # None => rte[j].client \in Sock /\ rte[j].client # c
      BY <2>1, <3>1, <1>3 DEF Shaped, Route
    <3> QED
      BY <2>1, <3>1, <3>2, <1>3 DEF Shaped, Waits
  <2> QED
    BY <2>2, <2>3
<1>8. CountExact'
  BY <1>1, <1>3 DEF CountExact
<1>9. ASSUME NEW j \in Id PROVE Notifies(j)'
  <2>1. Notifies(j)
    BY <1>1
  <2>2. rte[j].notify # None => rte[j].notify \in Id
    BY <1>1 DEF Route
  <2> QED
    BY <2>1, <2>2, <1>2, <1>3 DEF Notifies
<1>10. NoneForgotten'
  <2>1. \A j \in Id : /\ rte'[j].host = rte[j].host /\ rte'[j].state = rte[j].state
                      /\ rte'[j].notify = rte[j].notify /\ rte'[j].conn = rte[j].conn
    BY <1>2, <1>3
  <2> QED
    BY <1>1, <2>1 DEF NoneForgotten, GaveUp, Trying, Watched
<1> QED
  BY <1>5, <1>6, <1>7, <1>8, <1>9, <1>10 DEF IndInv

(* A route that is found is another one of the peer and is not shut down. *)
LEMMA FoundFacts ==
    ASSUME NEW i \in Id, find_mesh(i) # None
    PROVE  LET j == find_mesh(i)
           IN  /\ j \in Id /\ j # i /\ rte[j].made /\ ~rte[j].shut
               /\ rte[j].url = rte[i].url
<1> DEFINE F == {j \in Made \ {i} : ~rte[j].shut /\ rte[j].url = rte[i].url}
<1>1. F # {} /\ find_mesh(i) = First(F)
  BY DEF find_mesh
<1>2. F \subseteq Nat
  BY Ids DEF Made
<1>3. First(F) \in F
  BY <1>1, <1>2, FirstIn
<1> QED
  BY <1>1, <1>3 DEF Made

(* Every answer to a lookup keeps the invariant. *)
LEMMA ResolvedStep ==
    ASSUME IndInv, NEW i \in Id, Resolved(i)
    PROVE  IndInv'
<1> DEFINE r == [rte[i] EXCEPT !.asked = FALSE]
           j == find_mesh(i)
<1>1. rte[i].asked /\ started' = started /\ UNCHANGED <<listener, down, wanted, calls>>
  BY DEF Resolved
<1>2. TypeOK /\ rte[i] \in Route
  BY Parts
<1>3. faults' = faults => RestTyped
  BY <1>1, <1>2 DEF RestTyped, TypeOK
<1>4. Fault => RestTyped
  BY <1>1, <1>2, Counted DEF RestTyped, TypeOK
<1>5. /\ r \in Route /\ ~r.asked /\ r.made = rte[i].made /\ r.url = rte[i].url
      /\ r.ctx = rte[i].ctx /\ r.host = rte[i].host /\ r.conn = rte[i].conn
      /\ r.notify = rte[i].notify /\ r.client = rte[i].client /\ r.state = rte[i].state
      /\ r.shut = rte[i].shut /\ r.timer = rte[i].timer
  BY <1>2 DEF Route
<1> HIDE DEF r
<1>6. CASE /\ r.state = "shutdown"
           /\ rte' = [rte EXCEPT ![i] = r]
           /\ UNCHANGED <<sock, faults>>
  BY <1>1, <1>3, <1>5, <1>6, AnsweredStep
<1>7. CASE /\ r.state # "shutdown" /\ j # None
           /\ rte' = Parked(i, j)
           /\ UNCHANGED <<sock, faults>>
  BY <1>1, <1>3, <1>5, <1>7, FoundFacts, ParkedStep
<1>8. CASE /\ r.state # "shutdown" /\ j = None /\ Free # {}
           /\ rte' = [rte EXCEPT ![i] = [r EXCEPT !.client = First(Free)]]
           /\ sock' = [sock EXCEPT ![First(Free)] =
                  [kind |-> "connect", peer |-> r.host, id |-> i,
                   open |-> FALSE, closing |-> FALSE]]
           /\ UNCHANGED faults
  <2>1. First(Free) \in Sock /\ sock[First(Free)] = FreeSock
    BY <1>8, FreeFacts
  <2> DEFINE c == First(Free)
             q == [r EXCEPT !.client = c]
             k == [kind |-> "connect", peer |-> r.host, id |-> i,
                   open |-> FALSE, closing |-> FALSE]
  <2>2. /\ q \in Route /\ q.made /\ q.url = rte[i].url /\ q.conn = rte[i].conn
        /\ q.notify = rte[i].notify /\ q.ctx /\ q.host = rte[i].host
        /\ q.state = "lookup" /\ ~q.timer /\ ~q.asked /\ q.client = c
    <3>1. Shaped(i)
      BY Parts
    <3>2. rte[i].made /\ rte[i].ctx /\ rte[i].state = "lookup" /\ ~rte[i].timer
      BY <3>1, <1>1, <1>2, <1>5, <1>8 DEF Shaped, Waits, Route
    <3> QED
      BY <1>5, <2>1, <3>2 DEF Route
  <2>3. k \in Socket /\ k.kind = "connect" /\ k.peer = rte[i].host /\ k.id = i /\ ~k.open
    BY <1>5 DEF Socket, Route
  <2>4. rte' = [rte EXCEPT ![i] = q] /\ sock' = [sock EXCEPT ![c] = k]
    BY <1>8
  <2> HIDE DEF q, k, c
  <2>5. c \in Sock /\ sock[c] = FreeSock
    BY <2>1 DEF c
  <2>6. rte[i].asked /\ rte[i].state # "shutdown" /\ started' = started /\ RestTyped
    BY <1>1, <1>3, <1>5, <1>8
  <2> QED
    BY <2>2, <2>3, <2>4, <2>5, <2>6, ClientStep
<1>9. CASE /\ r.state # "shutdown" /\ Fault
           /\ \E expired \in {FALSE, Timeout} :
                 \/ rte' = [rte EXCEPT ![i] = Again(r, expired)]
                 \/ j = None /\ rte' = [rte EXCEPT ![i] = Again(Unmade(r), expired)]
           /\ UNCHANGED sock
  <2>1. rte[i].client = None
    <3>1. Shaped(i)
      BY Parts
    <3> QED
      BY <3>1, <1>1, <1>2, <1>5, <1>9 DEF Shaped, Waits, Route
  <2>2. PICK e \in BOOLEAN :
                 \/ rte' = [rte EXCEPT ![i] = Again(r, e)]
                 \/ rte' = [rte EXCEPT ![i] = Again(Unmade(r), e)]
    BY <1>9, ConnectMgrAssumption
  <2>3. CASE rte' = [rte EXCEPT ![i] = Again(r, e)]
    <3>1. Again(r, e) \in Route
      BY <1>5, <2>1, AgainFacts
    <3> QED
      BY <1>1, <1>4, <1>5, <1>9, <2>3, <3>1, AnsweredStep
  <2>4. CASE rte' = [rte EXCEPT ![i] = Again(Unmade(r), e)]
    <3> DEFINE p == Unmade(r)
    <3>1. /\ p \in Route /\ ~p.asked /\ p.made = rte[i].made /\ p.url = rte[i].url
          /\ p.ctx = rte[i].ctx /\ p.host = rte[i].host /\ p.conn = rte[i].conn
          /\ p.notify = rte[i].notify /\ p.client = None /\ p.state = rte[i].state
          /\ rte[i].shut => p.shut
      BY <1>5 DEF Unmade, Route
    <3> HIDE DEF p
    <3>2. Again(p, e) \in Route
      BY <3>1, AgainFacts
    <3>3. rte' = [rte EXCEPT ![i] = Again(p, e)]
      BY <2>4 DEF p
    <3> QED
      BY <1>1, <1>4, <1>5, <1>9, <2>1, <3>1, <3>2, <3>3, AnsweredStep
  <2> QED
    BY <2>2, <2>3, <2>4
<1> QED
  <2> USE DEF r
  <2> QED
    BY <1>6, <1>7, <1>8, <1>9 DEF Resolved

(* The one socket of a route with a context is its client. *)
LEMMA ContextConn ==
    ASSUME IndInv, NEW i \in Id, rte[i].ctx
    PROVE  \A s \in rte[i].conn : s \in Sock /\ s = rte[i].client
<1> SUFFICES ASSUME NEW s \in rte[i].conn PROVE s \in Sock /\ s = rte[i].client
  OBVIOUS
<1>1. s \in Sock /\ sock[s].open /\ sock[s].id = i
  BY Parts DEF CountExact
<1>2. Placed(s) /\ sock[s] \in Socket
  BY <1>1, Parts
<1> QED
  BY <1>1, <1>2 DEF Placed, Socket, FreeSock

(* The client of a context has exchanged its keys. *)
LEMMA ConnectedStep ==
    ASSUME IndInv, NEW c \in Sock, sock[c].kind = "connect", ~sock[c].open,
           NEW i \in Id, i = sock[c].id,
           NEW q \in Route, q.made, q.url = rte[i].url, q.conn = rte[i].conn \union {c},
           q.notify = rte[i].notify, q.ctx, q.host = rte[i].host,
           q.state = "active", ~q.timer, q.asked = rte[i].asked, q.client = c,
           rte' = [rte EXCEPT ![i] = q], sock' = [sock EXCEPT ![c].open = TRUE],
           started' = started, RestTyped
    PROVE  IndInv'
<1>1. /\ rte \in [Id -> Route] /\ sock \in [Sock -> Socket] /\ started \subseteq Url
      /\ \A s \in Sock : Placed(s)
      /\ \A j \in Id : Shaped(j) /\ Notifies(j)
      /\ CountExact /\ NoneForgotten
  BY Parts
<1>2. c # None
  BY Ids
<1>3. /\ rte[i].ctx /\ rte[i].client = c /\ ~rte[i].asked /\ rte[i].host = sock[c].peer
      /\ rte[i].host \in Url /\ rte[i].url = rte[i].host
  <2>1. Shaped(i) /\ Placed(c) /\ rte[i] \in Route
    BY <1>1
  <2> QED
    BY <2>1, <1>2 DEF Shaped, Placed, Waits, Route
<1> DEFINE k == [sock[c] EXCEPT !.open = TRUE]
<1>4. /\ k \in Socket /\ k.kind = "connect" /\ k.peer = sock[c].peer /\ k.id = i
      /\ k.open /\ k.closing = sock[c].closing
  BY <1>1 DEF Socket
<1>5. sock' = [sock EXCEPT ![c] = k]
  BY <1>1
<1> HIDE DEF k
<1>6. /\ rte'[i] = q /\ \A j \in Id : j # i => rte'[j] = rte[j]
      /\ sock'[c] = k /\ \A s \in Sock : s # c => sock'[s] = sock[s]
  BY <1>1, <1>5
<1>7. TypeOK'
  BY <1>1, <1>4, <1>5 DEF TypeOK, RestTyped
<1>8. ASSUME NEW s \in Sock PROVE Placed(s)'
  <2>1. Placed(s)
    BY <1>1
  <2>2. CASE s = c
    BY <2>2, <1>3, <1>4, <1>6 DEF Placed
  <2>3. CASE s # c
    <3>1. sock'[s] = sock[s]
      BY <2>3, <1>6
    <3>2. sock[s].id = i => sock[s].kind # "connect" /\ ~(sock[s].kind = "accept" /\ sock[s].open)
      BY <2>1, <2>3, <1>3 DEF Placed
    <3> QED
      BY <2>1, <3>1, <3>2, <1>6 DEF Placed
  <2> QED
    BY <2>2, <2>3
<1>9. ASSUME NEW j \in Id PROVE Shaped(j)'
  <2>1. Shaped(j)
    BY <1>1
  <2>2. CASE j = i
    <3>1. \A s, t \in q.conn : s = t
      BY <1>3, ContextConn
    <3>2. ~q.asked
      BY <1>3
    <3>3. q.host \in Url /\ q.url = q.host
      BY <1>3
    <3> QED
      BY <2>2, <3>1, <3>2, <3>3, <1>2, <1>4, <1>6 DEF Shaped, Waits
  <2>3. CASE j # i
    <3>1. rte'[j] = rte[j] /\ rte[j] \in Route
      BY <2>3, <1>6, <1>1
    <3>2. rte[j].client # None => rte[j].client \in Sock /\ rte[j].client # c
      BY <2>1, <2>3, <3>1 DEF Shaped, Route
    <3> QED
      BY <2>1, <3>1, <3>2, <1>6 DEF Shaped, Waits
  <2> QED
    BY <2>2, <2>3
<1>10. CountExact'
  <2> SUFFICES ASSUME NEW j \in Id
               PROVE  rte'[j].conn = {s \in Sock : sock'[s].open /\ sock'[s].id = j}
    BY DEF CountExact
  <2>1. rte[j].conn = {s \in Sock : sock[s].open /\ sock[s].id = j}
    BY <1>1 DEF CountExact
  <2>2. CASE j = i
    BY <2>1, <2>2, <1>4, <1>6
  <2>3. CASE j # i
    BY <2>1, <2>3, <1>4, <1>6
  <2> QED
    BY <2>2, <2>3
<1>11. ASSUME NEW j \in Id PROVE Notifies(j)'
  <2>1. Notifies(j)
    BY <1>1
  <2>2. rte[j].notify # None => rte[j].notify \in Id
    BY <1>1 DEF Route
  <2> QED
    BY <2>1, <2>2, <1>3, <1>6 DEF Notifies
<1>12. NoneForgotten'
  <2> SUFFICES ASSUME NEW u \in started
               PROVE  \/ GaveUp(u)'
                      \/ \E j \in Id : rte'[j].host = u /\ (Trying(j)' \/ Watched(j)')
    BY DEF NoneForgotten
  <2>1. PICK j \in Id : /\ rte[j].host = u
                        /\ rte[j].state = "idle" \/ Trying(j) \/ Watched(j)
    BY <1>1 DEF NoneForgotten, GaveUp
  <2>2. rte'[j].host = u
    BY <2>1, <1>3, <1>6
  <2>3. CASE j = i
    BY <2>2, <2>3, <1>6 DEF Trying
  <2>4. CASE j # i
    <3>1. Watched(j) => Watched(j)'
      BY <1>6 DEF Watched
    <3> QED
      BY <2>1, <2>2, <2>4, <3>1, <1>6 DEF Trying, GaveUp
  <2> QED
    BY <2>3, <2>4
<1> QED
  BY <1>7, <1>8, <1>9, <1>10, <1>11, <1>12 DEF IndInv

(* A peer that connected has exchanged its keys and gets a route. *)
LEMMA AcceptedStep ==
    ASSUME IndInv, NEW c \in Sock, sock[c].kind = "accept", ~sock[c].open,
           NEW i \in Id, ~rte[i].ctx, rte[i].conn = {},
           NEW q \in Route, q.made, q.url = NoUrl, q.conn = {c}, q.notify = rte[i].notify,
           ~q.ctx, q.host = rte[i].host, q.state = rte[i].state, ~q.timer, ~q.asked,
           q.client = None,
           NEW k \in Socket, k.kind = "accept", k.peer = sock[c].peer, k.id = i, k.open,
           rte' = [rte EXCEPT ![i] = q], sock' = [sock EXCEPT ![c] = k],
           started' = started, RestTyped
    PROVE  IndInv'
<1>1. /\ rte \in [Id -> Route] /\ sock \in [Sock -> Socket] /\ started \subseteq Url
      /\ \A s \in Sock : Placed(s)
      /\ \A j \in Id : Shaped(j) /\ Notifies(j)
      /\ CountExact /\ NoneForgotten
  BY Parts
<1>2. /\ rte[i].state = "shutdown" /\ rte[i].host = NoUrl /\ rte[i].notify = None
  <2>1. Shaped(i) /\ Notifies(i)
    BY <1>1
  <2> QED
    BY <2>1 DEF Shaped, Notifies
<1>3. /\ rte'[i] = q /\ \A j \in Id : j # i => rte'[j] = rte[j]
      /\ sock'[c] = k /\ \A s \in Sock : s # c => sock'[s] = sock[s]
  BY <1>1
<1>4. TypeOK'
  BY <1>1 DEF TypeOK, RestTyped
<1>5. ASSUME NEW s \in Sock PROVE Placed(s)'
  <2>1. Placed(s)
    BY <1>1
  <2>2. CASE s = c
    BY <2>2, <1>3 DEF Placed
  <2>3. CASE s # c
    <3>1. sock'[s] = sock[s]
      BY <2>3, <1>3
    <3>2. ~(sock[s].open /\ sock[s].id = i)
      BY <1>1 DEF CountExact
    <3>3. sock[s].id = i => sock[s].kind # "connect" /\ ~(sock[s].kind = "accept" /\ sock[s].open)
      BY <2>1, <3>2 DEF Placed
    <3> QED
      BY <2>1, <3>1, <3>3, <1>3 DEF Placed
  <2> QED
    BY <2>2, <2>3
<1>6. ASSUME NEW j \in Id PROVE Shaped(j)'
  <2>1. Shaped(j)
    BY <1>1
  <2>2. CASE j = i
    BY <2>2, <1>2, <1>3 DEF Shaped, Waits
  <2>3. CASE j # i
    <3>1. rte'[j] = rte[j] /\ rte[j] \in Route
      BY <2>3, <1>3, <1>1
    <3>2. rte[j].client # None => rte[j].client \in Sock /\ rte[j].client # c
      BY <2>1, <3>1 DEF Shaped, Route
    <3> QED
      BY <2>1, <3>1, <3>2, <1>3 DEF Shaped, Waits
  <2> QED
    BY <2>2, <2>3
<1>7. CountExact'
  <2> SUFFICES ASSUME NEW j \in Id
               PROVE  rte'[j].conn = {s \in Sock : sock'[s].open /\ sock'[s].id = j}
    BY DEF CountExact
  <2>1. rte[j].conn = {s \in Sock : sock[s].open /\ sock[s].id = j}
    BY <1>1 DEF CountExact
  <2>2. CASE j = i
    BY <2>1, <2>2, <1>3
  <2>3. CASE j # i
    BY <2>1, <2>3, <1>3
  <2> QED
    BY <2>2, <2>3
<1>8. ASSUME NEW j \in Id PROVE Notifies(j)'
  <2>1. Notifies(j)
    BY <1>1
  <2>2. CASE j = i
    BY <2>2, <1>2, <1>3 DEF Notifies
  <2>3. CASE j # i
    <3>1. rte'[j] = rte[j] /\ (rte[j].notify # None => rte[j].notify \in Id \ {i})
      BY <2>1, <2>3, <1>1, <1>3 DEF Route, Notifies
    <3> QED
      BY <2>1, <3>1, <1>3 DEF Notifies
  <2> QED
    BY <2>2, <2>3
<1>9. NoneForgotten'
  <2> SUFFICES ASSUME NEW u \in started
               PROVE  \/ GaveUp(u)'
                      \/ \E j \in Id : rte'[j].host = u /\ (Trying(j)' \/ Watched(j)')
    BY DEF NoneForgotten
  <2>1. PICK j \in Id : /\ rte[j].host = u
                        /\ rte[j].state = "idle" \/ Trying(j) \/ Watched(j)
    BY <1>1 DEF NoneForgotten, GaveUp
  <2>2. j # i /\ u \in Url
    BY <2>1, <1>1, <1>2, ConnectMgrAssumption
  <2>3. rte'[j] = rte[j]
    BY <2>2, <1>3
  <2>4. Watched(j) => Watched(j)'
    BY <1>2, <1>3, Ids DEF Watched
  <2> QED
    BY <2>1, <2>3, <2>4 DEF Trying, GaveUp
<1> QED
  BY <1>4, <1>5, <1>6, <1>7, <1>8, <1>9 DEF IndInv

(* An exchange of keys, of either kind of socket, keeps the invariant. *)
LEMMA OnConnectStep ==
    ASSUME IndInv, NEW c \in Sock, on_connect(c)
    PROVE  IndInv'
<1>1. TypeOK /\ ~sock[c].open /\ started' = started /\ UNCHANGED <<listener, wanted, calls, faults>>
  BY Parts DEF on_connect
<1>2. sock[c] \in Socket /\ Placed(c) /\ c # None
  BY Parts, Ids
<1>3. CASE Connected(c)
  <2> DEFINE i == sock[c].id
             m == set_state(rte[i], "active")
             q == [m EXCEPT !.prog = FALSE, !.shut = FALSE,
                            !.conn = rte[i].conn \union {rte[i].client}]
  <2>1. /\ sock[c].kind = "connect" /\ rte' = [rte EXCEPT ![i] = q]
        /\ sock' = [sock EXCEPT ![c].open = TRUE] /\ UNCHANGED down
    BY <1>3 DEF Connected
  <2>2. i \in Id /\ rte[i].ctx /\ rte[i].client = c
    BY <1>2, <2>1 DEF Placed
  <2>3. rte[i] \in Route /\ rte[i].made
    <3>1. Shaped(i) /\ rte[i] \in Route
      BY <2>2, Parts
    <3> QED
      BY <3>1, <2>2 DEF Shaped
  <2>4. /\ m \in Route /\ m.made /\ m.url = rte[i].url /\ m.conn = rte[i].conn
        /\ m.notify = rte[i].notify /\ m.ctx /\ m.host = rte[i].host
        /\ m.state = "active" /\ ~m.timer /\ m.asked = rte[i].asked /\ m.client = c
    BY <2>2, <2>3 DEF set_state, Route
  <2> HIDE DEF m
  <2>5. /\ q \in Route /\ q.made /\ q.url = rte[i].url /\ q.conn = rte[i].conn \union {c}
        /\ q.notify = rte[i].notify /\ q.ctx /\ q.host = rte[i].host
        /\ q.state = "active" /\ ~q.timer /\ q.asked = rte[i].asked /\ q.client = c
    <3> DEFINE d == rte[i].conn \union {rte[i].client}
    <3>1. d \in SUBSET Sock /\ d = rte[i].conn \union {c}
      BY <2>2, <2>3 DEF Route
    <3>2. q = [m EXCEPT !.prog = FALSE, !.shut = FALSE, !.conn = d]
      OBVIOUS
    <3> HIDE DEF d, q
    <3> QED
      BY <2>4, <3>1, <3>2 DEF Route
  <2>6. RestTyped
    BY <1>1, <2>1 DEF RestTyped, TypeOK
  <2> HIDE DEF q
  <2> QED
    BY <1>1, <2>1, <2>2, <2>5, <2>6, ConnectedStep
<1>4. CASE Accepted(c)
  <2> DEFINE F == {i \in Made : rte[i].shut /\ ~rte[i].ctx /\ rte[i].conn = {}}
  <2>1. PICK i \in Reused(F) :
           /\ rte' = [rte EXCEPT ![i] =
                  [init_state(rte[i]) EXCEPT !.conn = rte[i].conn \union {c}]]
           /\ sock' = [sock EXCEPT ![c].open = TRUE, ![c].id = i]
    BY <1>4 DEF Accepted
  <2>2. sock[c].kind = "accept" /\ down' = FALSE
    BY <1>4 DEF Accepted
  <2>3. i \in Id /\ (i \in F \/ ~rte[i].made)
    BY <2>1, ReusedFacts
  <2>4. Shaped(i) /\ rte[i] \in Route /\ sock \in [Sock -> Socket]
    BY <2>3, Parts
  <2>5. ~rte[i].ctx /\ rte[i].conn = {}
    BY <2>3, <2>4 DEF Shaped, NewRoute
  <2>6. ~rte[i].timer /\ ~rte[i].asked /\ rte[i].client = None
    BY <2>4, <2>5 DEF Shaped
  <2> DEFINE m == init_state(rte[i])
             q == [m EXCEPT !.conn = rte[i].conn \union {c}]
             k == [sock[c] EXCEPT !.open = TRUE, !.id = i]
  <2>7. /\ m \in Route /\ m.made /\ m.url = NoUrl /\ m.conn = {}
        /\ m.notify = rte[i].notify /\ ~m.ctx /\ m.host = rte[i].host
        /\ m.state = rte[i].state /\ ~m.timer /\ ~m.asked /\ m.client = None
    BY <2>4, <2>5, <2>6 DEF init_state, Route
  <2>8. rte' = [rte EXCEPT ![i] = q]
    BY <2>1
  <2> HIDE DEF m
  <2>9. /\ q \in Route /\ q.made /\ q.url = NoUrl /\ q.conn = {c}
        /\ q.notify = rte[i].notify /\ ~q.ctx /\ q.host = rte[i].host
        /\ q.state = rte[i].state /\ ~q.timer /\ ~q.asked /\ q.client = None
    BY <2>5, <2>7 DEF Route
  <2> HIDE DEF q
  <2>10. /\ k \in Socket /\ k.kind = "accept" /\ k.peer = sock[c].peer /\ k.id = i
         /\ k.open
    BY <1>2, <2>2, <2>3 DEF Socket
  <2>11. sock' = [sock EXCEPT ![c] = k]
    BY <2>1, <2>4
  <2> HIDE DEF k
  <2>12. RestTyped
    BY <1>1, <2>2 DEF RestTyped, TypeOK
  <2> QED
    BY <1>1, <2>2, <2>3, <2>5, <2>8, <2>9, <2>10, <2>11, <2>12, AcceptedStep
<1> QED
  BY <1>3, <1>4 DEF on_connect

(* A change of a socket that no route has: a peer that connects, or one    *)
(* that leaves before its keys are exchanged.                              *)
LEMMA LooseSocketStep ==
    ASSUME IndInv, NEW c \in Sock,
           sock[c].kind = "free" \/ (sock[c].kind = "accept" /\ ~sock[c].open),
           NEW k \in Socket, ~k.open, k.id = None, k.kind # "connect",
           k.kind = "free" => k = FreeSock,
           sock' = [sock EXCEPT ![c] = k], rte' = rte, started' = started, RestTyped
    PROVE  IndInv'
<1>1. /\ rte \in [Id -> Route] /\ sock \in [Sock -> Socket] /\ started \subseteq Url
      /\ \A s \in Sock : Placed(s)
      /\ \A j \in Id : Shaped(j) /\ Notifies(j)
      /\ CountExact /\ NoneForgotten
  BY Parts
<1>2. sock'[c] = k /\ \A s \in Sock : s # c => sock'[s] = sock[s]
  BY <1>1
<1>3. ~sock[c].open
  <2>1. Placed(c)
    BY <1>1
  <2> QED
    BY <2>1 DEF Placed, FreeSock
<1>4. TypeOK'
  BY <1>1 DEF TypeOK, RestTyped
<1>5. ASSUME NEW s \in Sock PROVE Placed(s)'
  <2>1. Placed(s)
    BY <1>1
  <2>2. CASE s = c
    BY <2>2, <1>2 DEF Placed
  <2>3. CASE s # c
    BY <2>1, <2>3, <1>2 DEF Placed
  <2> QED
    BY <2>2, <2>3
<1>6. ASSUME NEW j \in Id PROVE Shaped(j)'
  <2>1. Shaped(j) /\ rte[j] \in Route
    BY <1>1
  <2>2. rte[j].client # None => rte[j].client \in Sock /\ rte[j].client # c
    BY <2>1 DEF Shaped, Route
  <2> QED
    BY <2>1, <2>2, <1>2 DEF Shaped, Waits
<1>7. CountExact'
  BY <1>1, <1>2, <1>3 DEF CountExact
<1>8. ASSUME NEW j \in Id PROVE Notifies(j)'
  <2>1. Notifies(j)
    BY <1>1
  <2> QED
    BY <2>1 DEF Notifies
<1>9. NoneForgotten'
  BY <1>1 DEF NoneForgotten, GaveUp, Trying, Watched
<1> QED
  BY <1>4, <1>5, <1>6, <1>7, <1>8, <1>9 DEF IndInv

(* A peer that connects keeps the invariant. *)
LEMMA AcceptStep ==
    ASSUME IndInv, NEW u \in Url, Accept(u)
    PROVE  IndInv'
<1> DEFINE c == First(Free)
           k == [kind |-> "accept", peer |-> u, id |-> None, open |-> FALSE, closing |-> FALSE]
<1>1. /\ Free # {} /\ sock' = [sock EXCEPT ![c] = k]
      /\ UNCHANGED <<listener, down, rte, wanted, started, calls, faults>>
  BY DEF Accept
<1>2. c \in Sock /\ sock[c] = FreeSock
  BY <1>1, FreeFacts
<1>3. sock[c].kind = "free"
  BY <1>2 DEF FreeSock
<1>4. k \in Socket /\ ~k.open /\ k.id = None /\ k.kind = "accept"
  BY DEF Socket
<1>5. RestTyped
  BY <1>1, Parts DEF RestTyped, TypeOK
<1> HIDE DEF c, k
<1> QED
  BY <1>1, <1>2, <1>3, <1>4, <1>5, LooseSocketStep

(* The url of a peer that connected becomes known. *)
LEMMA SetMeshStep ==
    ASSUME IndInv, NEW c \in Sock, set_mesh(c)
    PROVE  IndInv'
<1>1. /\ TypeOK /\ rte \in [Id -> Route] /\ sock \in [Sock -> Socket]
      /\ \A s \in Sock : Placed(s)
      /\ \A j \in Id : Shaped(j) /\ Notifies(j)
      /\ CountExact /\ NoneForgotten
  BY Parts
<1> DEFINE i == sock[c].id
           q == [rte[i] EXCEPT !.url = sock[c].peer]
<1>2. /\ sock[c].open /\ rte[i].url # sock[c].peer
      /\ UNCHANGED <<listener, down, sock, wanted, started, calls, faults>>
  BY DEF set_mesh
<1>3. i \in Id /\ ~rte[i].ctx /\ rte[i].made /\ rte[i].url = NoUrl
  <2>1. Placed(c) /\ sock[c] \in Socket
    BY <1>1
  <2>2. CASE sock[c].kind = "connect"
    <3>1. i \in Id /\ rte[i].ctx /\ rte[i].host = sock[c].peer
      BY <2>1, <2>2 DEF Placed
    <3>2. Shaped(i)
      BY <3>1, <1>1
    <3> QED
      BY <3>1, <3>2, <1>2 DEF Shaped
  <2>3. CASE sock[c].kind = "accept"
    BY <2>1, <2>3, <1>2 DEF Placed
  <2>4. CASE sock[c].kind = "free"
    BY <2>1, <2>4, <1>2 DEF Placed, FreeSock
  <2> QED
    BY <2>1, <2>2, <2>3, <2>4 DEF Socket
<1>4. /\ q \in Route /\ q.made /\ q.url = sock[c].peer /\ q.shut = rte[i].shut
      /\ q.conn = rte[i].conn /\ q.notify = rte[i].notify /\ ~q.ctx
      /\ q.host = rte[i].host /\ q.state = rte[i].state /\ q.timer = rte[i].timer
      /\ q.asked = rte[i].asked /\ q.client = rte[i].client
  BY <1>1, <1>3 DEF Route, Socket
<1>5. rte' = [rte EXCEPT ![i] = q]
  BY <1>1, <1>3 DEF set_mesh
<1> HIDE DEF q
<1>6. rte'[i] = q /\ \A j \in Id : j # i => rte'[j] = rte[j]
  BY <1>1, <1>3, <1>5
<1>7. TypeOK'
  BY <1>1, <1>2, <1>4, <1>5 DEF TypeOK
<1>8. ASSUME NEW s \in Sock PROVE Placed(s)'
  <2>1. Placed(s)
    BY <1>1
  <2>2. CASE sock[s].id = i /\ sock[s].kind = "accept" /\ sock[s].open
    <3>1. s = c
      <4>1. s \in rte[i].conn /\ c \in rte[i].conn
        BY <2>2, <1>1, <1>2, <1>3 DEF CountExact
      <4>2. Shaped(i)
        BY <1>1, <1>3
      <4> QED
        BY <4>1, <4>2 DEF Shaped
    <3> QED
      BY <2>1, <2>2, <3>1, <1>2, <1>4, <1>6 DEF Placed
  <2>3. CASE ~(sock[s].id = i /\ sock[s].kind = "accept" /\ sock[s].open)
    <3>1. sock[s].kind = "connect" => sock[s].id # i
      BY <2>1, <1>3 DEF Placed
    <3> QED
      BY <2>1, <2>3, <3>1, <1>2, <1>6 DEF Placed
  <2> QED
    BY <2>2, <2>3
<1>9. ASSUME NEW j \in Id PROVE Shaped(j)'
  <2>1. Shaped(j)
    BY <1>1
  <2>2. CASE j = i
    <3>1. /\ rte[i].state = "shutdown" /\ rte[i].host = NoUrl
          /\ ~rte[i].timer /\ ~rte[i].asked /\ rte[i].client = None
          /\ ~rte[i].shut => rte[i].conn # {}
          /\ \A s, t \in rte[i].conn : s = t
      BY <2>1, <2>2, <1>3 DEF Shaped
    <3>2. ~q.timer /\ ~q.asked
      BY <3>1, <1>4
    <3> QED
      BY <2>2, <3>1, <3>2, <1>4, <1>6 DEF Shaped, Waits
  <2>3. CASE j # i
    BY <2>1, <2>3, <1>2, <1>6 DEF Shaped, Waits
  <2> QED
    BY <2>2, <2>3
<1>10. CountExact'
  BY <1>1, <1>2, <1>3, <1>4, <1>6 DEF CountExact
<1>11. ASSUME NEW j \in Id PROVE Notifies(j)'
  <2>1. Notifies(j)
    BY <1>1
  <2>2. CASE rte[j].notify = None
    BY <2>2, <1>3, <1>4, <1>6 DEF Notifies
  <2>3. CASE rte[j].notify # None
    <3> DEFINE x == rte[j].notify
    <3>1. x \in Id /\ rte[x].ctx /\ rte[x].host = rte[j].url
      BY <2>1, <2>3, <1>1 DEF Route, Notifies
    <3>2. rte[x].host \in Url
      <4>1. Shaped(x)
        BY <3>1, <1>1
      <4> QED
        BY <4>1, <3>1 DEF Shaped
    <3>3. j # i /\ x # i
      BY <3>1, <3>2, <1>3, ConnectMgrAssumption
    <3> QED
      BY <2>1, <3>1, <3>3, <1>6 DEF Notifies
  <2> QED
    BY <2>2, <2>3
<1>12. NoneForgotten'
  <2>1. \A j \in Id : /\ rte'[j].host = rte[j].host /\ rte'[j].state = rte[j].state
                      /\ rte'[j].notify = rte[j].notify /\ rte'[j].conn = rte[j].conn
    BY <1>4, <1>6
  <2> QED
    BY <1>1, <1>2, <2>1 DEF NoneForgotten, GaveUp, Trying, Watched
<1> QED
  BY <1>7, <1>8, <1>9, <1>10, <1>11, <1>12 DEF IndInv

(* The transport is shut down. *)
LEMMA ShutdownStep ==
    ASSUME IndInv, Shutdown
    PROVE  IndInv'
<1>1. /\ TypeOK /\ rte \in [Id -> Route] /\ sock \in [Sock -> Socket]
      /\ \A s \in Sock : Placed(s)
      /\ \A j \in Id : Shaped(j) /\ Notifies(j)
      /\ CountExact
  BY Parts
<1>2. started' = {} /\ RestTyped
  BY <1>1, Counted DEF Shutdown, RestTyped, TypeOK
<1>3. ASSUME NEW i \in Id
      PROVE  /\ rte'[i] \in Route /\ rte'[i].notify = None
             /\ rte'[i].made = rte[i].made /\ rte'[i].url = rte[i].url
             /\ rte'[i].conn = rte[i].conn /\ rte'[i].ctx = rte[i].ctx
             /\ rte'[i].host = rte[i].host /\ rte'[i].timer = rte[i].timer
             /\ rte'[i].asked = rte[i].asked /\ rte'[i].client = rte[i].client
             /\ rte'[i].state = "shutdown"
             /\ rte[i].made => rte'[i].shut
             /\ ~rte[i].made => rte'[i] = rte[i]
  <2>1. Shaped(i) /\ rte[i] \in Route
    BY <1>1
  <2>2. CASE ~rte[i].made
    <3>1. rte'[i] = rte[i]
      BY <2>2 DEF Shutdown
    <3> QED
      BY <2>1, <2>2, <3>1 DEF Shaped, NewRoute
  <2>3. CASE rte[i].made /\ rte[i].ctx
    <3> DEFINE p == [rte[i] EXCEPT !.notify = None, !.shut = TRUE, !.prog = FALSE,
                                   !.state = "shutdown"]
    <3>1. /\ p \in Route /\ p.notify = None /\ p.made = rte[i].made /\ p.url = rte[i].url
          /\ p.conn = rte[i].conn /\ p.ctx = rte[i].ctx /\ p.host = rte[i].host
          /\ p.timer = rte[i].timer /\ p.asked = rte[i].asked /\ p.client = rte[i].client
          /\ p.state = "shutdown" /\ p.shut
      BY <2>1 DEF Route
    <3>2. rte'[i] = p
      BY <2>3 DEF Shutdown
    <3> HIDE DEF p
    <3> QED
      BY <2>3, <3>1, <3>2
  <2>4. CASE rte[i].made /\ ~rte[i].ctx
    <3>1. rte'[i] = [rte[i] EXCEPT !.notify = None, !.shut = TRUE]
      BY <2>4 DEF Shutdown
    <3>2. rte[i].state = "shutdown"
      BY <2>1, <2>4 DEF Shaped
    <3> QED
      BY <2>1, <2>4, <3>1, <3>2 DEF Route
  <2> QED
    BY <2>2, <2>3, <2>4
<1>4. ASSUME NEW s \in Sock
      PROVE  /\ sock'[s] \in Socket /\ sock'[s].kind = sock[s].kind
             /\ sock'[s].peer = sock[s].peer /\ sock'[s].id = sock[s].id
             /\ sock'[s].open = sock[s].open
             /\ (\E i \in Made : s = rte[i].client \/ s \in rte[i].conn) => sock'[s].closing
             /\ sock[s].kind = "free" => sock'[s] = sock[s]
  <2>1. sock[s] \in Socket /\ Placed(s)
    BY <1>1
  <2>2. CASE \E i \in Made : s = rte[i].client \/ s \in rte[i].conn
    <3>1. sock'[s] = [sock[s] EXCEPT !.closing = TRUE]
      BY <2>2 DEF Shutdown
    <3>2. sock[s].kind # "free"
      <4>1. PICK i \in Id : s = rte[i].client \/ s \in rte[i].conn
        BY <2>2 DEF Made
      <4>2. Shaped(i) /\ s # None
        BY <1>1, Ids
      <4>3. CASE s = rte[i].client
        BY <4>2, <4>3 DEF Shaped
      <4>4. CASE s \in rte[i].conn
        BY <4>4, <1>1, <2>1 DEF CountExact, Placed, FreeSock
      <4> QED
        BY <4>1, <4>3, <4>4
    <3> QED
      BY <2>1, <3>1, <3>2 DEF Socket
  <2>3. CASE ~\E i \in Made : s = rte[i].client \/ s \in rte[i].conn
    <3>1. sock'[s] = sock[s]
      BY <2>3 DEF Shutdown
    <3> QED
      BY <2>1, <2>3, <3>1
  <2> QED
    BY <2>2, <2>3
<1>5. TypeOK'
  <2>1. rte' \in [Id -> Route]
    BY <1>3 DEF Shutdown
  <2>2. sock' \in [Sock -> Socket]
    BY <1>4 DEF Shutdown
  <2> QED
    BY <2>1, <2>2, <1>2 DEF TypeOK, RestTyped
<1>6. ASSUME NEW s \in Sock PROVE Placed(s)'
  <2>1. Placed(s) /\ sock[s] \in Socket
    BY <1>1
  <2> QED
    BY <2>1, <1>3, <1>4 DEF Placed
<1>7. ASSUME NEW i \in Id PROVE Shaped(i)'
  <2>1. Shaped(i) /\ rte[i] \in Route
    BY <1>1
  <2>2. CASE ~rte[i].made
    <3>1. rte[i].client = None
      BY <2>1, <2>2 DEF Shaped, NewRoute
    <3> QED
      BY <2>1, <2>2, <3>1, <1>3 DEF Shaped, Waits
  <2>3. CASE rte[i].made
    <3>1. Waits(rte[i])'
      BY <2>1, <1>3 DEF Shaped, Waits, Route
    <3>2. rte[i].client # None =>
             /\ rte[i].client \in Sock
             /\ sock'[rte[i].client].kind = "connect" /\ sock'[rte[i].client].id = i
             /\ sock'[rte[i].client].closing
      BY <2>1, <2>3, <1>4 DEF Shaped, Made, Route
    <3> QED
      BY <2>1, <2>3, <3>1, <3>2, <1>3 DEF Shaped
  <2> QED
    BY <2>2, <2>3
<1>8. CountExact'
  BY <1>1, <1>3, <1>4 DEF CountExact
<1>9. \A i \in Id : Notifies(i)'
  BY <1>3 DEF Notifies
<1>10. NoneForgotten'
  BY <1>2 DEF NoneForgotten
<1> QED
  BY <1>5, <1>6, <1>7, <1>8, <1>9, <1>10 DEF IndInv

(* The listener has closed: no route or socket changes. *)
LEMMA StopListenStep ==
    ASSUME IndInv, StopListen
    PROVE  IndInv'
<1>1. RestTyped
  BY Parts DEF StopListen, RestTyped, TypeOK
<1> QED
  BY <1>1, RestStep DEF StopListen

-----------------------------------------------------------------------------
(* A socket closes                                                         *)

(* Context x, which had stopped, connects again. *)
Restarted(x) ==
    /\ rte[x].ctx /\ rte[x].state = "shutdown" /\ rte[x].client = None
    /\ rte'[x].made = rte[x].made /\ rte'[x].url = rte[x].url
    /\ rte'[x].conn = rte[x].conn /\ rte'[x].notify = rte[x].notify
    /\ rte'[x].ctx /\ rte'[x].host = rte[x].host /\ rte'[x].client = None
    /\ rte'[x].state = "lookup" /\ rte'[x].asked /\ ~rte'[x].timer

(* Route i loses its socket c, and the context it was to notify restarts. *)
LEMMA DropStep ==
    ASSUME IndInv, NEW c \in Sock, NEW i \in Id, sock[c].id = i,
           sock[c].kind = "connect" \/ (sock[c].kind = "accept" /\ sock[c].open),
           rte' \in [Id -> Route],
           NEW q \in Route, rte'[i] = q, q.made, q.url = rte[i].url, q.conn = {},
           q.ctx = rte[i].ctx, q.host = rte[i].host, q.client = None, ~q.asked, Waits(q),
           q.state = "shutdown" => rte[i].state = "shutdown" /\ q.shut,
           ~rte[i].ctx => q.state = "shutdown" /\ ~q.timer,
           \/ q.notify = None
           \/ rte[i].conn = {} /\ rte[i].ctx /\ q.notify = rte[i].notify,
           \A x \in Id \ {i} : rte'[x] = rte[x] \/ Restarted(x),
           rte[i].conn # {} /\ rte[i].notify # None
               => rte'[rte[i].notify].state # "shutdown",
           sock' = [sock EXCEPT ![c] = FreeSock], started' = started, RestTyped
    PROVE  IndInv'
<1>1. /\ rte \in [Id -> Route] /\ sock \in [Sock -> Socket] /\ started \subseteq Url
      /\ \A s \in Sock : Placed(s)
      /\ \A j \in Id : Shaped(j) /\ Notifies(j)
      /\ CountExact /\ NoneForgotten
  BY Parts
<1>2. /\ sock'[c] = FreeSock /\ \A s \in Sock : s # c => sock'[s] = sock[s]
      /\ FreeSock \in Socket /\ FreeSock.kind = "free" /\ ~FreeSock.open
  BY <1>1, NewTypes DEF FreeSock
<1>3. rte[i].conn \subseteq {c}
  <2>1. CASE sock[c].kind = "connect"
    <3>1. rte[i].ctx /\ rte[i].client = c
      BY <2>1, <1>1 DEF Placed
    <3> QED
      BY <3>1, ContextConn
  <2>2. CASE sock[c].kind = "accept" /\ sock[c].open
    <3>1. c \in rte[i].conn /\ Shaped(i)
      BY <2>2, <1>1 DEF CountExact
    <3> QED
      BY <3>1 DEF Shaped
  <2> QED
    BY <2>1, <2>2
<1>4. ASSUME NEW x \in Id, x # i
      PROVE  /\ rte'[x].made = rte[x].made /\ rte'[x].url = rte[x].url
             /\ rte'[x].conn = rte[x].conn /\ rte'[x].notify = rte[x].notify
             /\ rte'[x].ctx = rte[x].ctx /\ rte'[x].host = rte[x].host
             /\ rte'[x].client = rte[x].client
             /\ rte'[x].state = "shutdown" => rte[x].state = "shutdown"
             /\ rte[x].state = "shutdown" \/ rte'[x].state = rte[x].state
  <2>1. CASE rte'[x] = rte[x]
    BY <2>1
  <2>2. CASE Restarted(x)
    <3>1. rte[x] \in Route /\ rte'[x] \in Route
      BY <1>1
    <3>2. rte'[x].ctx = rte[x].ctx
      BY <2>2, <3>1 DEF Restarted, Route
    <3> QED
      BY <2>2, <3>2 DEF Restarted
  <2> QED
    BY <1>4, <2>1, <2>2
<1>5. TypeOK'
  BY <1>1, <1>2 DEF TypeOK, RestTyped
<1>6. ASSUME NEW s \in Sock PROVE Placed(s)'
  <2>1. Placed(s)
    BY <1>1
  <2>2. CASE s = c
    BY <2>2, <1>2 DEF Placed
  <2>3. CASE s # c
    <3>1. sock'[s] = sock[s]
      BY <2>3, <1>2
    <3>2. ~(sock[s].open /\ sock[s].id = i)
      BY <2>3, <1>1, <1>3 DEF CountExact
    <3>3. ~(sock[s].kind = "connect" /\ sock[s].id = i)
      <4>1. Placed(c)
        BY <1>1
      <4> QED
        BY <2>1, <2>3, <4>1 DEF Placed
    <3> QED
      BY <2>1, <3>1, <3>2, <3>3, <1>4 DEF Placed
  <2> QED
    BY <2>2, <2>3
<1>7. ASSUME NEW j \in Id PROVE Shaped(j)'
  <2>1. Shaped(j) /\ rte[j] \in Route /\ rte'[j] \in Route
    BY <1>1
  <2>2. CASE j = i
    BY <2>1, <2>2 DEF Shaped
  <2>3. CASE j # i
    <3>1. rte[j].client # None => rte[j].client \in Sock /\ rte[j].client # c
      BY <2>1, <2>3 DEF Shaped, Route
    <3>2. CASE rte'[j] = rte[j]
      BY <2>1, <3>1, <3>2, <1>2 DEF Shaped, Waits
    <3>3. CASE Restarted(j)
      <4>1. rte[j].made /\ rte[j].host \in Url /\ rte[j].url = rte[j].host
        BY <2>1, <3>3 DEF Shaped, Restarted
      <4>2. \A s, t \in rte[j].conn : s = t
        BY <2>1 DEF Shaped
      <4> QED
        BY <3>3, <4>1, <4>2 DEF Shaped, Waits, Restarted
    <3> QED
      BY <2>3, <3>2, <3>3
  <2> QED
    BY <2>2, <2>3
<1>8. CountExact'
  <2> SUFFICES ASSUME NEW j \in Id
               PROVE  rte'[j].conn = {s \in Sock : sock'[s].open /\ sock'[s].id = j}
    BY DEF CountExact
  <2>1. rte[j].conn = {s \in Sock : sock[s].open /\ sock[s].id = j}
    BY <1>1 DEF CountExact
  <2>2. CASE j = i
    BY <2>1, <2>2, <1>2, <1>3
  <2>3. CASE j # i
    BY <2>1, <2>3, <1>2, <1>4
  <2> QED
    BY <2>2, <2>3
<1>9. ASSUME NEW j \in Id PROVE Notifies(j)'
  <2>1. Notifies(j) /\ rte[j] \in Route
    BY <1>1
  <2>2. CASE rte'[j].notify = None
    BY <2>2 DEF Notifies
  <2>3. CASE rte'[j].notify # None
    <3> DEFINE x == rte[j].notify
    <3>1. rte'[j].notify = x /\ x \in Id /\ rte'[j].url = rte[j].url /\ rte'[j].ctx = rte[j].ctx
      BY <2>1, <2>3, <1>4 DEF Route
    <3>2. x # j /\ rte[x].ctx /\ rte[x].host = rte[j].url
      BY <2>1, <2>3, <3>1 DEF Notifies
    <3>3. rte'[x].ctx /\ rte'[x].host = rte[x].host
      BY <3>1, <3>2, <1>4
    <3>4. rte'[x].state = "shutdown" => rte'[x].client = None
      BY <2>1, <2>3, <3>1, <1>4 DEF Notifies
    <3>5. ~rte'[j].ctx => rte'[j].conn # {}
      BY <2>1, <2>3, <3>1, <1>4 DEF Notifies
    <3> QED
      BY <3>1, <3>2, <3>3, <3>4, <3>5 DEF Notifies
  <2> QED
    BY <2>2, <2>3
<1>10. NoneForgotten'
  <2> SUFFICES ASSUME NEW u \in started
               PROVE  \/ GaveUp(u)'
                      \/ \E j \in Id : rte'[j].host = u /\ (Trying(j)' \/ Watched(j)')
    BY DEF NoneForgotten
  <2>1. PICK j \in Id : /\ rte[j].host = u
                        /\ rte[j].state = "idle" \/ Trying(j) \/ Watched(j)
    BY <1>1 DEF NoneForgotten, GaveUp
  <2>2. rte'[j].host = u /\ rte[j] \in Route /\ rte'[j] \in Route
    BY <2>1, <1>1, <1>4
  <2>3. CASE rte'[j].state # "shutdown"
    BY <2>2, <2>3 DEF Trying, GaveUp, Route
  <2>4. CASE rte'[j].state = "shutdown"
    <3>1. rte[j].state = "shutdown"
      BY <2>4, <1>4
    <3>2. Watched(j)
      BY <2>1, <3>1 DEF Trying
    <3>3. PICK x \in Id : rte[x].notify = j /\ rte[x].conn # {}
      BY <3>2 DEF Watched
    <3>4. x # i
      BY <2>4, <3>3, Ids
    <3>5. rte'[x].notify = j /\ rte'[x].conn # {}
      BY <3>3, <3>4, <1>4
    <3> QED
      BY <2>2, <3>5 DEF Watched
  <2> QED
    BY <2>3, <2>4
<1> QED
  BY <1>5, <1>6, <1>7, <1>8, <1>9, <1>10 DEF IndInv

(* R are the routes when i has lost its last socket: it is shut down, and  *)
(* the context it was to notify connects again.                            *)
Dropped(R, i) ==
    /\ R \in [Id -> Route]
    /\ R[i].made = rte[i].made /\ R[i].url = rte[i].url /\ R[i].conn = {}
    /\ R[i].ctx = rte[i].ctx /\ R[i].host = rte[i].host /\ R[i].shut
    /\ R[i].state = rte[i].state /\ R[i].timer = rte[i].timer
    /\ R[i].asked = rte[i].asked /\ R[i].client = rte[i].client
    /\ R[i].notify = None
    /\ \A x \in Id \ {i} :
          \/ R[x] = rte[x]
          \/ /\ x = rte[i].notify /\ rte[x].state = "shutdown"
             /\ R[x] = connect(rte[x])
    /\ rte[i].notify # None =>
          rte[i].notify \in Id \ {i} /\ R[rte[i].notify].state # "shutdown"

(* on_shutdown of a route with its one socket is a drop of that route. *)
LEMMA OnShutdownDrops ==
    ASSUME IndInv, NEW i \in Id, NEW c \in rte[i].conn
    PROVE  Dropped(on_shutdown(rte, i, c), i)
<1> DEFINE R == on_shutdown(rte, i, c)
<1>1. rte \in [Id -> Route] /\ Shaped(i) /\ Notifies(i)
  BY Parts
<1>2. rte[i].conn \ {c} = {}
  BY <1>1 DEF Shaped
<1> DEFINE n == rte[i].notify
           S == [rte EXCEPT ![i].conn = @ \ {c}]
           T == [S EXCEPT ![i].shut = TRUE]
           V == [T EXCEPT ![i].notify = None]
<1>3. /\ S \in [Id -> Route] /\ S[i].conn = {} /\ \A x \in Id \ {i} : S[x] = rte[x]
      /\ S[i].made = rte[i].made /\ S[i].url = rte[i].url /\ S[i].notify = n
      /\ S[i].ctx = rte[i].ctx /\ S[i].host = rte[i].host
      /\ S[i].state = rte[i].state /\ S[i].timer = rte[i].timer
      /\ S[i].asked = rte[i].asked /\ S[i].client = rte[i].client
  BY <1>1, <1>2 DEF Route
<1>4. on_shutdown(rte, i, c) = Notified(T, i)
  BY <1>3 DEF on_shutdown
<1> HIDE DEF S
<1>5. /\ T \in [Id -> Route] /\ T[i].conn = {} /\ \A x \in Id \ {i} : T[x] = rte[x]
      /\ T[i].made = rte[i].made /\ T[i].url = rte[i].url /\ T[i].notify = n
      /\ T[i].ctx = rte[i].ctx /\ T[i].host = rte[i].host /\ T[i].shut
      /\ T[i].state = rte[i].state /\ T[i].timer = rte[i].timer
      /\ T[i].asked = rte[i].asked /\ T[i].client = rte[i].client
  BY <1>3 DEF Route
<1> HIDE DEF T
<1>6. Notified(T, i) = IF T[i].notify # None /\ V[T[i].notify].state = "shutdown"
                       THEN [V EXCEPT ![T[i].notify] = connect(V[T[i].notify])]
                       ELSE V
  BY DEF Notified
<1>7. /\ V \in [Id -> Route] /\ V[i].conn = {} /\ \A x \in Id \ {i} : V[x] = rte[x]
      /\ V[i].made = rte[i].made /\ V[i].url = rte[i].url /\ V[i].notify = None
      /\ V[i].ctx = rte[i].ctx /\ V[i].host = rte[i].host /\ V[i].shut
      /\ V[i].state = rte[i].state /\ V[i].timer = rte[i].timer
      /\ V[i].asked = rte[i].asked /\ V[i].client = rte[i].client
  BY <1>5 DEF Route
<1> HIDE DEF V
<1>8. n # None => n \in Id \ {i}
  BY <1>1 DEF Notifies, Route
<1>9. CASE n # None /\ V[n].state = "shutdown"
  <2> DEFINE p == connect(V[n])
  <2>1. V[n] = rte[n] /\ V[n] \in Route
    BY <1>7, <1>8, <1>9
  <2>2. p \in Route /\ p.state = "lookup"
    BY <2>1, ConnectFacts
  <2>3. R = [V EXCEPT ![n] = p]
    BY <1>4, <1>5, <1>6, <1>9
  <2>4. p = connect(rte[n])
    BY <2>1
  <2> HIDE DEF p, R
  <2>5. Dropped(R, i)
    BY <1>7, <1>8, <1>9, <2>1, <2>2, <2>3, <2>4 DEF Dropped
  <2> QED
    BY <2>5 DEF R
<1>10. CASE ~(n # None /\ V[n].state = "shutdown")
  <2>1. R = V
    BY <1>4, <1>5, <1>6, <1>10
  <2> HIDE DEF R
  <2>2. Dropped(R, i)
    BY <1>7, <1>8, <1>10, <2>1 DEF Dropped
  <2> QED
    BY <2>2 DEF R
<1> QED
  BY <1>9, <1>10

(* The context that is notified has stopped without a client and restarts. *)
LEMMA NotifiedRestarts ==
    ASSUME IndInv, NEW i \in Id, NEW c \in rte[i].conn, NEW x \in Id \ {i},
           x = rte[i].notify, rte[x].state = "shutdown", rte'[x] = connect(rte[x])
    PROVE  Restarted(x)
<1>1. Notifies(i) /\ rte[x] \in Route /\ x # None
  BY Parts, Ids
<1>2. rte[x].ctx /\ rte[x].client = None
  BY <1>1 DEF Notifies
<1> DEFINE p == connect(rte[x])
<1>3. /\ p.made = rte[x].made /\ p.url = rte[x].url /\ p.conn = rte[x].conn
      /\ p.notify = rte[x].notify /\ p.ctx = rte[x].ctx /\ p.host = rte[x].host
      /\ p.client = rte[x].client /\ p.state = "lookup" /\ p.asked /\ ~p.timer
  BY <1>1, ConnectFacts
<1>4. rte'[x] = p
  OBVIOUS
<1> HIDE DEF p
<1> QED
  BY <1>2, <1>3, <1>4 DEF Restarted

(* A peer that connected leaves. *)
LEMMA AcceptClosed ==
    ASSUME IndInv, NEW c \in Sock, sock[c].kind = "accept", sock[c].open,
           rte' = on_shutdown(rte, sock[c].id, c),
           sock' = [sock EXCEPT ![c] = FreeSock], started' = started, RestTyped
    PROVE  IndInv'
<1> DEFINE i == sock[c].id
           q == rte'[i]
<1>1. i \in Id /\ ~rte[i].ctx /\ rte[i].made
  BY Parts DEF Placed
<1>2. c \in rte[i].conn /\ Shaped(i)
  BY <1>1, Parts DEF CountExact
<1>3. /\ rte[i].state = "shutdown" /\ ~rte[i].timer /\ ~rte[i].asked
      /\ rte[i].client = None
  BY <1>1, <1>2 DEF Shaped
<1>4. /\ rte' \in [Id -> Route]
      /\ q.made = rte[i].made /\ q.url = rte[i].url /\ q.conn = {} /\ q.shut
      /\ q.ctx = rte[i].ctx /\ q.host = rte[i].host /\ q.state = rte[i].state
      /\ q.timer = rte[i].timer /\ q.asked = rte[i].asked /\ q.client = rte[i].client
      /\ q.notify = None
      /\ \A x \in Id \ {i} :
            \/ rte'[x] = rte[x]
            \/ x = rte[i].notify /\ rte[x].state = "shutdown" /\ rte'[x] = connect(rte[x])
      /\ rte[i].notify # None => rte'[rte[i].notify].state # "shutdown"
  <2>1. Dropped(rte', i)
    BY <1>1, <1>2, OnShutdownDrops
  <2> QED
    BY <2>1 DEF Dropped
<1>5. \A x \in Id \ {i} : rte'[x] = rte[x] \/ Restarted(x)
  BY <1>1, <1>2, <1>4, NotifiedRestarts
<1>6. q \in Route /\ rte'[i] = q
  BY <1>1, <1>4
<1> HIDE DEF q
<1>7. q.made /\ ~q.timer /\ ~q.asked /\ q.client = None /\ q.state = "shutdown"
  BY <1>1, <1>3, <1>4
<1>8. Waits(q)
  BY <1>7 DEF Waits
<1> QED
  BY <1>1, <1>3, <1>4, <1>5, <1>6, <1>7, <1>8, DropStep

(* The connection of a context ends. *)
LEMMA ConnectClosed ==
    ASSUME IndInv, NEW c \in Sock, sock[c].kind = "connect", NEW e \in BOOLEAN,
           rte' = Disconnected(sock[c].id, e),
           sock' = [sock EXCEPT ![c] = FreeSock], started' = started, RestTyped
    PROVE  IndInv'
<1> DEFINE i == sock[c].id
           R == on_shutdown(rte, i, c)
           n == rte[i].notify
<1>1. /\ rte \in [Id -> Route] /\ Placed(c) /\ c # None
  BY Parts, Ids
<1>2. i \in Id /\ rte[i].ctx /\ rte[i].client = c
  BY <1>1 DEF Placed
<1>3. Shaped(i) /\ rte[i] \in Route
  BY <1>1, <1>2, Parts
<1>4. rte[i].made /\ ~rte[i].asked
  BY <1>1, <1>2, <1>3 DEF Shaped, Waits, Route
<1>5. rte[i].conn = {} \/ c \in rte[i].conn
  BY <1>2, ContextConn
<1>6. /\ R \in [Id -> Route]
      /\ R[i].made = rte[i].made /\ R[i].url = rte[i].url /\ R[i].conn = {}
      /\ R[i].ctx = rte[i].ctx /\ R[i].host = rte[i].host
      /\ R[i].state = rte[i].state /\ R[i].asked = rte[i].asked
      /\ R[i].state = "shutdown" => R[i].shut
      /\ R[i].notify = None \/ (rte[i].conn = {} /\ R[i].notify = n)
      /\ \A x \in Id \ {i} :
            \/ R[x] = rte[x]
            \/ /\ c \in rte[i].conn /\ x = n
               /\ rte[x].state = "shutdown" /\ R[x] = connect(rte[x])
      /\ rte[i].conn # {} /\ n # None => n \in Id \ {i} /\ R[n].state # "shutdown"
  <2>1. CASE c \in rte[i].conn
    <3>1. Dropped(R, i)
      BY <1>2, <2>1, OnShutdownDrops
    <3> HIDE DEF R
    <3> QED
      BY <2>1, <3>1 DEF Dropped
  <2>2. CASE rte[i].conn = {}
    <3>1. R = rte
      BY <2>2 DEF on_shutdown
    <3>2. rte[i].state = "shutdown" => rte[i].shut
      BY <1>2, <1>3, <2>2 DEF Shaped, Route
    <3> QED
      BY <1>1, <2>2, <3>1, <3>2
  <2> QED
    BY <1>5, <2>1, <2>2
<1> DEFINE r == IF R[i].state = "shutdown" THEN R[i]
                ELSE [R[i] EXCEPT !.prog = TRUE, !.shut = FALSE]
           p == [r EXCEPT !.client = None]
           q == Again(p, e)
<1>7. rte' = [R EXCEPT ![i] = q]
  BY <1>2 DEF Disconnected
<1> HIDE DEF R
<1>8. /\ r \in Route /\ r.made /\ r.url = rte[i].url /\ r.conn = {} /\ r.ctx
      /\ r.host = rte[i].host /\ r.state = rte[i].state /\ ~r.asked
      /\ r.notify = R[i].notify
      /\ r.state = "shutdown" => r.shut
  <2>1. R[i] \in Route /\ R[i].made /\ R[i].ctx /\ ~R[i].asked
    BY <1>2, <1>4, <1>6
  <2>2. CASE R[i].state = "shutdown"
    BY <1>6, <2>1, <2>2
  <2>3. CASE R[i].state # "shutdown"
    <3>1. r = [R[i] EXCEPT !.prog = TRUE, !.shut = FALSE]
      BY <2>3
    <3> HIDE DEF r
    <3> QED
      BY <1>6, <2>1, <2>3, <3>1 DEF Route
  <2> QED
    BY <2>2, <2>3
<1> HIDE DEF r
<1>9. /\ p \in Route /\ p.made /\ p.url = rte[i].url /\ p.conn = {} /\ p.ctx
      /\ p.host = rte[i].host /\ p.state = rte[i].state /\ ~p.asked
      /\ p.notify = R[i].notify /\ p.client = None
      /\ p.state = "shutdown" => p.shut
  BY <1>8 DEF Route
<1> HIDE DEF p
<1>10. /\ q \in Route /\ q.made = p.made /\ q.url = p.url /\ q.conn = p.conn
       /\ q.ctx = p.ctx /\ q.host = p.host /\ ~q.asked /\ q.notify = p.notify
       /\ q.client = None /\ q.shut = p.shut /\ Waits(q)
       /\ p.state = "shutdown" => q = p
       /\ p.state # "shutdown" => q.state \in {"idle", "timer"}
  BY <1>9, AgainFacts
<1> HIDE DEF q
<1>11. /\ q.made /\ q.url = rte[i].url /\ q.conn = {} /\ q.ctx = rte[i].ctx
       /\ q.host = rte[i].host /\ q.notify = R[i].notify
       /\ q.state = "shutdown" => rte[i].state = "shutdown" /\ q.shut
  <2>1. q.ctx = rte[i].ctx
    BY <1>2, <1>3, <1>9, <1>10 DEF Route
  <2> QED
    BY <1>9, <1>10, <2>1
<1>12. rte' \in [Id -> Route] /\ rte'[i] = q /\ \A x \in Id \ {i} : rte'[x] = R[x]
  BY <1>2, <1>6, <1>7, <1>10
<1>13. \A x \in Id \ {i} : rte'[x] = rte[x] \/ Restarted(x)
  <2> SUFFICES ASSUME NEW x \in Id \ {i}, rte'[x] # rte[x] PROVE Restarted(x)
    OBVIOUS
  <2>1. /\ c \in rte[i].conn /\ x = n /\ rte[x].state = "shutdown"
        /\ rte'[x] = connect(rte[x])
    BY <1>6, <1>12
  <2> QED
    BY <1>2, <2>1, NotifiedRestarts
<1>14. rte[i].conn # {} /\ rte[i].notify # None => rte'[rte[i].notify].state # "shutdown"
  BY <1>6, <1>12
<1>15. q.notify = None \/ (rte[i].conn = {} /\ rte[i].ctx /\ q.notify = rte[i].notify)
  BY <1>2, <1>6, <1>11
<1> QED
  BY <1>2, <1>10, <1>11, <1>12, <1>13, <1>14, <1>15, DropStep

(* A socket that closes keeps the invariant. *)
LEMMA CloseStep ==
    ASSUME IndInv, NEW c \in Sock, Close(c)
    PROVE  IndInv'
<1>1. /\ sock[c].kind # "free" /\ sock' = [sock EXCEPT ![c] = FreeSock]
      /\ started' = started /\ UNCHANGED <<listener, down, wanted, calls>>
      /\ faults' = faults \/ Fault
  BY DEF Close
<1>2. RestTyped
  BY <1>1, Parts, Counted DEF RestTyped, TypeOK
<1>3. CASE /\ sock[c].kind = "connect"
           /\ \E expired \in {FALSE, Timeout /\ ~sock[c].open} :
                 rte' = Disconnected(sock[c].id, expired)
  <2>1. PICK e \in BOOLEAN : rte' = Disconnected(sock[c].id, e)
    BY <1>3
  <2> QED
    BY <1>1, <1>2, <1>3, <2>1, ConnectClosed
<1>4. CASE /\ sock[c].kind = "accept" /\ sock[c].open
           /\ rte' = on_shutdown(rte, sock[c].id, c)
  BY <1>1, <1>2, <1>4, AcceptClosed
<1>5. CASE sock[c].kind = "accept" /\ ~sock[c].open /\ rte' = rte
  <2>1. /\ FreeSock \in Socket /\ ~FreeSock.open /\ FreeSock.id = None
        /\ FreeSock.kind = "free"
    BY NewTypes DEF FreeSock
  <2> QED
    BY <1>1, <1>2, <1>5, <2>1, LooseSocketStep
<1> QED
  BY <1>3, <1>4, <1>5 DEF Close

-----------------------------------------------------------------------------
(* The theorems                                                            *)

(* The invariant holds at the start. *)
LEMMA InitInv == Init => IndInv
<1> SUFFICES ASSUME Init PROVE IndInv
  OBVIOUS
<1>1. /\ \A i \in Id : rte[i] = NewRoute
      /\ \A s \in Sock : sock[s] = FreeSock
      /\ rte \in [Id -> Route] /\ sock \in [Sock -> Socket]
  BY NewTypes DEF Init
<1>2. TypeOK
  <2>1. listener = "up" /\ wanted = {} /\ started = {} /\ calls = 0 /\ faults = 0
    BY DEF Init
  <2>2. down \in BOOLEAN
    BY Zenon DEF Init
  <2>3. MaxCalls \in Nat /\ MaxFaults \in Nat
    BY ConnectMgrAssumption
  <2>4. /\ listener \in {"up", "closing", "down"}
        /\ wanted \subseteq Url /\ started \subseteq Url
        /\ calls \in 0 .. MaxCalls /\ faults \in 0 .. MaxFaults
    BY <2>1, <2>3
  <2> QED
    BY <1>1, <2>2, <2>4 DEF TypeOK
<1>3. \A s \in Sock : Placed(s)
  BY <1>1 DEF Placed, FreeSock
<1>4. \A i \in Id : Shaped(i)
  BY <1>1 DEF Shaped, Waits, NewRoute
<1>5. CountExact
  BY <1>1 DEF CountExact, NewRoute, FreeSock
<1>6. \A j \in Id : Notifies(j)
  BY <1>1 DEF Notifies, NewRoute
<1>7. NoneForgotten
  BY DEF Init, NoneForgotten
<1> QED
  BY <1>2, <1>3, <1>4, <1>5, <1>6, <1>7 DEF IndInv

(* With Prompt every step keeps the invariant. *)
LEMMA NextInv ==
    ASSUME Prompt, IndInv, [Next]_vars
    PROVE  IndInv'
<1>1. CASE UNCHANGED vars
  <2>1. RestTyped
    BY <1>1, Parts DEF vars, RestTyped, TypeOK
  <2> QED
    BY <1>1, <2>1, RestStep DEF vars
<1>2. CASE Next
  <2>1. CASE \E connecting \in BOOLEAN : Start(connecting)
    BY <2>1, StartStep
  <2>2. CASE Shutdown
    BY <2>2, ShutdownStep
  <2>3. CASE \E u \in Url : Learned(u) \/ Accept(u)
    BY <2>3, LearnedStep, AcceptStep
  <2>4. CASE \E i \in Id : Resolved(i) \/ timer_cb(i)
    BY <2>4, ResolvedStep, TimerStep
  <2>5. CASE \E s \in Sock : on_connect(s) \/ Close(s) \/ set_mesh(s)
    BY <2>5, OnConnectStep, CloseStep, SetMeshStep
  <2>6. CASE StopListen
    BY <2>6, StopListenStep
  <2> QED
    BY <1>2, <2>1, <2>2, <2>3, <2>4, <2>5, <2>6 DEF Next
<1> QED
  BY <1>1, <1>2

(* The invariant implies the properties. *)
LEMMA InvProps == IndInv => OneClient /\ CountExact /\ NeverStuck /\ NoneForgotten
<1> SUFFICES ASSUME IndInv PROVE OneClient /\ NeverStuck
  BY Parts
<1>1. OneClient
  BY Parts DEF OneClient, Connecting, Placed
<1>2. NeverStuck
  BY Parts DEF NeverStuck, Shaped, Waits
<1> QED
  BY <1>1, <1>2

(* With Prompt the invariant always holds. *)
LEMMA Inductive == Prompt => (Spec => []IndInv)
<1> SUFFICES ASSUME Prompt PROVE Spec => []IndInv
  OBVIOUS
<1>1. Init => IndInv
  BY InitInv
<1>2. IndInv /\ [Next]_vars => IndInv'
  BY NextInv
<1> QED
  BY <1>1, <1>2, PTL DEF Spec

(* No context ever has a second connection, so the one that on_connect and *)
(* on_shutdown of ConnectMgr act on is the one that called them.           *)
THEOREM ContextsHaveOneClient ==
    ASSUME Prompt
    PROVE  Spec => []OneClient
<1>1. IndInv => OneClient
  BY InvProps
<1> QED
  BY <1>1, Inductive, PTL

(* connect_count of a route is the number of its sockets.                  *)
THEOREM CountsAreExact ==
    ASSUME Prompt
    PROVE  Spec => []CountExact
<1>1. IndInv => CountExact
  BY InvProps
<1> QED
  BY <1>1, Inductive, PTL

(* A context that has not stopped has a lookup, a timer or a socket.       *)
THEOREM ContextsNeverStuck ==
    ASSUME Prompt
    PROVE  Spec => []NeverStuck
<1>1. IndInv => NeverStuck
  BY InvProps
<1> QED
  BY <1>1, Inductive, PTL

(* A url for which a connect was started is connected, connecting, given   *)
(* up, or has a context that a connected route will notify.  Of a connect  *)
(* that was skipped since a route to the url was up it says nothing.       *)
THEOREM PeersNotForgotten ==
    ASSUME Prompt
    PROVE  Spec => []NoneForgotten
<1>1. IndInv => NoneForgotten
  BY InvProps
<1> QED
  BY <1>1, Inductive, PTL

=============================================================================

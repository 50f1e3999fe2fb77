------------------------------ MODULE ConnectMgr ------------------------------
(***************************************************************************)
(* The connections of a mesh transport at one node: its listener, the      *)
(* routes that connect to the urls of peers and the routes of peers that   *)
(* connected to it (src/src/conn_mgr.cpp, session_tport.cpp, transport.cpp,*)
(* ev_tcp_transport.cpp).                                                  *)
(*                                                                         *)
(* A route that connects has a ConnectCtx, which looks up the address,     *)
(* connects, waits for the exchange of keys, and starts again after a time *)
(* when any of it fails.  When it finds that the peer is connected by      *)
(* another route it stops and leaves itself in notify_ctx of that route,   *)
(* which restarts it when it drops.                                        *)
(*                                                                         *)
(* Route and context are one record, since ctx.event_id is the tport_id of *)
(* the route.  A peer has one url, under which it is looked up and which   *)
(* its heartbeats carry.                                                   *)
(***************************************************************************)
EXTENDS Integers, FiniteSets

CONSTANTS
    Url,         \* the urls of peers
    Home,        \* the url the transport is configured to connect to
    Timeout,     \* connects give up after a time (timeout # 0)
    Prompt,      \* a socket told to close does so before other events
    MaxRoutes,   \* bound: routes of the mesh but the listener
    MaxSocks,    \* bound: sockets
    MaxAccepts,  \* bound: sockets of peers that connected, at one time
    MaxCalls,    \* bound: commands of the console and urls learned
    MaxFaults    \* bound: failures of lookups and connections

Id   == 1 .. MaxRoutes
Sock == 1 .. MaxSocks

NoUrl == "none"   \* mesh_url_hash is 0
None  == 0        \* no route, no socket

ASSUME ConnectMgrAssumption ==
    /\ Home \in Url /\ NoUrl \notin Url
    /\ Timeout \in BOOLEAN /\ Prompt \in BOOLEAN
    /\ MaxRoutes \in Nat /\ MaxSocks \in Nat /\ MaxAccepts \in Nat
    /\ MaxCalls \in Nat /\ MaxFaults \in Nat

VARIABLES
    listener,    \* the listening socket: "up", "closing" or "down"
    down,        \* TPORT_IS_SHUTDOWN of the listener's route
    rte,         \* transport_tab: the other routes of the mesh
    sock,        \* the sockets
    wanted,      \* history: urls it was told to connect to since the last shutdown
    started,     \* history: those of them a connect was started for
    calls,       \* commands and learned urls so far
    faults       \* failures so far

vars == <<listener, down, rte, sock, wanted, started, calls, faults>>

Route ==
    [made   : BOOLEAN,               \* is in transport_tab
     url    : Url \union {NoUrl},    \* mesh_url
     shut   : BOOLEAN,               \* TPORT_IS_SHUTDOWN
     prog   : BOOLEAN,               \* TPORT_IS_INPROGRESS
     conn   : SUBSET Sock,           \* connected, connect_count
     notify : Id \union {None},      \* notify_ctx
     ctx    : BOOLEAN,               \* has a connect_ctx, with the fields below
     host   : Url \union {NoUrl},    \* addr_info.host
     state  : {"idle", "lookup", "active", "timer", "shutdown"},
     timer  : BOOLEAN,               \* timer_active
     asked  : BOOLEAN,               \* addr_info has a lookup to answer
     client : Sock \union {None}]

NewRoute ==
    [made |-> FALSE, url |-> NoUrl, shut |-> FALSE, prog |-> FALSE, conn |-> {},
     notify |-> None, ctx |-> FALSE, host |-> NoUrl, state |-> "shutdown",
     timer |-> FALSE, asked |-> FALSE, client |-> None]

(* a socket: who it leads to, the route it belongs to, whether the keys    *)
(* are exchanged and whether it was told to close                          *)
Socket ==
    [kind : {"free", "connect", "accept"}, peer : Url \union {NoUrl},
     id : Id \union {None}, open : BOOLEAN, closing : BOOLEAN]

FreeSock ==
    [kind |-> "free", peer |-> NoUrl, id |-> None, open |-> FALSE, closing |-> FALSE]

First(S) == CHOOSE i \in S : \A j \in S : i <= j

Made == {i \in Id : rte[i].made}
Free == {s \in Sock : sock[s].kind = "free"}

(* events other than those of the sockets that are to close come after them *)
Ready == Prompt => /\ \A s \in Sock : ~sock[s].closing
                   /\ listener # "closing"

Called == calls < MaxCalls /\ calls' = calls + 1
Fault  == faults < MaxFaults /\ faults' = faults + 1

-----------------------------------------------------------------------------
(* ConnectCtx                                                              *)

(* mutant: the timer goes on *)
set_state_Timer(r, state) == [r EXCEPT !.state = state]

(* with clear_timer *)
set_state(r, state) == [r EXCEPT !.state = state, !.timer = FALSE]

(* connect and reconnect: on_dns, then addr_info asks, in place of an      *)
(* earlier lookup                                                          *)
connect(r) == [set_state(r, "lookup") EXCEPT !.prog = TRUE, !.asked = TRUE]

(* mutant: the timer is set and then cleared with the change of state *)
Again_Cleared(r, expired) ==
    IF r.state = "shutdown" THEN r
    ELSE IF expired THEN [set_state(r, "idle") EXCEPT !.prog = FALSE]
    ELSE set_state([r EXCEPT !.timer = TRUE], "timer")

(* what follows when a connect failed or a connection dropped *)
Again(r, expired) ==
    IF r.state = "shutdown"
    THEN r
    ELSE IF expired
         THEN [set_state(r, "idle") EXCEPT !.prog = FALSE]
         ELSE [set_state(r, "timer") EXCEPT !.timer = TRUE]

-----------------------------------------------------------------------------
(* TransportRoute                                                          *)

(* mutant: a route that drops has no one to notify *)
Notified_None(R, j) == [R EXCEPT ![j].notify = None]

(* the context in notify_ctx of route j, which dropped, is started again *)
Notified(R, j) ==
    LET i == R[j].notify
        S == [R EXCEPT ![j].notify = None]
    IN  IF i # None /\ S[i].state = "shutdown"
        THEN [S EXCEPT ![i] = connect(S[i])]
        ELSE S

(* mutant: a socket is counted until the route is used again *)
on_shutdown_Counted(R, j, s) ==
    IF s \notin R[j].conn THEN R
    ELSE IF R[j].conn # {s} THEN [R EXCEPT ![j].conn = @ \ {s}]
    ELSE Notified([R EXCEPT ![j].shut = TRUE], j)

(* on_shutdown of route j, whose socket s has closed *)
on_shutdown(R, j, s) ==
    LET S == [R EXCEPT ![j].conn = @ \ {s}]
    IN  IF s \notin R[j].conn THEN R
        ELSE IF S[j].conn # {} THEN S
        ELSE Notified([S EXCEPT ![j].shut = TRUE], j)

(* on_shutdown of a route whose socket could not be made: it has no fd *)
Unmade(r) == [r EXCEPT !.shut = @ \/ r.conn = {}, !.client = None]

(* mutant: a route that is shut down counts as active *)
find_mesh_Any(i) ==
    LET found == {j \in Made \ {i} : rte[j].url = rte[i].url}
    IN  IF found = {} THEN None ELSE First(found)

(* the route by which the peer of route i is connected, or connecting *)
find_mesh(i) ==
    LET found == {j \in Made \ {i} : ~rte[j].shut /\ rte[j].url = rte[i].url}
    IN  IF found = {} THEN None ELSE First(found)

(* init_state of a route that is used again *)
init_state(r) == [r EXCEPT !.made = TRUE, !.url = NoUrl, !.shut = FALSE, !.prog = FALSE]

(* the route found for reuse, or else a new one *)
Reused(found) ==
    IF found # {} THEN {First(found)}
    ELSE IF Made = Id THEN {} ELSE {First(Id \ Made)}

-----------------------------------------------------------------------------
(* Connecting to a url                                                     *)

(* routes that may connect to u again *)
Reusable(u) ==
    {i \in Made :
        /\ rte[i].shut /\ rte[i].url = u /\ rte[i].conn = {}
        /\ rte[i].ctx => rte[i].state \in {"shutdown", "idle"}}

(* add_mesh_connect: nothing when a route to u is up or connecting *)
add_mesh_connect(u) ==
    /\ wanted' = wanted \union {u}
    /\ IF \E j \in Made : ~rte[j].shut /\ rte[j].url = u
       THEN UNCHANGED <<rte, started>>
       ELSE \E i \in Reused(Reusable(u)) :
               /\ rte' = [rte EXCEPT ![i] = connect(
                      [init_state(@) EXCEPT !.url = u, !.ctx = TRUE, !.host = u])]
               /\ started' = started \union {u}

(* process_mesh_pending: a url that another node told of *)
Learned(u) ==
    /\ Ready /\ Called
    /\ add_mesh_connect(u)
    /\ UNCHANGED <<listener, down, sock, faults>>

(* Console::connect and listen, start_transport: the listener is started   *)
(* if it is shut down, and if that does not fail the url is connected to   *)
Start(connecting) ==
    /\ Ready /\ Called
    /\ connecting \/ down
    /\ \/ down /\ Fault /\ UNCHANGED <<listener, down, rte, wanted, started>>
       \/ /\ listener' = IF down /\ listener = "down" THEN "up" ELSE listener
          /\ down' = FALSE
          /\ IF connecting THEN add_mesh_connect(Home)
             ELSE UNCHANGED <<rte, wanted, started>>
          /\ UNCHANGED faults
    /\ UNCHANGED sock

(* Console::shutdown, shutdown_transport and TransportRoute::shutdown.     *)
(* The timers of the contexts are left to run out.                         *)
Shutdown ==
    /\ Ready /\ Called
    /\ listener' = IF listener = "up" THEN "closing" ELSE listener
    /\ down' = TRUE
    /\ rte' = [i \in Id |->
          IF ~rte[i].made THEN rte[i]
          ELSE IF rte[i].ctx
               THEN [rte[i] EXCEPT !.notify = None, !.shut = TRUE, !.prog = FALSE,
                                   !.state = "shutdown"]
               ELSE [rte[i] EXCEPT !.notify = None, !.shut = TRUE]]
    /\ sock' = [s \in Sock |->
          IF \E i \in Made : s = rte[i].client \/ s \in rte[i].conn
          THEN [sock[s] EXCEPT !.closing = TRUE]
          ELSE sock[s]]
    /\ wanted' = {} /\ started' = {}
    /\ UNCHANGED faults

-----------------------------------------------------------------------------
(* The callbacks of a context                                              *)

(* ConnectMgr::connect when route j is active: i stops, j will notify it *)
Parked(i, j) ==
    [rte EXCEPT ![i] = [@ EXCEPT !.asked = FALSE, !.prog = FALSE, !.shut = TRUE,
                                 !.state = "shutdown"],
                ![j].notify = i]

(* addr_resolve_cb: the lookup of i is answered *)
Resolved(i) ==
    LET r == [rte[i] EXCEPT !.asked = FALSE]
        j == find_mesh(i)
    IN  /\ Ready
        /\ rte[i].asked
        /\ \/ /\ r.state = "shutdown"
              /\ rte' = [rte EXCEPT ![i] = r]
              /\ UNCHANGED <<sock, faults>>
           \/ /\ r.state # "shutdown" /\ j # None
              /\ rte' = Parked(i, j)
              /\ UNCHANGED <<sock, faults>>
           \/ /\ r.state # "shutdown" /\ j = None /\ Free # {}
              /\ rte' = [rte EXCEPT ![i] = [r EXCEPT !.client = First(Free)]]
              /\ sock' = [sock EXCEPT ![First(Free)] =
                     [kind |-> "connect", peer |-> r.host, id |-> i,
                      open |-> FALSE, closing |-> FALSE]]
              /\ UNCHANGED faults
           \/ (* there is no address, or no socket for it *)
              /\ r.state # "shutdown" /\ Fault
              /\ \E expired \in {FALSE, Timeout} :
                    \/ rte' = [rte EXCEPT ![i] = Again(r, expired)]
                    \/ j = None /\ rte' = [rte EXCEPT ![i] = Again(Unmade(r), expired)]
              /\ UNCHANGED sock
        /\ UNCHANGED <<listener, down, wanted, started, calls>>

timer_cb(i) ==
    /\ Ready
    /\ rte[i].timer
    /\ rte' = [rte EXCEPT ![i] =
           IF @.state = "shutdown"
           THEN [@ EXCEPT !.timer = FALSE]
           ELSE [@ EXCEPT !.timer = FALSE, !.state = "lookup", !.prog = TRUE,
                          !.asked = TRUE]]
    /\ UNCHANGED <<listener, down, sock, wanted, started, calls, faults>>

(* ConnectCtx::on_connect: the keys of client s are exchanged *)
Connected(s) ==
    LET i == sock[s].id
    IN  /\ sock[s].kind = "connect"
        /\ rte' = [rte EXCEPT ![i] =
               [set_state(rte[i], "active") EXCEPT
                   !.prog = FALSE, !.shut = FALSE,
                   !.conn = rte[i].conn \union {rte[i].client}]]
        /\ sock' = [sock EXCEPT ![s].open = TRUE]
        /\ UNCHANGED down

(* add_mesh_accept: on_connect of the listener's route, which is taken to  *)
(* be up, and a route for the peer                                         *)
Accepted(s) ==
    /\ sock[s].kind = "accept"
    /\ \E j \in Reused({i \in Made : rte[i].shut /\ ~rte[i].ctx /\ rte[i].conn = {}}) :
          /\ rte' = [rte EXCEPT ![j] =
                 [init_state(rte[j]) EXCEPT !.conn = rte[j].conn \union {s}]]
          /\ sock' = [sock EXCEPT ![s].open = TRUE, ![s].id = j]
    /\ down' = FALSE

(* the keys are exchanged; what a socket has read is processed before it   *)
(* closes                                                                  *)
on_connect(s) ==
    /\ Ready \/ sock[s].closing
    /\ ~sock[s].open
    /\ Connected(s) \/ Accepted(s)
    /\ UNCHANGED <<listener, wanted, started, calls, faults>>

(* ConnectCtx::on_shutdown, ConnectMgr::on_shutdown: the client of i is    *)
(* closed, whichever it is; a connection that was used does not expire     *)
Disconnected(i, expired) ==
    LET R == on_shutdown(rte, i, rte[i].client)
        r == IF R[i].state = "shutdown" THEN R[i]
             ELSE [R[i] EXCEPT !.prog = TRUE, !.shut = FALSE]
    IN  [R EXCEPT ![i] = Again([r EXCEPT !.client = None], expired)]

(* release: socket s is closed, by one end or the other *)
Close(s) ==
    /\ sock[s].kind # "free"
    /\ IF sock[s].closing THEN UNCHANGED faults ELSE Ready /\ Fault
    /\ \/ /\ sock[s].kind = "connect"
          /\ \E expired \in {FALSE, Timeout /\ ~sock[s].open} :
                rte' = Disconnected(sock[s].id, expired)
       \/ /\ sock[s].kind = "accept" /\ sock[s].open
          /\ rte' = on_shutdown(rte, sock[s].id, s)
       \/ /\ sock[s].kind = "accept" /\ ~sock[s].open
          /\ UNCHANGED rte
    /\ sock' = [sock EXCEPT ![s] = FreeSock]
    /\ UNCHANGED <<listener, down, wanted, started, calls>>

-----------------------------------------------------------------------------
(* The listener and the peers                                              *)

(* release of the listener: on_shutdown of its route *)
StopListen ==
    /\ listener = "closing"
    /\ listener' = "down" /\ down' = TRUE
    /\ UNCHANGED <<rte, sock, wanted, started, calls, faults>>

(* a peer connects *)
Accept(u) ==
    /\ Ready /\ listener = "up" /\ Free # {}
    /\ Cardinality({s \in Sock : sock[s].kind = "accept"}) < MaxAccepts
    /\ sock' = [sock EXCEPT ![First(Free)] =
           [kind |-> "accept", peer |-> u, id |-> None, open |-> FALSE, closing |-> FALSE]]
    /\ UNCHANGED <<listener, down, rte, wanted, started, calls, faults>>

(* set_mesh: a heartbeat of the peer, on a socket that is open, has its url *)
set_mesh(s) ==
    /\ Ready /\ sock[s].open
    /\ rte[sock[s].id].url # sock[s].peer
    /\ rte' = [rte EXCEPT ![sock[s].id].url = sock[s].peer]
    /\ UNCHANGED <<listener, down, sock, wanted, started, calls, faults>>

-----------------------------------------------------------------------------
Init ==
    /\ listener = "up" /\ down = FALSE
    /\ rte = [i \in Id |-> NewRoute]
    /\ sock = [s \in Sock |-> FreeSock]
    /\ wanted = {} /\ started = {} /\ calls = 0 /\ faults = 0

Next ==
    \/ \E connecting \in BOOLEAN : Start(connecting)
    \/ Shutdown
    \/ \E u \in Url : Learned(u) \/ Accept(u)
    \/ \E i \in Id : Resolved(i) \/ timer_cb(i)
    \/ \E s \in Sock : on_connect(s) \/ Close(s) \/ set_mesh(s)
    \/ StopListen

Spec == Init /\ [][Next]_vars

(* The loop runs timers, answers lookups, and exchanges keys with a peer   *)
(* that is there; sockets told to close are closed.                        *)
Fairness ==
    /\ \A i \in Id : WF_vars(Resolved(i)) /\ WF_vars(timer_cb(i))
    /\ \A s \in Sock : /\ WF_vars(on_connect(s))
                       /\ WF_vars(Close(s) /\ sock[s].closing)
    /\ WF_vars(StopListen)

FairSpec == Spec /\ Fairness

-----------------------------------------------------------------------------
(* Properties                                                              *)

TypeOK ==
    /\ listener \in {"up", "closing", "down"} /\ down \in BOOLEAN
    /\ rte \in [Id -> Route]
    /\ sock \in [Sock -> Socket]
    /\ wanted \subseteq Url /\ started \subseteq Url
    /\ calls \in 0 .. MaxCalls /\ faults \in 0 .. MaxFaults

Connecting(s) == sock[s].kind = "connect"

(* A context has one connection: each socket that a context made is the    *)
(* one it keeps in client, to which on_connect and on_shutdown of          *)
(* ConnectMgr apply whichever socket calls them.  A timer or a lookup that *)
(* outlives its connect would make a second one.                           *)
OneClient ==
    \A s \in Sock : Connecting(s) => rte[sock[s].id].client = s

(* connect_count and connected of a route are the sockets that lead to it, *)
(* so it is taken for down, notifies and is used again exactly when the    *)
(* last one has closed.                                                    *)
CountExact ==
    \A i \in Id : rte[i].conn = {s \in Sock : sock[s].open /\ sock[s].id = i}

(* A context never waits for what does not come: one that has not stopped  *)
(* has a lookup, a timer or a socket, and exactly one of them.             *)
NeverStuck ==
    \A i \in Id : rte[i].ctx =>
        /\ rte[i].state = "lookup" =>
              ~rte[i].timer /\ (rte[i].asked <=> rte[i].client = None)
        /\ rte[i].state = "timer" =>
              rte[i].timer /\ ~rte[i].asked /\ rte[i].client = None
        /\ rte[i].state = "active" =>
              ~rte[i].timer /\ ~rte[i].asked /\ rte[i].client # None

Linked(u) == \E s \in Sock : sock[s].open /\ sock[s].peer = u
GaveUp(u) == \E i \in Id : rte[i].host = u /\ rte[i].state = "idle"

Trying(i)  == rte[i].state \in {"lookup", "timer", "active"}
Watched(i) == \E j \in Id : rte[j].notify = i /\ rte[j].conn # {}

(* A connect that was started is not forgotten: each url for which the     *)
(* node started one, and has not given up, has a context that connects, or *)
(* is connected, or has stopped and will be notified by a route that is    *)
(* connected ("if accept drop, notify reconnect").  A connect that was     *)
(* skipped since a route to the url was up is not started.                 *)
NoneForgotten ==
    \A u \in started :
        \/ GaveUp(u)
        \/ \E i \in Id : rte[i].host = u /\ (Trying(i) \/ Watched(i))

(* The same of each url that the node was told to connect to, the skipped  *)
(* ones too: one that is connected has nothing to start.  The code does    *)
(* not keep it (README, section 4).                                        *)
NoneSkipped ==
    \A u \in wanted :
        \/ Linked(u) \/ GaveUp(u)
        \/ \E i \in Id : rte[i].host = u /\ (Trying(i) \/ Watched(i))

(* A url for which a connect was started is connected in the end, by one   *)
(* side or the other, unless the connect gives up or the transport is shut *)
(* down.                                                                   *)
EventuallyLinked ==
    \A u \in Url : u \in started ~> Linked(u) \/ GaveUp(u) \/ u \notin started

=============================================================================

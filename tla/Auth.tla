--------------------------------- MODULE Auth ---------------------------------
(***************************************************************************)
(* The key exchange between sessions that share a transport, and the       *)
(* heartbeats, timers and byes that start and end it (src/src/auth.cpp,    *)
(* heartbeat.cpp, user_db.cpp, the dispatch of session.cpp).               *)
(*                                                                         *)
(* A heartbeat carries a fresh nonce.  Whoever decides to challenge its    *)
(* sender answers that nonce (stage 1); the receiver, if it still has the  *)
(* nonce among its last four heartbeats, trusts the challenger and answers *)
(* the nonce of the challenge (stage 2); the challenger, if that is still  *)
(* its latest, trusts the receiver and says so (stage 3).                  *)
(*                                                                         *)
(* A message verifies exactly when both sides use the same nonces, so a    *)
(* heartbeat is represented by its age, the number of heartbeats its       *)
(* sender has sent since, and a challenge by a nonce that nothing on the   *)
(* way uses.  A restarted process is a session of its own.                 *)
(***************************************************************************)
EXTENDS Integers, FiniteSets

CONSTANTS
    Session,     \* the sessions that share the transport
    Start,       \* start_time of each
    Restarts,    \* sessions whose process each one replaces
    Mortal,      \* sessions that may stop or crash
    Mcast,       \* the transport is multicast
    Old,         \* heartbeats a session remembers: 4
    MaxRetry,    \* challenges after which stage 2 does not restart stage 1: 5
    MaxNet,      \* bound: auth messages on the way
    MaxLoss      \* bound: messages lost, or overtaken by a timer

None    == Old + 1   \* age when hb_seqno is 0: none since the last reset
MaxMiss == 2         \* heartbeats missed until hb_timeout

Nonces == 1 .. MaxNet + 1

ASSUME AuthAssumption ==
    /\ IsFiniteSet(Session)
    /\ Start \in [Session -> Nat]
    /\ Restarts \in [Session -> SUBSET Session]
    /\ Mortal \subseteq Session
    /\ Mcast \in BOOLEAN
    /\ Old \in Nat \ {0} /\ MaxRetry \in Nat
    /\ MaxNet \in Nat \ {0} /\ MaxLoss \in Nat

VARIABLES
    up,       \* what each session does: "new", "up", "stopped", "crashed"
    aged,     \* sessions that started more than a second ago
    user,     \* user[s][p]: the UserBridge of p at s
    hb,       \* hb[s][p]: the heartbeat or bye of s on its way to p
    net,      \* auth messages on the way
    losses    \* messages lost or late so far

vars == <<up, aged, user, hb, net, losses>>

(* the fields of UserBridge the exchange uses *)
Bridge ==
    [auth   : BOOLEAN,              \* AUTHENTICATED_STATE
     chal   : BOOLEAN,              \* CHALLENGE_STATE, in challenge_queue
     zombie : BOOLEAN,              \* ZOMBIE_STATE
     hbq    : BOOLEAN,              \* IN_HB_QUEUE_STATE, in hb_queue
     last   : {"none", "auth", "bye", "timeout"},   \* last_auth_type
     age    : 0 .. None,            \* hb_seqno
     count  : 0 .. MaxRetry,        \* challenge_count
     nonce  : {0} \union Nonces,    \* auth[1]
     miss   : 0 .. MaxMiss]         \* heartbeats missed since hb_mono_time

NewUser ==
    [auth |-> FALSE, chal |-> FALSE, zombie |-> FALSE, hbq |-> FALSE,
     last |-> "none", age |-> None, count |-> 0, nonce |-> 0, miss |-> 0]

-----------------------------------------------------------------------------
(* Messages                                                                *)

Message ==
    [stage : 1 .. 3, from : Session, to : Session, age : 0 .. None,
     nonce : {0} \union Nonces]

(* stage 1 answers the heartbeat of p with that age *)
FromHello(s, p, age, nonce) ==
    [stage |-> 1, from |-> s, to |-> p, age |-> age, nonce |-> nonce]

(* stage 2 answers the challenge of p with that nonce *)
FromHandshake(s, p, nonce) ==
    [stage |-> 2, from |-> s, to |-> p, age |-> 0, nonce |-> nonce]

Trust(s, p) == [stage |-> 3, from |-> s, to |-> p, age |-> 0, nonce |-> 0]

(* a timer of s comes after the messages between s and the sessions in P   *)
(* arrived or were lost, or, MaxLoss times at most, while one is still on  *)
(* the way                                                                 *)
Settles(s, P) ==
    LET late == \E m \in net, p \in P : <<m.from, m.to>> \in {<<s, p>>, <<p, s>>}
    IN  \/ ~late /\ UNCHANGED losses
        \/ late /\ losses < MaxLoss /\ losses' = losses + 1

(* no challenge of s to p on the way, and no answer to one, has nonce k *)
Unused(s, p, k) ==
    \A m \in net : m.nonce = k =>
        /\ m.stage = 1 => m.from # s \/ m.to # p
        /\ m.stage = 2 => m.from # p \/ m.to # s

(* cnonce->calc(): a nonce that is not in use *)
Fresh(s, p) == {CHOOSE k \in Nonces : Unused(s, p, k)}

-----------------------------------------------------------------------------
(* Users                                                                   *)

(* mutant: a session that said bye may come back *)
add_authenticated_Any(n) ==
    [n EXCEPT !.auth = TRUE, !.zombie = FALSE, !.last = "auth", !.miss = 0]

add_authenticated(n) ==
    IF n.zombie /\ n.last = "bye"
    THEN n
    ELSE [n EXCEPT !.auth = TRUE, !.zombie = FALSE, !.last = "auth", !.miss = 0]

(* every queue that holds the user is left *)
remove_authenticated(n, bye) ==
    [n EXCEPT !.auth = FALSE, !.chal = FALSE, !.zombie = TRUE, !.hbq = FALSE,
              !.last = bye, !.age = None, !.miss = 0,
              !.count = IF n.chal THEN 0 ELSE @]

(* challenge_count is only compared with MaxRetry, so it stops there *)
Counted(c) == IF c < MaxRetry THEN c + 1 ELSE c

(* CHALLENGE_STATE and challenge_queue, after a challenge with that nonce *)
Challenging(n, nonce) ==
    [n EXCEPT !.chal = TRUE, !.nonce = nonce,
              !.count = IF n.chal THEN @ ELSE Counted(@)]

SetUser(s, p, n) == user' = [user EXCEPT ![s][p] = n]

(* mutant: the end of on_inbox_auth forgets the heartbeat queue *)
Settled_Unwatched(n) == n

(* the end of on_inbox_auth: a user that is trusted is watched *)
Settled(n) == IF n.auth THEN [n EXCEPT !.hbq = TRUE] ELSE n

-----------------------------------------------------------------------------
(* Heartbeats                                                              *)

Older(age) == IF age < Old THEN age + 1 ELSE age

(* push_hb_time: the heartbeats of s are one older, wherever they are kept *)
PushedUsers(s) ==
    [q \in Session |-> [user[q] EXCEPT ![s].age = Older(@)]]

PushedNet(s) ==
    {IF m.stage = 1 /\ m.to = s THEN [m EXCEPT !.age = Older(@)] ELSE m : m \in net}

push_hb_time(s) == user' = PushedUsers(s) /\ net' = PushedNet(s)

(* the memory of a process that ends *)
NoUsers == [p \in Session |-> NewUser]

(* forward_to_connected; one heartbeat arrives or is lost before the next *)
Broadcast(s, kind) ==
    /\ \A p \in Session : hb[s][p] = "none"
    /\ hb' = [hb EXCEPT ![s] = [p \in Session |->
                 IF p # s /\ up[p] = "up" THEN kind ELSE "none"]]

(* SessionMgr::start and hello_hb *)
start(s) ==
    /\ up[s] = "new"
    /\ \A p \in Session : up[p] = "new" => Start[p] >= Start[s]
    /\ \A p \in Restarts[s] : up[p] \in {"stopped", "crashed"}
    /\ up' = [up EXCEPT ![s] = "up"]
    /\ push_hb_time(s)
    /\ Broadcast(s, "hb")
    /\ UNCHANGED <<aged, losses>>

interval_hb(s) ==
    /\ up[s] = "up"
    /\ Settles(s, Session)
    /\ push_hb_time(s)
    /\ Broadcast(s, "hb")
    /\ UNCHANGED <<up, aged>>

(* SessionMgr::stop and bye_hb *)
stop(s) ==
    /\ up[s] = "up" /\ s \in Mortal
    /\ up' = [up EXCEPT ![s] = "stopped"]
    /\ user' = [PushedUsers(s) EXCEPT ![s] = NoUsers]
    /\ net' = PushedNet(s)
    /\ Broadcast(s, "bye")
    /\ UNCHANGED <<aged, losses>>

crash(s) ==
    /\ up[s] = "up" /\ s \in Mortal
    /\ up' = [up EXCEPT ![s] = "crashed"]
    /\ user' = [user EXCEPT ![s] = NoUsers]
    /\ UNCHANGED <<aged, hb, net, losses>>

(* a second passes after the start of s *)
SecondOld(s) ==
    /\ up[s] = "up" /\ s \notin aged
    /\ aged' = aged \union {s}
    /\ UNCHANGED <<up, user, hb, net, losses>>

(* rte.oldest_uid is 0: no trusted user is older than s *)
OldestPeer(s) == ~ \E p \in Session : user[s][p].auth /\ Start[p] < Start[s]

(* mutant: a user that was dropped is not challenged again *)
DoChallenge_Once(s, p) ==
    \/ Start[p] > Start[s] /\ OldestPeer(s) /\ ~user[s][p].zombie
    \/ user[s][p].age = 1 /\ p \in aged /\ ~user[s][p].zombie

(* whether the heartbeat of p makes s challenge p *)
DoChallenge(s, p) ==
    \/ Start[p] > Start[s] /\ OldestPeer(s)
    \/ Mcast /\ OldestPeer(s)
    \/ user[s][p].age = 1 /\ p \in aged   \* the second heartbeat in a row

on_heartbeat(s, p) ==
    LET n    == user[s][p]
        seen == [n EXCEPT !.age = 0, !.miss = 0]
    IN  /\ up[s] = "up" /\ hb[p][s] = "hb"
        /\ hb' = [hb EXCEPT ![p][s] = "none"]
        /\ \/ /\ ~n.auth /\ ~n.chal /\ DoChallenge(s, p)
              /\ Cardinality(net) < MaxNet
              /\ \E k \in Fresh(s, p) :
                    /\ k \in Nonces /\ Unused(s, p, k)
                    /\ SetUser(s, p, Challenging(seen, k))
                    /\ net' = net \union {FromHello(s, p, 0, k)}
           \/ /\ n.auth \/ n.chal \/ ~DoChallenge(s, p)
              /\ SetUser(s, p, [seen EXCEPT !.hbq = @ \/ n.auth])
              /\ UNCHANGED net
        /\ UNCHANGED <<up, aged, losses>>

(* a bye is taken from a trusted user only *)
on_bye(s, p) ==
    LET n == user[s][p] IN
    /\ up[s] = "up" /\ hb[p][s] = "bye"
    /\ hb' = [hb EXCEPT ![p][s] = "none"]
    /\ SetUser(s, p, IF n.auth THEN remove_authenticated(n, "bye") ELSE n)
    /\ UNCHANGED <<up, aged, net, losses>>

-----------------------------------------------------------------------------
(* on_inbox_auth                                                           *)

(* mutant: the challenger is not trusted before it is answered *)
Accepted_Untrusted(n, nonce) == [Settled(n) EXCEPT !.nonce = nonce]

(* the exchange verified: trust the sender if it is not trusted yet, and   *)
(* renew auth[1]                                                           *)
Accepted(n, nonce) ==
    Settled([(IF n.auth THEN n ELSE add_authenticated(n)) EXCEPT !.nonce = nonce])

(* stage 1: copy_from_hb, recv_challenge, send_challenge *)
auth_from_hello(m) ==
    LET s == m.to
        p == m.from
        n == user[s][p]
    IN  /\ m.stage = 1 /\ up[s] = "up"
        /\ \/ /\ m.age < Old
              /\ \E k \in Fresh(s, p) :
                    /\ k \in Nonces /\ Unused(s, p, k)
                    /\ SetUser(s, p, Challenging(Accepted(n, k), k))
              /\ net' = (net \ {m}) \union {FromHandshake(s, p, m.nonce)}
           \/ /\ m.age >= Old              \* no hb found, stage 1
              /\ net' = net \ {m}
              /\ UNCHANGED user
        /\ UNCHANGED <<up, aged, hb, losses>>

(* auth[1] is the challenge that m answers *)
Answers(n, m) == m.nonce = n.nonce

(* mutant: one retry more than the limit *)
Retries_OneMore(s, p) == Start[p] > Start[s] /\ user[s][p].count <= MaxRetry

(* an answer to an earlier challenge makes the older session start again *)
Retries(s, p) == Start[p] > Start[s] /\ user[s][p].count < MaxRetry

(* stage 2: copy_from_auth, recv_challenge, send_trusted *)
auth_from_handshake(m) ==
    LET s == m.to
        p == m.from
        n == user[s][p]
    IN  /\ m.stage = 2 /\ up[s] = "up"
        /\ \/ /\ Answers(n, m)
              /\ \E k \in Fresh(s, p) :
                    /\ k \in Nonces /\ Unused(s, p, k)
                    /\ SetUser(s, p, Accepted(n, k))
              /\ net' = (net \ {m}) \union {Trust(s, p)}
           \/ /\ ~Answers(n, m) /\ Retries(s, p)
              /\ \E k \in Fresh(s, p) :
                    /\ k \in Nonces /\ Unused(s, p, k)
                    /\ SetUser(s, p, [n EXCEPT !.nonce = k, !.count = @ + 1])
                    /\ net' = (net \ {m}) \union {FromHello(s, p, n.age, k)}
           \/ /\ ~Answers(n, m) /\ ~Retries(s, p)
              /\ net' = net \ {m}
              /\ UNCHANGED user
        /\ UNCHANGED <<up, aged, hb, losses>>

(* stage 3: recv_trusted *)
auth_trust(m) ==
    /\ m.stage = 3 /\ up[m.to] = "up"
    /\ net' = net \ {m}
    /\ SetUser(m.to, m.from, Settled(user[m.to][m.from]))
    /\ UNCHANGED <<up, aged, hb, losses>>

-----------------------------------------------------------------------------
(* check_user_timeout                                                      *)

(* challenge_timeout: a heartbeat may be challenged again *)
challenge_expire(s, p) ==
    /\ up[s] = "up" /\ user[s][p].chal
    /\ Settles(s, {p})
    /\ SetUser(s, p, [user[s][p] EXCEPT !.chal = FALSE,
                         !.count = IF user[s][p].auth THEN 0 ELSE @])
    /\ UNCHANGED <<up, aged, hb, net>>

(* mutant: a heartbeat that was never sent is not missed *)
hb_expire_Sent(s, p) ==
    /\ up[s] = "up" /\ user[s][p].hbq
    /\ user[s][p].miss = MaxMiss
    /\ SetUser(s, p, remove_authenticated(user[s][p], "timeout"))
    /\ UNCHANGED <<up, aged, hb, net, losses>>

(* hb_timeout: no heartbeat for two intervals *)
hb_expire(s, p) ==
    /\ up[s] = "up" /\ user[s][p].hbq
    /\ \/ user[s][p].miss = MaxMiss
       \/ up[p] # "up" /\ hb[p][s] = "none"
    /\ SetUser(s, p, remove_authenticated(user[s][p], "timeout"))
    /\ UNCHANGED <<up, aged, hb, net, losses>>

-----------------------------------------------------------------------------
(* The network                                                             *)

(* the network loses a message to s; a session that is gone reads none *)
Lost(s) ==
    \/ up[s] # "up" /\ UNCHANGED losses
    \/ up[s] = "up" /\ losses < MaxLoss /\ losses' = losses + 1

(* a heartbeat of p to s is lost *)
LoseHb(s, p) ==
    /\ hb[p][s] # "none"
    /\ Lost(s)
    /\ hb' = [hb EXCEPT ![p][s] = "none"]
    /\ SetUser(s, p, [user[s][p] EXCEPT !.miss =
                         IF up[s] = "up" /\ @ < MaxMiss THEN @ + 1 ELSE @])
    /\ UNCHANGED <<up, aged, net>>

(* an auth message is lost, or comes to a session that is gone *)
Lose(m) ==
    /\ Lost(m.to)
    /\ net' = net \ {m}
    /\ UNCHANGED <<up, aged, user, hb>>

-----------------------------------------------------------------------------
Init ==
    /\ up = [s \in Session |-> "new"]
    /\ aged = {}
    /\ user = [s \in Session |-> [p \in Session |-> NewUser]]
    /\ hb = [s \in Session |-> [p \in Session |-> "none"]]
    /\ net = {}
    /\ losses = 0

Next ==
    \/ \E s \in Session : start(s)
    \/ \E s \in Session : interval_hb(s)
    \/ \E s \in Session : stop(s)
    \/ \E s \in Session : crash(s)
    \/ \E s \in Session : SecondOld(s)
    \/ \E s, p \in Session : on_heartbeat(s, p)
    \/ \E s, p \in Session : on_bye(s, p)
    \/ \E s, p \in Session : challenge_expire(s, p)
    \/ \E s, p \in Session : hb_expire(s, p)
    \/ \E s, p \in Session : LoseHb(s, p)
    \/ \E m \in net : auth_from_hello(m)
    \/ \E m \in net : auth_from_handshake(m)
    \/ \E m \in net : auth_trust(m)
    \/ \E m \in net : Lose(m)

Spec == Init /\ [][Next]_vars

(* a message to s is taken, or dropped when s is gone *)
Arrives(s) ==
    \E m \in net :
       /\ m.to = s
       /\ \/ auth_from_hello(m) \/ auth_from_handshake(m) \/ auth_trust(m)
          \/ up[s] # "up" /\ Lose(m)

(* the poll loop of a session that is up sends heartbeats, runs its timers *)
(* and reads its sockets; nothing makes it start or stop, or the network   *)
(* lose a message                                                          *)
Fairness ==
    \A s \in Session :
       /\ WF_vars(interval_hb(s))
       /\ WF_vars(SecondOld(s))
       /\ WF_vars(Arrives(s))
       /\ \A p \in Session :
             /\ WF_vars(on_heartbeat(s, p))
             /\ WF_vars(on_bye(s, p))
             /\ WF_vars(challenge_expire(s, p))
             /\ WF_vars(hb_expire(s, p))
             /\ WF_vars(up[s] # "up" /\ LoseHb(s, p))

FairSpec == Spec /\ Fairness

-----------------------------------------------------------------------------
(* The types of the state: a user is in one of the states of Bridge, and   *)
(* no more challenges were retried than the limit allows                   *)
TypeOK ==
    /\ up \in [Session -> {"new", "up", "stopped", "crashed"}]
    /\ aged \subseteq Session
    /\ user \in [Session -> [Session -> Bridge]]
    /\ hb \in [Session -> [Session -> {"none", "hb", "bye"}]]
    /\ net \subseteq Message
    /\ losses \in 0 .. MaxLoss

(* p trusts s, or dropped it since, or is gone *)
Trusted(p, s) == user[p][s].auth \/ user[p][s].zombie \/ up[p] # "up"

(* When s completes the exchange, the peer trusts s already: the answer to *)
(* the latest challenge of s, or word that s trusts it, is on its way only *)
(* between users that trusted each other and did not drop each other since *)
Agreement ==
    \A m \in net :
       /\ m.stage = 2 /\ Answers(user[m.to][m.from], m) => Trusted(m.from, m.to)
       /\ m.stage = 3 => Trusted(m.from, m.to) /\ Trusted(m.to, m.from)

(* A trusted user is in the queue whose timer drops it when its heartbeats *)
(* stop, and a dropped one is in no queue but that of new challenges       *)
Watched ==
    \A s, p \in Session :
       /\ user[s][p].auth => user[s][p].hbq /\ ~user[s][p].zombie
       /\ user[s][p].hbq => user[s][p].auth

(* A session that said bye is not trusted again, whatever of it is still   *)
(* on the way (refusing to auth bye bye)                                   *)
ByeFinal ==
    [][\A s, p \in Session :
          user[s][p].zombie /\ user[s][p].last = "bye" => ~user'[s][p].auth]_vars

(* Sessions that stay up trust each other in the end, and keep doing so:   *)
(* lost messages, simultaneous challenges, timeouts and the crash of       *)
(* others leave no pair that waits for ever                                *)
MutualTrust ==
    \A s, p \in Session :
       s # p => (<>[](up[s] = "up" /\ up[p] = "up")
                   => <>[](user[s][p].auth /\ user[p][s].auth))

(* A session that stopped or crashed is dropped by all, and not revived by *)
(* a message that comes late                                               *)
Forgotten ==
    \A s, p \in Session :
       <>[](up[s] = "up" /\ up[p] \in {"stopped", "crashed"})
          => <>[](~user[s][p].auth)
=============================================================================

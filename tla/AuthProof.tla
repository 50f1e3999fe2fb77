------------------------------ MODULE AuthProof ------------------------------
(***************************************************************************)
(* Proofs about Auth for any set of sessions, start times and bounds: the  *)
(* type invariant, Agreement, Watched and ByeFinal, from the inductive     *)
(* invariant IndInv.                                                       *)
(***************************************************************************)
EXTENDS Auth, TLAPS

(* Where a message comes from: a session that started; word of trust goes  *)
(* to one that started, and a challenge or an answer has a nonce           *)
Sent(m) ==
    /\ up[m.from] # "new"
    /\ m.stage < 3 => m.nonce # 0
    /\ m.stage = 3 => up[m.to] # "new"

Origin == \A m \in net : Sent(m)

IndInv == TypeOK /\ Agreement /\ Watched /\ Origin

(* One user: the parts of Watched and of Agreement *)
Kept(n)    == (n.auth => n.hbq /\ ~n.zombie) /\ (n.hbq => n.auth)
Met(n)     == n.auth \/ n.zombie

(* What every change of a user keeps *)
Follows(n, r) ==
    /\ r \in Bridge
    /\ Kept(r)
    /\ Met(n) => Met(r)
    /\ n.zombie /\ n.last = "bye" => ~r.auth

(* A step trusts no user that said bye *)
ByeStep ==
    \A s, p \in Session :
       user[s][p].zombie /\ user[s][p].last = "bye" => ~user'[s][p].auth

(* Agreement for one message *)
Agreed(m) ==
    /\ m.stage = 2 /\ Answers(user[m.to][m.from], m) => Trusted(m.from, m.to)
    /\ m.stage = 3 => Trusted(m.from, m.to) /\ Trusted(m.to, m.from)

-----------------------------------------------------------------------------
(* Users                                                                   *)

(* A new user has its type. *)
LEMMA NewUserType == NewUser \in Bridge /\ Kept(NewUser)
BY AuthAssumption DEF NewUser, Bridge, None, MaxMiss, Kept

(* The number of challenges stays within its bound. *)
LEMMA CountedType ==
    ASSUME NEW c \in 0 .. MaxRetry
    PROVE  Counted(c) \in 0 .. MaxRetry
BY AuthAssumption DEF Counted

(* A user is trusted afterwards, or it said bye. *)
LEMMA AddAuthenticated ==
    ASSUME NEW n \in Bridge, Kept(n), NEW k \in Nonces
    PROVE  /\ Follows(n, Accepted(n, k))
           /\ Met(Accepted(n, k))
           /\ Accepted(n, k).nonce = k
<1>1. CASE n.zombie /\ n.last = "bye"
  <2>1. add_authenticated(n) = n
    BY <1>1 DEF add_authenticated
  <2>2. ~n.auth
    BY <1>1 DEF Kept
  <2>3. Accepted(n, k) = [n EXCEPT !.nonce = k]
    BY <2>1, <2>2 DEF Accepted, Settled, Bridge
  <2> QED
    BY <1>1, <2>2, <2>3 DEF Follows, Kept, Met, Bridge
<1>2. CASE n.auth
  <2>1. n.hbq /\ ~n.zombie
    BY <1>2 DEF Kept
  <2>2. Accepted(n, k) = [n EXCEPT !.nonce = k, !.hbq = TRUE]
    BY <1>2 DEF Accepted, Settled, Bridge
  <2> QED
    BY <1>2, <2>1, <2>2 DEF Follows, Kept, Met, Bridge
<1>3. CASE ~n.auth /\ ~(n.zombie /\ n.last = "bye")
  <2>1. add_authenticated(n) = [n EXCEPT !.auth = TRUE, !.zombie = FALSE,
                                         !.last = "auth", !.miss = 0]
    BY <1>3 DEF add_authenticated
  <2>2. Accepted(n, k) = [n EXCEPT !.auth = TRUE, !.zombie = FALSE, !.last = "auth",
                                   !.miss = 0, !.nonce = k, !.hbq = TRUE]
    BY <1>3, <2>1 DEF Accepted, Settled, Bridge
  <2>4. 0 \in 0 .. MaxMiss
    BY DEF MaxMiss
  <2>3. Accepted(n, k) \in Bridge
    BY <2>2, <2>4 DEF Bridge
  <2> QED
    BY <1>3, <2>2, <2>3 DEF Follows, Kept, Met, Bridge
<1> QED
  BY <1>1, <1>2, <1>3

(* A challenge leaves what makes a user trusted. *)
LEMMA ChallengingType ==
    ASSUME NEW n \in Bridge, Kept(n), NEW k \in Nonces
    PROVE  /\ Follows(n, Challenging(n, k))
           /\ Challenging(n, k).nonce = k
           /\ Challenging(n, k).auth = n.auth
           /\ Challenging(n, k).zombie = n.zombie
<1>1. PICK c \in 0 .. MaxRetry :
        Challenging(n, k) = [n EXCEPT !.chal = TRUE, !.nonce = k, !.count = c]
  <2>1. n.count \in 0 .. MaxRetry /\ Counted(n.count) \in 0 .. MaxRetry
    BY CountedType DEF Bridge
  <2> QED
    BY <2>1 DEF Challenging
<1>2. Challenging(n, k) \in Bridge
  BY <1>1 DEF Bridge
<1> QED
  BY <1>1, <1>2 DEF Follows, Kept, Met, Bridge

(* A removed user is trusted no more and is watched by no queue. *)
LEMMA RemoveAuthenticated ==
    ASSUME NEW n \in Bridge, Kept(n), NEW bye \in {"bye", "timeout"}
    PROVE  /\ Follows(n, remove_authenticated(n, bye))
           /\ remove_authenticated(n, bye).nonce = n.nonce
<1>1. PICK c \in 0 .. MaxRetry :
        remove_authenticated(n, bye) =
          [n EXCEPT !.auth = FALSE, !.chal = FALSE, !.zombie = TRUE, !.hbq = FALSE,
                    !.last = bye, !.age = None, !.miss = 0, !.count = c]
  <2>1. n.count \in 0 .. MaxRetry /\ 0 \in 0 .. MaxRetry
    BY AuthAssumption DEF Bridge
  <2> QED
    BY <2>1 DEF remove_authenticated
<1>2. remove_authenticated(n, bye) \in Bridge
  <2>1. 0 \in 0 .. MaxMiss /\ None \in 0 .. None
    BY AuthAssumption DEF MaxMiss, None
  <2> QED
    BY <1>1, <2>1 DEF Bridge
<1> QED
  BY <1>1, <1>2 DEF Follows, Kept, Met, Bridge

(* The end of on_inbox_auth changes a watched user not at all. *)
LEMMA SettledSame ==
    ASSUME NEW n \in Bridge, Kept(n)
    PROVE  Follows(n, Settled(n)) /\ Settled(n).nonce = n.nonce
<1>1. CASE n.auth
  <2>1. Settled(n) = [n EXCEPT !.hbq = TRUE]
    BY <1>1 DEF Settled
  <2> QED
    BY <1>1, <2>1 DEF Follows, Kept, Met, Bridge
<1>2. CASE ~n.auth
  <2>1. Settled(n) = n
    BY <1>2 DEF Settled
  <2> QED
    BY <1>2, <2>1 DEF Follows, Kept, Met, Bridge
<1> QED
  BY <1>1, <1>2

-----------------------------------------------------------------------------
(* One user of one session changes                                         *)

(* The change is at that user and nowhere else. *)
LEMMA SetUserFacts ==
    ASSUME user \in [Session -> [Session -> Bridge]],
           NEW s \in Session, NEW p \in Session, NEW r \in Bridge,
           SetUser(s, p, r)
    PROVE  /\ user' \in [Session -> [Session -> Bridge]]
           /\ user'[s][p] = r
           /\ \A q, t \in Session : q # s \/ t # p => user'[q][t] = user[q][t]
BY DEF SetUser

(* Watched says that every user is Kept. *)
LEMMA WatchedKept ==
    ASSUME Watched, NEW s \in Session, NEW p \in Session
    PROVE  Kept(user[s][p])
BY DEF Watched, Kept

(* What a step keeps that changes one user and no session. *)
LEMMA UserStep ==
    ASSUME IndInv, NEW s \in Session, NEW p \in Session, NEW r,
           Follows(user[s][p], r), SetUser(s, p, r), UNCHANGED up
    PROVE  /\ user' \in [Session -> [Session -> Bridge]]
           /\ Watched'
           /\ \A q, t \in Session : Trusted(q, t) => Trusted(q, t)'
           /\ Met(r) => Trusted(s, p)'
<1>1. r \in Bridge /\ Kept(r) /\ (Met(user[s][p]) => Met(r))
  BY DEF Follows
<1>2. user \in [Session -> [Session -> Bridge]]
  BY DEF IndInv, TypeOK
<1>3. /\ user' \in [Session -> [Session -> Bridge]]
      /\ user'[s][p] = r
      /\ \A q, t \in Session : q # s \/ t # p => user'[q][t] = user[q][t]
  BY <1>1, <1>2, SetUserFacts
<1>4. Watched'
  <2> SUFFICES ASSUME NEW q \in Session, NEW t \in Session
               PROVE  Kept(user'[q][t])
    BY DEF Watched, Kept
  <2>1. CASE q = s /\ t = p
    BY <1>1, <1>3, <2>1
  <2>2. CASE q # s \/ t # p
    <3>1. user'[q][t] = user[q][t]
      BY <1>3, <2>2
    <3>2. Kept(user[q][t])
      BY WatchedKept DEF IndInv
    <3> QED
      BY <3>1, <3>2
  <2> QED
    BY <2>1, <2>2
<1>5. \A q, t \in Session : Trusted(q, t) => Trusted(q, t)'
  <2> SUFFICES ASSUME NEW q \in Session, NEW t \in Session, Trusted(q, t)
               PROVE  Trusted(q, t)'
    OBVIOUS
  <2>1. CASE q = s /\ t = p
    BY <1>1, <1>3, <2>1 DEF Trusted, Met
  <2>2. CASE q # s \/ t # p
    BY <1>3, <2>2 DEF Trusted
  <2> QED
    BY <2>1, <2>2
<1>6. Met(r) => Trusted(s, p)'
  BY <1>3 DEF Met, Trusted
<1> QED
  BY <1>3, <1>4, <1>5, <1>6

(* Messages on the way stay agreed when a user changes and its nonce stays *)
(* or becomes one that is not in use.                                      *)
LEMMA AgreedStep ==
    ASSUME IndInv, NEW s \in Session, NEW p \in Session, NEW r,
           Follows(user[s][p], r), SetUser(s, p, r), UNCHANGED up,
           r.nonce = user[s][p].nonce \/ Unused(s, p, r.nonce),
           NEW m \in net
    PROVE  Agreed(m)'
<1>1. m \in Message /\ m.to \in Session /\ m.from \in Session
  BY DEF IndInv, TypeOK, Message
<1>2. Agreed(m)
  BY DEF IndInv, Agreement, Agreed
<1>3. \A q, t \in Session : Trusted(q, t) => Trusted(q, t)'
  BY UserStep
<1>4. /\ user'[s][p] = r
      /\ \A q, t \in Session : q # s \/ t # p => user'[q][t] = user[q][t]
  BY SetUserFacts DEF IndInv, TypeOK, Follows
<1>5. ASSUME m.stage = 2, Answers(user'[m.to][m.from], m)
      PROVE  Trusted(m.from, m.to)'
  <2>1. Answers(user[m.to][m.from], m)
    <3>1. CASE m.to = s /\ m.from = p
      <4>1. m.nonce = r.nonce
        BY <1>4, <1>5, <3>1 DEF Answers
      <4>2. ~Unused(s, p, r.nonce)
        BY <1>5, <3>1, <4>1 DEF Unused
      <4> QED
        BY <3>1, <4>1, <4>2 DEF Answers
    <3>2. CASE m.to # s \/ m.from # p
      BY <1>1, <1>4, <1>5, <3>2 DEF Answers
    <3> QED
      BY <3>1, <3>2
  <2> QED
    BY <1>1, <1>2, <1>3, <1>5, <2>1 DEF Agreed
<1>6. ASSUME m.stage = 3
      PROVE  Trusted(m.from, m.to)' /\ Trusted(m.to, m.from)'
  BY <1>1, <1>2, <1>3, <1>6 DEF Agreed
<1>7. Answers(user[m.to][m.from], m)' = Answers(user'[m.to][m.from], m)
  BY DEF Answers
<1> QED
  BY <1>5, <1>6 DEF Agreed, Answers

(* One user of s changes to r, messages are taken and those of New sent *)
Exchange(s, p, r, New) ==
    /\ Follows(user[s][p], r) /\ SetUser(s, p, r)
    /\ r.nonce = user[s][p].nonce \/ Unused(s, p, r.nonce)
    /\ New \subseteq Message /\ net' \subseteq net \union New
    /\ \A m \in New : Agreed(m)' /\ Sent(m)
    /\ hb' \in [Session -> [Session -> {"none", "hb", "bye"}]]
    /\ losses' \in 0 .. MaxLoss
    /\ UNCHANGED <<up, aged>>

(* Such a step keeps the invariant. *)
LEMMA ExchangeStep ==
    ASSUME IndInv, NEW s \in Session, NEW p \in Session, NEW r, NEW New,
           Exchange(s, p, r, New)
    PROVE  IndInv' /\ ByeStep
<1> USE DEF Exchange
<1>1. user' \in [Session -> [Session -> Bridge]] /\ Watched'
  BY UserStep
<1>2. Agreement'
  <2> SUFFICES ASSUME NEW m \in net'
               PROVE  Agreed(m)'
    BY DEF Agreement, Agreed
  <2>1. CASE m \in net
    BY <2>1, AgreedStep
  <2>2. CASE m \in New
    BY <2>2
  <2> QED
    BY <2>1, <2>2
<1>3. TypeOK'
  BY <1>1 DEF IndInv, TypeOK
<1>4. Origin'
  BY DEF IndInv, Origin, Sent
<1>5. ByeStep
  <2> SUFFICES ASSUME NEW q \in Session, NEW t \in Session,
                      user[q][t].zombie, user[q][t].last = "bye"
               PROVE  ~user'[q][t].auth
    BY DEF ByeStep
  <2>1. /\ user'[s][p] = r
        /\ q # s \/ t # p => user'[q][t] = user[q][t]
    BY SetUserFacts DEF IndInv, TypeOK, Follows
  <2>2. ~user[q][t].auth
    BY WatchedKept DEF IndInv, Kept
  <2> QED
    BY <2>1, <2>2 DEF Follows
<1> QED
  BY <1>1, <1>2, <1>3, <1>4, <1>5 DEF IndInv

-----------------------------------------------------------------------------
(* Heartbeats                                                              *)

(* A heartbeat that ages stays an age. *)
LEMMA OlderType ==
    ASSUME NEW x \in 0 .. None
    PROVE  Older(x) \in 0 .. None
BY AuthAssumption DEF Older, None

(* Pushing a heartbeat changes ages only. *)
LEMMA PushedFacts ==
    ASSUME TypeOK, NEW s \in Session
    PROVE  /\ PushedUsers(s) \in [Session -> [Session -> Bridge]]
           /\ \A q, t \in Session :
                 /\ PushedUsers(s)[q][t].auth = user[q][t].auth
                 /\ PushedUsers(s)[q][t].zombie = user[q][t].zombie
                 /\ PushedUsers(s)[q][t].hbq = user[q][t].hbq
                 /\ PushedUsers(s)[q][t].last = user[q][t].last
                 /\ PushedUsers(s)[q][t].nonce = user[q][t].nonce
<1> DEFINE W == PushedUsers(s)
<1>1. ASSUME NEW q \in Session, NEW t \in Session
      PROVE  /\ W[q][t] \in Bridge
             /\ W[q][t].auth = user[q][t].auth
             /\ W[q][t].zombie = user[q][t].zombie
             /\ W[q][t].hbq = user[q][t].hbq
             /\ W[q][t].last = user[q][t].last
             /\ W[q][t].nonce = user[q][t].nonce
  <2>1. user[q][t] \in Bridge /\ user[q] \in [Session -> Bridge]
    BY DEF TypeOK
  <2>2. CASE t = s
    <3>1. W[q][t] = [user[q][t] EXCEPT !.age = Older(user[q][t].age)]
      BY <2>1, <2>2 DEF PushedUsers
    <3>2. Older(user[q][t].age) \in 0 .. None
      BY <2>1, OlderType DEF Bridge
    <3> QED
      BY <2>1, <3>1, <3>2 DEF Bridge
  <2>3. CASE t # s
    <3>1. W[q][t] = user[q][t]
      BY <2>1, <2>3 DEF PushedUsers
    <3> QED
      BY <2>1, <3>1
  <2> QED
    BY <2>2, <2>3
<1>2. ASSUME NEW q \in Session
      PROVE  W[q] \in [Session -> Bridge]
  <2>1. W[q] = [user[q] EXCEPT ![s] = [user[q][s] EXCEPT !.age = Older(user[q][s].age)]]
    BY DEF PushedUsers
  <2>2. user[q] \in [Session -> Bridge]
    BY DEF TypeOK
  <2>3. [user[q][s] EXCEPT !.age = Older(user[q][s].age)] \in Bridge
    <3>1. user[q][s] \in Bridge /\ Older(user[q][s].age) \in 0 .. None
      BY <2>2, OlderType DEF Bridge
    <3> QED
      BY <3>1 DEF Bridge
  <2> QED
    BY <2>1, <2>2, <2>3
<1>3. W = [q \in Session |-> W[q]]
  BY DEF PushedUsers
<1>4. W \in [Session -> [Session -> Bridge]]
  BY <1>2, <1>3
<1> QED
  BY <1>1, <1>4

(* The messages after a push are those before, up to the age of stage 1. *)
LEMMA PushedMessages ==
    ASSUME TypeOK, NEW s \in Session
    PROVE  /\ PushedNet(s) \subseteq Message
           /\ \A m \in PushedNet(s) : \E o \in net :
                 /\ m.from = o.from /\ m.to = o.to
                 /\ m.stage = o.stage /\ m.nonce = o.nonce
<1> SUFFICES ASSUME NEW m \in PushedNet(s)
             PROVE  /\ m \in Message
                    /\ \E o \in net : /\ m.from = o.from /\ m.to = o.to
                                     /\ m.stage = o.stage /\ m.nonce = o.nonce
  OBVIOUS
<1>1. PICK o \in net : m = IF o.stage = 1 /\ o.to = s
                          THEN [o EXCEPT !.age = Older(o.age)] ELSE o
  BY DEF PushedNet
<1>2. o \in Message /\ Older(o.age) \in 0 .. None
  BY OlderType DEF TypeOK, Message
<1> QED
  BY <1>1, <1>2 DEF Message

(* A broadcast puts one message to each session that is up on its way. *)
LEMMA BroadcastType ==
    ASSUME TypeOK, NEW s \in Session, NEW kind \in {"hb", "bye"}, Broadcast(s, kind)
    PROVE  hb' \in [Session -> [Session -> {"none", "hb", "bye"}]]
<1>1. [p \in Session |-> IF p # s /\ up[p] = "up" THEN kind ELSE "none"]
        \in [Session -> {"none", "hb", "bye"}]
  OBVIOUS
<1> QED
  BY <1>1 DEF Broadcast, TypeOK

(* A session starts, goes on or ends; users change their ages only, or are *)
(* forgotten by the session that ends                                      *)
SameUser(q, t) ==
    /\ user'[q][t].auth = user[q][t].auth
    /\ user'[q][t].zombie = user[q][t].zombie
    /\ user'[q][t].hbq = user[q][t].hbq
    /\ user'[q][t].nonce = user[q][t].nonce

SessionChange(s, v) ==
    /\ v \in {"up", "stopped", "crashed"}
    /\ up' = [up EXCEPT ![s] = v]
    /\ v = "up" => up[s] \in {"new", "up"}
    /\ user' \in [Session -> [Session -> Bridge]]
    /\ \A q, t \in Session :
          SameUser(q, t) \/ (v # "up" /\ q = s /\ user'[q][t] = NewUser)
    /\ net' \subseteq Message
    /\ \A m \in net' : \E o \in net :
          m.from = o.from /\ m.to = o.to /\ m.stage = o.stage /\ m.nonce = o.nonce
    /\ hb' \in [Session -> [Session -> {"none", "hb", "bye"}]]
    /\ UNCHANGED aged /\ losses' \in 0 .. MaxLoss

(* Such a step keeps the invariant. *)
LEMMA SessionStep ==
    ASSUME IndInv, NEW s \in Session, NEW v, SessionChange(s, v)
    PROVE  IndInv' /\ ByeStep
<1> USE DEF SessionChange, SameUser
<1>1. /\ up' \in [Session -> {"new", "up", "stopped", "crashed"}]
      /\ \A q \in Session : up[q] # "new" => up'[q] # "new"
      /\ \A q \in Session : up[q] \in {"stopped", "crashed"} /\ q # s => up'[q] # "up"
      /\ up'[s] = v
      /\ \A q \in Session : q # s => up'[q] = up[q]
  BY DEF IndInv, TypeOK
<1>2. TypeOK'
  BY <1>1 DEF IndInv, TypeOK
<1>3. Watched'
  <2> SUFFICES ASSUME NEW q \in Session, NEW t \in Session
               PROVE  Kept(user'[q][t])
    BY DEF Watched, Kept
  <2>1. Kept(user[q][t])
    BY WatchedKept DEF IndInv
  <2>2. CASE user'[q][t] = NewUser
    BY <2>2, NewUserType
  <2>3. CASE /\ user'[q][t].auth = user[q][t].auth
             /\ user'[q][t].zombie = user[q][t].zombie
             /\ user'[q][t].hbq = user[q][t].hbq
    BY <2>1, <2>3 DEF Kept
  <2> QED
    BY <2>2, <2>3
<1>4. Origin'
  <2> SUFFICES ASSUME NEW m \in net'
               PROVE  Sent(m)'
    BY DEF Origin
  <2>1. PICK o \in net :
          m.from = o.from /\ m.to = o.to /\ m.stage = o.stage /\ m.nonce = o.nonce
    OBVIOUS
  <2>2. o.from \in Session /\ o.to \in Session /\ Sent(o)
    BY DEF IndInv, Origin, TypeOK, Message
  <2> QED
    BY <1>1, <2>1, <2>2 DEF Sent
<1>5. ASSUME NEW q \in Session, NEW t \in Session, Trusted(q, t), up[q] # "new"
      PROVE  Trusted(q, t)'
  <2>1. CASE up'[q] # "up"
    BY <2>1 DEF Trusted
  <2>2. CASE up'[q] = "up"
    <3>1. up[q] = "up"
      BY <1>1, <1>5, <2>2 DEF IndInv, TypeOK
    <3>2. q # s \/ v = "up"
      BY <1>1, <2>2
    <3> QED
      BY <1>5, <3>1, <3>2 DEF Trusted
  <2> QED
    BY <2>1, <2>2
<1>6. Agreement'
  <2> SUFFICES ASSUME NEW m \in net'
               PROVE  Agreed(m)'
    BY DEF Agreement, Agreed
  <2>1. PICK o \in net :
          m.from = o.from /\ m.to = o.to /\ m.stage = o.stage /\ m.nonce = o.nonce
    OBVIOUS
  <2>2. /\ o.from \in Session /\ o.to \in Session /\ up[o.from] # "new"
        /\ o.stage < 3 => o.nonce # 0
        /\ o.stage = 3 => up[o.to] # "new"
    BY DEF IndInv, Origin, Sent, TypeOK, Message
  <2>3. Agreed(o)
    BY DEF IndInv, Agreement, Agreed
  <2>4. ASSUME m.stage = 2, Answers(user'[m.to][m.from], m)
        PROVE  Trusted(m.from, m.to)'
    <3>1. user'[o.to][o.from] # NewUser
      BY <2>1, <2>2, <2>4 DEF Answers, NewUser
    <3>2. Answers(user[o.to][o.from], o)
      BY <2>1, <2>2, <2>4, <3>1 DEF Answers
    <3> QED
      BY <1>5, <2>1, <2>2, <2>3, <2>4, <3>2 DEF Agreed
  <2>5. ASSUME m.stage = 3
        PROVE  Trusted(m.from, m.to)' /\ Trusted(m.to, m.from)'
    <3>1. Trusted(o.from, o.to) /\ Trusted(o.to, o.from)
      BY <2>1, <2>3, <2>5 DEF Agreed
    <3> QED
      BY <1>5, <2>1, <2>2, <2>5, <3>1
  <2> QED
    BY <2>4, <2>5 DEF Agreed, Answers
<1>7. ByeStep
  <2> SUFFICES ASSUME NEW q \in Session, NEW t \in Session, user[q][t].zombie
               PROVE  ~user'[q][t].auth
    BY DEF ByeStep
  <2>1. ~user[q][t].auth
    BY WatchedKept DEF IndInv, Kept
  <2>2. user'[q][t].auth = user[q][t].auth \/ user'[q][t] = NewUser
    OBVIOUS
  <2>3. ~NewUser.auth
    BY DEF NewUser
  <2>4. CASE user'[q][t].auth = user[q][t].auth
    BY <2>1, <2>4
  <2>5. CASE user'[q][t] = NewUser
    BY <2>3, <2>5
  <2> QED
    BY <2>2, <2>4, <2>5
<1> QED
  BY <1>2, <1>3, <1>4, <1>6, <1>7 DEF IndInv

-----------------------------------------------------------------------------
(* The actions                                                             *)

(* A session starts, sends a heartbeat, stops or crashes. *)
LEMMA SessionActions ==
    ASSUME IndInv, NEW s \in Session,
           start(s) \/ interval_hb(s) \/ stop(s) \/ crash(s)
    PROVE  IndInv' /\ ByeStep
<1>0. TypeOK /\ losses \in 0 .. MaxLoss
  BY DEF IndInv, TypeOK
<1>1. CASE start(s)
  <2>1. up' = [up EXCEPT ![s] = "up"] /\ up[s] = "new" /\ Broadcast(s, "hb")
    BY <1>1 DEF start
  <2>2. user' = PushedUsers(s) /\ net' = PushedNet(s) /\ UNCHANGED <<aged, losses>>
    BY <1>1 DEF start, push_hb_time
  <2>3. SessionChange(s, "up")
    BY <1>0, <2>1, <2>2, PushedFacts, PushedMessages, BroadcastType
       DEF SessionChange, SameUser
  <2> QED
    BY <2>3, SessionStep
<1>2. CASE interval_hb(s)
  <2>1. up' = [up EXCEPT ![s] = "up"] /\ up[s] = "up" /\ Broadcast(s, "hb")
    BY <1>0, <1>2 DEF interval_hb, TypeOK
  <2>2. user' = PushedUsers(s) /\ net' = PushedNet(s) /\ UNCHANGED aged
    BY <1>2 DEF interval_hb, push_hb_time
  <2>4. losses' \in 0 .. MaxLoss
    BY <1>0, <1>2, AuthAssumption DEF interval_hb, Settles, TypeOK
  <2>3. SessionChange(s, "up")
    BY <1>0, <2>1, <2>2, <2>4, PushedFacts, PushedMessages, BroadcastType
       DEF SessionChange, SameUser
  <2> QED
    BY <2>3, SessionStep
<1>5. NoUsers \in [Session -> Bridge] /\ \A p \in Session : NoUsers[p] = NewUser
  BY NewUserType DEF NoUsers
<1>3. CASE stop(s)
  <2>1. up' = [up EXCEPT ![s] = "stopped"] /\ Broadcast(s, "bye")
    BY <1>3 DEF stop
  <2>2. user' = [PushedUsers(s) EXCEPT ![s] = NoUsers] /\ net' = PushedNet(s)
        /\ UNCHANGED <<aged, losses>>
    BY <1>3 DEF stop
  <2>3. /\ user' \in [Session -> [Session -> Bridge]]
        /\ \A q, t \in Session : q # s => user'[q][t] = PushedUsers(s)[q][t]
        /\ \A t \in Session : user'[s][t] = NewUser
    BY <1>0, <1>5, <2>2, PushedFacts
  <2>4. \A q, t \in Session : SameUser(q, t) \/ (q = s /\ user'[q][t] = NewUser)
    BY <1>0, <2>3, PushedFacts DEF SameUser
  <2>5. SessionChange(s, "stopped")
    BY <1>0, <2>1, <2>2, <2>3, <2>4, PushedMessages, BroadcastType DEF SessionChange
  <2> QED
    BY <2>5, SessionStep
<1>4. CASE crash(s)
  <2>1. up' = [up EXCEPT ![s] = "crashed"] /\ UNCHANGED <<aged, hb, net, losses>>
    BY <1>4 DEF crash
  <2>2. user' = [user EXCEPT ![s] = NoUsers]
    BY <1>4 DEF crash
  <2>3. /\ user' \in [Session -> [Session -> Bridge]]
        /\ \A q, t \in Session : q # s => user'[q][t] = user[q][t]
        /\ \A t \in Session : user'[s][t] = NewUser
    BY <1>0, <1>5, <2>2 DEF TypeOK
  <2>4. \A q, t \in Session : SameUser(q, t) \/ (q = s /\ user'[q][t] = NewUser)
    BY <2>3 DEF SameUser
  <2>5. hb' \in [Session -> [Session -> {"none", "hb", "bye"}]] /\ net' \subseteq Message
    BY <1>0, <2>1 DEF TypeOK
  <2>6. SessionChange(s, "crashed")
    BY <1>0, <2>1, <2>3, <2>4, <2>5 DEF SessionChange
  <2> QED
    BY <2>6, SessionStep
<1> QED
  BY <1>1, <1>2, <1>3, <1>4

(* A message on the way is well formed, sent and agreed. *)
LEMMA OnTheWay ==
    ASSUME IndInv, NEW m \in net
    PROVE  /\ m \in Message /\ m.to \in Session /\ m.from \in Session
           /\ m.nonce \in {0} \union Nonces /\ m.age \in 0 .. None /\ m.stage \in 1 .. 3
           /\ Sent(m) /\ Agreed(m)
BY DEF IndInv, TypeOK, Origin, Agreement, Agreed, Message

(* A user and what Watched says of it. *)
LEMMA UserOf ==
    ASSUME IndInv, NEW s \in Session, NEW p \in Session
    PROVE  user[s][p] \in Bridge /\ Kept(user[s][p])
BY WatchedKept DEF IndInv, TypeOK

(* A slot that is emptied is of the type of slots. *)
LEMMA SlotType ==
    ASSUME TypeOK, NEW s \in Session, NEW p \in Session,
           hb' = [hb EXCEPT ![p][s] = "none"]
    PROVE  hb' \in [Session -> [Session -> {"none", "hb", "bye"}]]
BY DEF TypeOK

(* A heartbeat that is taken leaves what makes a user trusted. *)
LEMMA HeardType ==
    ASSUME NEW n \in Bridge, Kept(n)
    PROVE  LET seen == [n EXCEPT !.age = 0, !.miss = 0]
               r    == [seen EXCEPT !.hbq = @ \/ n.auth]
           IN  /\ Follows(n, seen) /\ seen.nonce = n.nonce
               /\ Follows(n, r) /\ r.nonce = n.nonce
<1> DEFINE seen == [n EXCEPT !.age = 0, !.miss = 0]
           r    == [seen EXCEPT !.hbq = @ \/ n.auth]
<1>1. 0 \in 0 .. None /\ 0 \in 0 .. MaxMiss
  BY AuthAssumption DEF None, MaxMiss
<1>2. seen \in Bridge
  BY <1>1 DEF Bridge
<1>3. /\ seen.nonce = n.nonce /\ seen.last = n.last /\ seen.auth = n.auth
      /\ seen.zombie = n.zombie /\ seen.hbq = n.hbq
  BY DEF Bridge
<1>4. (n.hbq \/ n.auth) = n.hbq
  BY DEF Kept, Bridge
<1>5. r = seen
  BY <1>2, <1>3, <1>4 DEF Bridge
<1>6. Follows(n, seen)
  BY <1>2, <1>3 DEF Follows, Kept, Met
<1> QED
  BY <1>3, <1>5, <1>6

(* One change after another. *)
LEMMA FollowsTwice ==
    ASSUME NEW n, NEW o, NEW r, Follows(n, o), Follows(o, r), r.auth = o.auth
    PROVE  Follows(n, r)
BY DEF Follows

(* The new messages, with their types. *)
LEMMA NewMessages ==
    ASSUME NEW s \in Session, NEW p \in Session, NEW k \in {0} \union Nonces,
           NEW a \in 0 .. None
    PROVE  /\ FromHello(s, p, a, k) \in Message
           /\ FromHandshake(s, p, k) \in Message
           /\ Trust(s, p) \in Message
BY AuthAssumption DEF FromHello, FromHandshake, Trust, Message, None

(* Heartbeats and byes. *)
LEMMA HeartbeatActions ==
    ASSUME IndInv, NEW s \in Session, NEW p \in Session,
           on_heartbeat(s, p) \/ on_bye(s, p)
    PROVE  IndInv' /\ ByeStep
<1> DEFINE n    == user[s][p]
           seen == [n EXCEPT !.age = 0, !.miss = 0]
<1>0. TypeOK /\ losses \in 0 .. MaxLoss
  BY DEF IndInv, TypeOK
<1>1. n \in Bridge /\ Kept(n)
  BY UserOf
<1>2. /\ Follows(n, seen) /\ seen.nonce = n.nonce
      /\ seen \in Bridge /\ Kept(seen)
  <2>1. Follows(n, seen) /\ seen.nonce = n.nonce
    BY <1>1, HeardType
  <2> QED
    BY <2>1 DEF Follows
<1>3. CASE on_bye(s, p)
  <2> DEFINE r == IF n.auth THEN remove_authenticated(n, "bye") ELSE n
  <2>1. /\ hb' = [hb EXCEPT ![p][s] = "none"] /\ SetUser(s, p, r)
        /\ UNCHANGED <<up, aged, net, losses>>
    BY <1>3 DEF on_bye
  <2>2. Follows(n, r) /\ r.nonce = n.nonce
    <3>1. Follows(n, n)
      BY <1>1 DEF Follows, Kept
    <3> QED
      BY <1>1, <3>1, RemoveAuthenticated
  <2>3. hb' \in [Session -> [Session -> {"none", "hb", "bye"}]]
    BY <1>0, <2>1, SlotType
  <2>4. Exchange(s, p, r, {})
    BY <1>0, <2>1, <2>2, <2>3 DEF Exchange
  <2> HIDE DEF r
  <2> QED
    BY <2>4, ExchangeStep
<1>4. CASE on_heartbeat(s, p)
  <2>1. /\ hb' = [hb EXCEPT ![p][s] = "none"] /\ up[s] = "up"
        /\ UNCHANGED <<up, aged, losses>>
    BY <1>4 DEF on_heartbeat
  <2>2. hb' \in [Session -> [Session -> {"none", "hb", "bye"}]]
    BY <1>0, <2>1, SlotType
  <2>3. CASE \E k \in Fresh(s, p) :
               /\ k \in Nonces /\ Unused(s, p, k)
               /\ SetUser(s, p, Challenging(seen, k))
               /\ net' = net \union {FromHello(s, p, 0, k)}
    <3>1. PICK k \in Nonces :
            /\ Unused(s, p, k)
            /\ SetUser(s, p, Challenging(seen, k))
            /\ net' = net \union {FromHello(s, p, 0, k)}
      BY <2>3
    <3> DEFINE r == Challenging(seen, k)
               m == FromHello(s, p, 0, k)
    <3> HIDE DEF seen
    <3>2. Follows(seen, r) /\ r.nonce = k /\ r.auth = seen.auth
      BY <1>2, ChallengingType
    <3>3. Follows(n, r)
      BY <1>2, <3>2, FollowsTwice
    <3>4. m \in Message
      <4>1. 0 \in 0 .. None
        BY AuthAssumption DEF None
      <4> QED
        BY <4>1, NewMessages
    <3>5. Agreed(m)' /\ Sent(m)
      BY <2>1 DEF Agreed, Sent, FromHello, Nonces
    <3>6. Exchange(s, p, r, {m})
      BY <1>0, <2>1, <2>2, <3>1, <3>2, <3>3, <3>4, <3>5 DEF Exchange
    <3> HIDE DEF r, m
    <3> QED
      BY <3>6, ExchangeStep
  <2>4. CASE SetUser(s, p, [seen EXCEPT !.hbq = @ \/ n.auth]) /\ UNCHANGED net
    <3> DEFINE r == [seen EXCEPT !.hbq = @ \/ n.auth]
    <3>1. Follows(n, r) /\ r.nonce = n.nonce
      BY <1>1, HeardType
    <3>2. SetUser(s, p, r)
      BY <2>4
    <3> HIDE DEF r
    <3>3. Exchange(s, p, r, {})
      BY <1>0, <2>1, <2>2, <2>4, <3>1, <3>2 DEF Exchange
    <3> QED
      BY <3>3, ExchangeStep
  <2> QED
    BY <1>4, <2>3, <2>4 DEF on_heartbeat
<1> QED
  BY <1>3, <1>4

(* Stage 1. *)
LEMMA FromHelloAction ==
    ASSUME IndInv, NEW m \in net, auth_from_hello(m)
    PROVE  IndInv' /\ ByeStep
<1> DEFINE s == m.to
           p == m.from
           n == user[s][p]
<1>0. TypeOK /\ losses \in 0 .. MaxLoss
  BY DEF IndInv, TypeOK
<1>1. s \in Session /\ p \in Session /\ m.stage = 1 /\ Sent(m)
      /\ m.nonce \in {0} \union Nonces
  BY OnTheWay DEF auth_from_hello
<1>2. n \in Bridge /\ Kept(n)
  BY <1>1, UserOf
<1>3. /\ up[s] = "up" /\ UNCHANGED <<up, aged, hb, losses>>
      /\ hb' \in [Session -> [Session -> {"none", "hb", "bye"}]]
  BY <1>0 DEF auth_from_hello, TypeOK
<1>4. CASE /\ \E k \in Fresh(s, p) :
                 /\ k \in Nonces /\ Unused(s, p, k)
                 /\ SetUser(s, p, Challenging(Accepted(n, k), k))
           /\ net' = (net \ {m}) \union {FromHandshake(s, p, m.nonce)}
  <2>1. PICK k \in Nonces :
          Unused(s, p, k) /\ SetUser(s, p, Challenging(Accepted(n, k), k))
    BY <1>4
  <2> DEFINE o == Accepted(n, k)
             r == Challenging(o, k)
             w == FromHandshake(s, p, m.nonce)
  <2>2. Follows(n, o) /\ Met(o)
    BY <1>2, AddAuthenticated
  <2>3. o \in Bridge /\ Kept(o)
    BY <2>2 DEF Follows
  <2> HIDE DEF o
  <2>4. /\ Follows(o, r) /\ r.nonce = k
        /\ r.auth = o.auth /\ r.zombie = o.zombie
    BY <2>3, ChallengingType
  <2>5. Follows(n, r) /\ Met(r)
    BY <2>2, <2>4, FollowsTwice DEF Met
  <2>6. SetUser(s, p, r)
    BY <2>1 DEF o
  <2> HIDE DEF r
  <2>7. Trusted(s, p)'
    BY <1>1, <1>3, <2>5, <2>6, UserStep
  <2>8. w \in Message
    <3>1. 0 \in 0 .. None
      BY AuthAssumption DEF None
    <3> QED
      BY <1>1, <3>1, NewMessages
  <2>9. Agreed(w)' /\ Sent(w)
    BY <1>1, <1>3, <2>7 DEF Agreed, Sent, FromHandshake
  <2>10. Exchange(s, p, r, {w})
    BY <1>0, <1>3, <1>4, <2>1, <2>4, <2>5, <2>6, <2>8, <2>9 DEF Exchange
  <2> HIDE DEF w, s, p
  <2> QED
    BY <1>1, <2>10, ExchangeStep
<1>5. CASE net' = net \ {m} /\ UNCHANGED user
  <2>1. SetUser(s, p, n)
    BY <1>0, <1>1, <1>5 DEF SetUser, TypeOK
  <2>2. Follows(n, n)
    BY <1>2 DEF Follows, Kept
  <2>3. Exchange(s, p, n, {})
    BY <1>0, <1>3, <1>5, <2>1, <2>2 DEF Exchange
  <2> HIDE DEF s, p, n
  <2> QED
    BY <1>1, <2>3, ExchangeStep
<1> QED
  BY <1>4, <1>5 DEF auth_from_hello

(* Stage 2. *)
LEMMA FromHandshakeAction ==
    ASSUME IndInv, NEW m \in net, auth_from_handshake(m)
    PROVE  IndInv' /\ ByeStep
<1> DEFINE s == m.to
           p == m.from
           n == user[s][p]
<1>0. TypeOK /\ losses \in 0 .. MaxLoss
  BY DEF IndInv, TypeOK
<1>1. s \in Session /\ p \in Session /\ m.stage = 2 /\ Sent(m) /\ Agreed(m)
  BY OnTheWay DEF auth_from_handshake
<1>2. n \in Bridge /\ Kept(n)
  BY <1>1, UserOf
<1>3. /\ up[s] = "up" /\ UNCHANGED <<up, aged, hb, losses>>
      /\ hb' \in [Session -> [Session -> {"none", "hb", "bye"}]]
  BY <1>0 DEF auth_from_handshake, TypeOK
<1>4. CASE /\ Answers(n, m)
           /\ \E k \in Fresh(s, p) :
                 /\ k \in Nonces /\ Unused(s, p, k)
                 /\ SetUser(s, p, Accepted(n, k))
           /\ net' = (net \ {m}) \union {Trust(s, p)}
  <2>1. PICK k \in Nonces : Unused(s, p, k) /\ SetUser(s, p, Accepted(n, k))
    BY <1>4
  <2> DEFINE r == Accepted(n, k)
             w == Trust(s, p)
  <2>2. Follows(n, r) /\ Met(r) /\ r.nonce = k
    BY <1>2, AddAuthenticated
  <2>3. SetUser(s, p, r)
    BY <2>1
  <2> HIDE DEF r
  <2>4. Trusted(s, p)' /\ (Trusted(p, s) => Trusted(p, s)')
    BY <1>1, <1>3, <2>2, <2>3, UserStep
  <2>5. Trusted(p, s)
    BY <1>1, <1>4 DEF Agreed
  <2>6. w \in Message
    <3>1. 0 \in 0 .. None
      BY AuthAssumption DEF None
    <3> QED
      BY <1>1, <3>1, NewMessages
  <2>7. Agreed(w)' /\ Sent(w)
    BY <1>1, <1>3, <2>4, <2>5 DEF Agreed, Sent, Trust
  <2>8. Exchange(s, p, r, {w})
    BY <1>0, <1>3, <1>4, <2>1, <2>2, <2>3, <2>6, <2>7 DEF Exchange
  <2> HIDE DEF w, s, p
  <2> QED
    BY <1>1, <2>8, ExchangeStep
<1>5. CASE /\ Retries(s, p)
           /\ \E k \in Fresh(s, p) :
                 /\ k \in Nonces /\ Unused(s, p, k)
                 /\ SetUser(s, p, [n EXCEPT !.nonce = k, !.count = @ + 1])
                 /\ net' = (net \ {m}) \union {FromHello(s, p, n.age, k)}
  <2>1. PICK k \in Nonces :
          /\ Unused(s, p, k)
          /\ SetUser(s, p, [n EXCEPT !.nonce = k, !.count = @ + 1])
          /\ net' = (net \ {m}) \union {FromHello(s, p, n.age, k)}
    BY <1>5
  <2>0. PICK age \in 0 .. None : age = n.age
    BY <1>2 DEF Bridge
  <2> DEFINE r == [n EXCEPT !.nonce = k, !.count = @ + 1]
             w == FromHello(s, p, age, k)
  <2>2. n.count + 1 \in 0 .. MaxRetry
    BY <1>2, <1>5, AuthAssumption DEF Retries, Bridge
  <2>3. r \in Bridge
    BY <1>2, <2>2 DEF Bridge
  <2>4. /\ r.nonce = k /\ r.auth = n.auth /\ r.zombie = n.zombie
        /\ r.hbq = n.hbq /\ r.last = n.last
    BY <1>2 DEF Bridge
  <2>5. Follows(n, r)
    BY <1>2, <2>3, <2>4 DEF Follows, Kept, Met
  <2>6. w \in Message
    BY <1>1, <2>0, NewMessages
  <2>7. Agreed(w)' /\ Sent(w)
    BY <1>3 DEF Agreed, Sent, FromHello, Nonces
  <2>9. SetUser(s, p, r) /\ net' = (net \ {m}) \union {w} /\ Unused(s, p, r.nonce)
    BY <2>0, <2>1, <2>4
  <2> HIDE DEF r, w
  <2>8. Exchange(s, p, r, {w})
    BY <1>0, <1>3, <2>4, <2>5, <2>6, <2>7, <2>9 DEF Exchange
  <2> HIDE DEF s, p
  <2> QED
    BY <1>1, <2>8, ExchangeStep
<1>6. CASE net' = net \ {m} /\ UNCHANGED user
  <2>1. SetUser(s, p, n)
    BY <1>0, <1>1, <1>6 DEF SetUser, TypeOK
  <2>2. Follows(n, n)
    BY <1>2 DEF Follows, Kept
  <2>3. Exchange(s, p, n, {})
    BY <1>0, <1>3, <1>6, <2>1, <2>2 DEF Exchange
  <2> HIDE DEF s, p, n
  <2> QED
    BY <1>1, <2>3, ExchangeStep
<1> QED
  BY <1>4, <1>5, <1>6 DEF auth_from_handshake

(* Stage 3. *)
LEMMA TrustAction ==
    ASSUME IndInv, NEW m \in net, auth_trust(m)
    PROVE  IndInv' /\ ByeStep
<1> DEFINE s == m.to
           p == m.from
           r == Settled(user[s][p])
<1>1. s \in Session /\ p \in Session
  BY OnTheWay
<1>2. Follows(user[s][p], r) /\ r.nonce = user[s][p].nonce
  BY <1>1, UserOf, SettledSame
<1>3. /\ SetUser(s, p, r) /\ net' = net \ {m} /\ UNCHANGED <<up, aged, hb, losses>>
      /\ hb' \in [Session -> [Session -> {"none", "hb", "bye"}]]
      /\ losses' \in 0 .. MaxLoss
  BY DEF auth_trust, IndInv, TypeOK
<1>4. Exchange(s, p, r, {})
  BY <1>2, <1>3 DEF Exchange
<1> HIDE DEF s, p, r
<1> QED
  BY <1>1, <1>4, ExchangeStep

(* The timers, and the loss of a heartbeat. *)
LEMMA TimerActions ==
    ASSUME IndInv, NEW s \in Session, NEW p \in Session,
           challenge_expire(s, p) \/ hb_expire(s, p) \/ LoseHb(s, p)
    PROVE  IndInv' /\ ByeStep
<1> DEFINE n == user[s][p]
<1>0. TypeOK /\ losses \in 0 .. MaxLoss
      /\ hb \in [Session -> [Session -> {"none", "hb", "bye"}]]
  BY DEF IndInv, TypeOK
<1>1. n \in Bridge /\ Kept(n)
  BY UserOf
<1>2. CASE challenge_expire(s, p)
  <2> DEFINE r == [n EXCEPT !.chal = FALSE, !.count = IF n.auth THEN 0 ELSE @]
  <2>1. PICK c \in 0 .. MaxRetry : r = [n EXCEPT !.chal = FALSE, !.count = c]
    <3>1. n.count \in 0 .. MaxRetry /\ 0 \in 0 .. MaxRetry
      BY <1>1, AuthAssumption DEF Bridge
    <3> QED
      BY <3>1
  <2>2. SetUser(s, p, r) /\ UNCHANGED <<up, aged, hb, net>> /\ losses' \in 0 .. MaxLoss
    BY <1>0, <1>2, AuthAssumption DEF challenge_expire, Settles
  <2> HIDE DEF r
  <2>3. Follows(n, r) /\ r.nonce = n.nonce
    <3>1. r \in Bridge
      BY <1>1, <2>1 DEF Bridge
    <3> QED
      BY <1>1, <2>1, <3>1 DEF Follows, Kept, Met, Bridge
  <2>4. Exchange(s, p, r, {})
    BY <1>0, <2>2, <2>3 DEF Exchange
  <2> QED
    BY <2>4, ExchangeStep
<1>3. CASE hb_expire(s, p)
  <2> DEFINE r == remove_authenticated(n, "timeout")
  <2>1. SetUser(s, p, r) /\ UNCHANGED <<up, aged, hb, net, losses>>
    BY <1>3 DEF hb_expire
  <2>2. Follows(n, r) /\ r.nonce = n.nonce
    BY <1>1, RemoveAuthenticated
  <2>3. Exchange(s, p, r, {})
    BY <1>0, <2>1, <2>2 DEF Exchange
  <2> HIDE DEF r
  <2> QED
    BY <2>3, ExchangeStep
<1>4. CASE LoseHb(s, p)
  <2> DEFINE r == [n EXCEPT !.miss = IF up[s] = "up" /\ @ < MaxMiss THEN @ + 1 ELSE @]
  <2>1. PICK x \in 0 .. MaxMiss : r = [n EXCEPT !.miss = x]
    <3>1. n.miss \in 0 .. MaxMiss
      BY <1>1 DEF Bridge
    <3>2. n.miss < MaxMiss => n.miss + 1 \in 0 .. MaxMiss
      BY <3>1 DEF MaxMiss
    <3> QED
      BY <3>1, <3>2
  <2>2. /\ SetUser(s, p, r) /\ UNCHANGED <<up, aged, net>>
        /\ hb' = [hb EXCEPT ![p][s] = "none"]
    BY <1>4 DEF LoseHb
  <2> HIDE DEF r
  <2>3. losses' \in 0 .. MaxLoss
    BY <1>0, <1>4, AuthAssumption DEF LoseHb, Lost
  <2>4. Follows(n, r) /\ r.nonce = n.nonce
    <3>1. r \in Bridge
      BY <1>1, <2>1 DEF Bridge
    <3> QED
      BY <1>1, <2>1, <3>1 DEF Follows, Kept, Met, Bridge
  <2>5. hb' \in [Session -> [Session -> {"none", "hb", "bye"}]]
    BY <1>0, <2>2, SlotType
  <2>6. Exchange(s, p, r, {})
    BY <2>2, <2>3, <2>4, <2>5 DEF Exchange
  <2> QED
    BY <2>6, ExchangeStep
<1> QED
  BY <1>2, <1>3, <1>4

(* A second passes, or a message is lost. *)
LEMMA OtherActions ==
    ASSUME IndInv, (\E s \in Session : SecondOld(s)) \/ (\E m \in net : Lose(m))
    PROVE  IndInv' /\ ByeStep
<1>1. /\ net' \subseteq net /\ UNCHANGED <<up, user, hb>>
      /\ aged' \subseteq Session /\ losses' \in 0 .. MaxLoss
  BY AuthAssumption DEF IndInv, TypeOK, SecondOld, Lose, Lost
<1>2. TypeOK' /\ Watched'
  BY <1>1 DEF IndInv, TypeOK, Watched
<1>3. Agreement' /\ Origin'
  BY <1>1 DEF IndInv, Agreement, Origin, Sent, Answers, Trusted
<1>4. ByeStep
  BY <1>1, WatchedKept DEF IndInv, ByeStep, Kept
<1> QED
  BY <1>2, <1>3, <1>4 DEF IndInv

(* The first state satisfies the invariant. *)
LEMMA InitIndInv == Init => IndInv
<1> SUFFICES ASSUME Init
             PROVE  IndInv
  OBVIOUS
<1>1. TypeOK
  BY NewUserType, AuthAssumption DEF Init, TypeOK
<1>2. Watched
  BY DEF Init, Watched, NewUser
<1>3. Agreement /\ Origin
  BY DEF Init, Agreement, Origin
<1> QED
  BY <1>1, <1>2, <1>3 DEF IndInv

(* Every step keeps the invariant. *)
LEMMA NextIndInv == IndInv /\ [Next]_vars => IndInv' /\ ByeStep
<1> SUFFICES ASSUME IndInv, [Next]_vars
             PROVE  IndInv' /\ ByeStep
  OBVIOUS
<1>1. CASE UNCHANGED vars
  <2>1. IndInv'
    BY <1>1 DEF vars, IndInv, TypeOK, Agreement, Watched, Origin, Sent, Answers, Trusted
  <2>2. ByeStep
    BY <1>1, WatchedKept DEF vars, IndInv, ByeStep, Kept
  <2> QED
    BY <2>1, <2>2
<1>2. CASE Next
  BY <1>2, SessionActions, HeartbeatActions, FromHelloAction, FromHandshakeAction,
     TrustAction, TimerActions, OtherActions DEF Next
<1> QED
  BY <1>1, <1>2

(* IndInv holds in every state that the sessions reach. *)
THEOREM AuthInvariant == Spec => []IndInv
BY InitIndInv, NextIndInv, PTL DEF Spec

(* The state of the exchange keeps its types, for any number of sessions.  *)
THEOREM AuthTypes == Spec => []TypeOK
BY AuthInvariant, PTL DEF IndInv

(* A session completes the exchange only with a peer that trusts it        *)
(* already, for any number of sessions, losses and delays, in any order of *)
(* challenges, answers, timeouts, byes and crashes.                        *)
THEOREM ExchangeAgrees == Spec => []Agreement
BY AuthInvariant, PTL DEF IndInv

(* A trusted user is always in the queue whose timer drops it.             *)
THEOREM TrustedAreWatched == Spec => []Watched
BY AuthInvariant, PTL DEF IndInv

(* A session that said bye is trusted by no step, whatever of its exchange *)
(* is still on the way.                                                    *)
THEOREM ByeIsFinal == Spec => ByeFinal
<1>1. IndInv /\ [Next]_vars => [ByeStep]_vars
  BY NextIndInv
<1>2. Spec => [][ByeStep]_vars
  BY <1>1, AuthInvariant, PTL DEF Spec
<1> QED
  BY <1>2 DEF ByeFinal, ByeStep
=============================================================================

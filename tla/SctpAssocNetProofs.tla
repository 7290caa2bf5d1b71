-------------------------- MODULE SctpAssocNetProofs --------------------------
(***************************************************************************)
(* Theorems about SctpAssoc that relate the two endpoints through packets, *)
(* cookies and what was delivered.  StepOf says what any step does to the  *)
(* TCB of the endpoint that takes it and what it sends; one lemma per      *)
(* group of actions shows that the action is such a step, and the          *)
(* invariants are then proved from StepOf alone, whatever the action was.  *)
(***************************************************************************)
EXTENDS SctpAssocProofs

-----------------------------------------------------------------------------
(***************************************************************************)
(* What most operators on a TCB leave alone: its identity, its TSN spaces, *)
(* what it queued, what was acknowledged and what it received.             *)
(***************************************************************************)
Keeps(t, u) ==
  /\ u.my_vtag = t.my_vtag /\ u.peer_vtag = t.peer_vtag
  /\ u.nonce = t.nonce /\ u.init_seq = t.init_seq /\ u.peer_seq = t.peer_seq
  /\ u.out = t.out /\ u.acked = t.acked /\ u.late = t.late
  /\ u.rcum = t.rcum /\ u.map = t.map

CookieKept(t, u) == u.cookie = t.cookie \/ u.cookie = NoCookie

(* A set-up that goes on is the same one, with its INIT timer if it had it. *)
SetupKept(t, u) ==
  u.state \in FrontState =>
    u.state = t.state /\ (t.rxt = "INIT" => u.rxt = "INIT")

Calm(t, u) == Keeps(t, u) /\ CookieKept(t, u) /\ SetupKept(t, u)

LEMMA CalmSelf == ASSUME NEW t PROVE Calm(t, t)
  BY DEF Calm, Keeps, CookieKept, SetupKept

LEMMA KeepsTrans ==
  ASSUME NEW t, NEW u, NEW v, Keeps(t, u), Keeps(u, v) PROVE Keeps(t, v)
  BY DEF Keeps

LEMMA CookieTrans ==
  ASSUME NEW t, NEW u, NEW v, CookieKept(t, u), CookieKept(u, v)
  PROVE  CookieKept(t, v)
  BY DEF CookieKept

LEMMA CalmTrans ==
  ASSUME NEW t, NEW u, NEW v, Calm(t, u), Calm(u, v) PROVE Calm(t, v)
<1>1. Keeps(t, v)
  BY KeepsTrans DEF Calm
<1>2. CookieKept(t, v)
  BY CookieTrans DEF Calm
<1>3. SetupKept(t, v)
  BY DEF Calm, SetupKept
<1> QED
  BY <1>1, <1>2, <1>3 DEF Calm

LEMMA CalmTimers ==
  ASSUME NEW t \in Tcb
  PROVE  /\ \A type : Calm(t, sctp_timer_start(t, type))
         /\ \A type : type # "INIT" => Calm(t, sctp_timer_stop(t, type))
         /\ \A type : Keeps(t, sctp_timer_stop(t, type))
         /\ \A type : CookieKept(t, sctp_timer_stop(t, type))
         /\ \A type : sctp_timer_stop(t, type).state = t.state
         /\ Calm(t, sctp_toss_old_cookies(t))
         /\ Calm(t, StartGuard(t))
         /\ Calm(t, MoveToOpen(t))
<1> USE DEF Calm, Keeps, CookieKept, SetupKept, Tcb
<1>1. ASSUME NEW type PROVE Calm(t, sctp_timer_start(t, type))
  BY DEF sctp_timer_start
<1>2. ASSUME NEW type
      PROVE  /\ Keeps(t, sctp_timer_stop(t, type))
             /\ CookieKept(t, sctp_timer_stop(t, type))
             /\ sctp_timer_stop(t, type).state = t.state
  BY DEF sctp_timer_stop
<1>3. ASSUME NEW type, type # "INIT"
      PROVE  SetupKept(t, sctp_timer_stop(t, type))
  BY <1>3 DEF sctp_timer_stop
<1>4. Calm(t, sctp_toss_old_cookies(t))
  BY DEF sctp_toss_old_cookies
<1>5. Calm(t, StartGuard(t))
  BY DEF StartGuard
<1>6. Calm(t, MoveToOpen(t))
  BY DEF MoveToOpen, FrontState
<1> HIDE DEF Keeps, CookieKept, SetupKept
<1> QED
  BY <1>1, <1>2, <1>3, <1>4, <1>5, <1>6

(* An expiry counted, with or without a timer started again, keeps the     *)
(* rest of the TCB; the state is what it was.                              *)
LEMMA CalmExpiry ==
  ASSUME NEW t \in Tcb
  PROVE  /\ Keeps(t, Expired(t)) /\ CookieKept(t, Expired(t))
         /\ Expired(t).state = t.state
         /\ Keeps(t, Counted(t)) /\ CookieKept(t, Counted(t))
         /\ Counted(t).state = t.state /\ Counted(t).rxt = "NONE"
         /\ Counted(t).cookie = t.cookie
         /\ t.rxt # "INIT" => Calm(t, Expired(t)) /\ Calm(t, Counted(t))
         /\ \A type : /\ Keeps(t, sctp_timer_start(Counted(t), type))
                      /\ CookieKept(t, sctp_timer_start(Counted(t), type))
                      /\ sctp_timer_start(Counted(t), type).state = t.state
                      /\ sctp_timer_start(Counted(t), type).rxt = type
                      /\ sctp_timer_start(Counted(t), type).cookie = t.cookie
<1> USE DEF Keeps, CookieKept, Tcb
<1>1. /\ Keeps(t, Expired(t)) /\ Expired(t).cookie = t.cookie
      /\ Expired(t).state = t.state /\ Expired(t).rxt = "NONE"
  BY DEF Expired
<1>2. Expired(t) \in Tcb
  BY TimerTypes
<1>3. /\ Keeps(Expired(t), Counted(t)) /\ Counted(t).cookie = Expired(t).cookie
      /\ Counted(t).state = Expired(t).state
      /\ Counted(t).rxt = Expired(t).rxt
  BY <1>2 DEF Counted
<1>4. Counted(t) \in Tcb
  BY CountedType
<1>5. ASSUME NEW type
      PROVE  /\ Keeps(Counted(t), sctp_timer_start(Counted(t), type))
             /\ sctp_timer_start(Counted(t), type).state = Counted(t).state
             /\ sctp_timer_start(Counted(t), type).cookie = Counted(t).cookie
             /\ sctp_timer_start(Counted(t), type).rxt = type
  BY <1>1, <1>3, <1>4 DEF sctp_timer_start
<1> HIDE DEF Keeps, Tcb
<1>6. Keeps(t, Counted(t))
  BY <1>1, <1>3, KeepsTrans
<1>7. ASSUME NEW type PROVE Keeps(t, sctp_timer_start(Counted(t), type))
  BY <1>5, <1>6, KeepsTrans
<1> QED
  BY <1>1, <1>3, <1>5, <1>6, <1>7 DEF Calm, SetupKept

LEMMA CalmOutput ==
  ASSUME NEW t \in Tcb PROVE Calm(t, sctp_chunk_output(t))
  BY CalmTimers, CalmSelf DEF sctp_chunk_output

LEMMA KeepsStopAll ==
  ASSUME NEW t \in Tcb
  PROVE  /\ Keeps(t, sctp_stop_all_cookie_timers(t))
         /\ CookieKept(t, sctp_stop_all_cookie_timers(t))
         /\ sctp_stop_all_cookie_timers(t).state = t.state
<1> DEFINE u == sctp_timer_stop(t, "COOKIE")
           v == sctp_timer_stop(u, "INIT")
<1>1. u \in Tcb /\ Keeps(t, u) /\ CookieKept(t, u) /\ u.state = t.state
  BY TimerTypes, CalmTimers DEF RxtType
<1> HIDE DEF u
<1>2. Keeps(u, v) /\ CookieKept(u, v) /\ v.state = u.state
  BY <1>1, CalmTimers
<1> HIDE DEF v
<1>3. Keeps(t, v) /\ CookieKept(t, v) /\ v.state = t.state
  BY <1>1, <1>2, KeepsTrans, CookieTrans
<1> QED
  BY <1>3 DEF sctp_stop_all_cookie_timers, u, v

LEMMA KeepsToss ==
  ASSUME NEW t \in Tcb
  PROVE  LET u == sctp_toss_old_cookies(sctp_stop_all_cookie_timers(t))
         IN  u \in Tcb /\ Keeps(t, u) /\ u.cookie = NoCookie /\ u.state = t.state
<1> DEFINE s == sctp_stop_all_cookie_timers(t)
           u == sctp_toss_old_cookies(s)
<1>1. s \in Tcb /\ Keeps(t, s) /\ s.state = t.state
  BY StopAllType, KeepsStopAll
<1> HIDE DEF s
<1>2. u \in Tcb /\ Keeps(s, u)
  BY <1>1, TimerTypes, CalmTimers DEF Calm
<1>3. u.cookie = NoCookie /\ u.state = s.state
  BY <1>1 DEF sctp_toss_old_cookies, Tcb
<1> HIDE DEF u
<1>4. Keeps(t, u)
  BY <1>1, <1>2, KeepsTrans
<1> QED
  BY <1>1, <1>2, <1>3, <1>4 DEF u, s

LEMMA CalmShutdown ==
  ASSUME NEW t \in Tcb
  PROVE  /\ Calm(t, ToShutdownSent(t))
         /\ Calm(t, ToShutdownAckSent(t))
         /\ Calm(t, ShutdownIssues(t))
<1> DEFINE u == [t EXCEPT !.state = "SHUTDOWN_SENT", !.pending = FALSE]
           v == [t EXCEPT !.state = "SHUTDOWN_ACK_SENT", !.pending = FALSE]
           w == sctp_timer_start(u, "SHUTDOWN")
<1>1. u \in Tcb /\ v \in Tcb
  BY DEF Tcb, State
<1>2. Calm(t, u) /\ Calm(t, v)
  BY DEF Calm, Keeps, CookieKept, SetupKept, Tcb, FrontState
<1> HIDE DEF u, v
<1>3. w \in Tcb /\ Calm(u, w)
  BY <1>1, TimerTypes, CalmTimers DEF RxtType
<1>4. Calm(v, sctp_timer_start(v, "SHUTDOWNACK"))
  BY <1>1, CalmTimers
<1> HIDE DEF w
<1>5. Calm(w, StartGuard(w))
  BY <1>3, CalmTimers
<1>6. Calm(t, StartGuard(w))
  BY <1>2, <1>3, <1>5, CalmTrans
<1>7. Calm(t, sctp_timer_start(v, "SHUTDOWNACK"))
  BY <1>2, <1>4, CalmTrans
<1>8. ToShutdownSent(t) = StartGuard(w)
  BY DEF ToShutdownSent, u, w
<1>9. ToShutdownAckSent(t) = sctp_timer_start(v, "SHUTDOWNACK")
  BY DEF ToShutdownAckSent, v
<1> QED
  BY <1>6, <1>7, <1>8, <1>9, CalmSelf DEF ShutdownIssues

LEMMA KeepsCookieAck ==
  ASSUME NEW t \in Tcb
  PROVE  LET a == sctp_handle_cookie_ack(t) IN
         /\ Keeps(t, a) /\ a.cookie = NoCookie
         /\ a.state = IF t.state = "COOKIE_ECHOED" THEN "OPEN" ELSE t.state
<1> DEFINE u == sctp_stop_all_cookie_timers(t)
           v == IF t.state = "COOKIE_ECHOED" THEN MoveToOpen(u) ELSE u
           w == [v EXCEPT !.err = 0]
           x == sctp_toss_old_cookies(w)
<1>1. u \in Tcb /\ Keeps(t, u) /\ u.state = t.state
  BY StopAllType, KeepsStopAll
<1> HIDE DEF u
<1>2. MoveToOpen(u) \in Tcb /\ Keeps(u, MoveToOpen(u))
  BY <1>1, TimerTypes, CalmTimers DEF Calm
<1>3. MoveToOpen(u).state = "OPEN"
  BY <1>1 DEF MoveToOpen, Tcb
<1>4. /\ v \in Tcb /\ Keeps(t, v)
      /\ v.state = IF t.state = "COOKIE_ECHOED" THEN "OPEN" ELSE t.state
  <2>1. CASE t.state = "COOKIE_ECHOED"
    BY <2>1, <1>1, <1>2, <1>3, KeepsTrans
  <2>2. CASE t.state # "COOKIE_ECHOED"
    BY <2>2, <1>1
  <2> QED
    BY <2>1, <2>2
<1> HIDE DEF v
<1>5. w \in Tcb /\ Keeps(v, w) /\ w.state = v.state
  BY <1>4 DEF Tcb, Keeps
<1> HIDE DEF w
<1>6. Keeps(w, x) /\ x.cookie = NoCookie /\ x.state = w.state
  BY <1>5 DEF sctp_toss_old_cookies, Tcb, Keeps
<1> HIDE DEF x
<1>7. Keeps(t, x)
  BY <1>4, <1>5, <1>6, KeepsTrans
<1> QED
  BY <1>4, <1>5, <1>6, <1>7 DEF sctp_handle_cookie_ack, u, v, w, x

LEMMA CalmImplied ==
  ASSUME NEW t \in Tcb
  PROVE  /\ ImpliedCookieAck(t) \in Tcb /\ Calm(t, ImpliedCookieAck(t))
         /\ ImpliedCookieAck(t).state
              = IF t.state = "COOKIE_ECHOED" THEN "OPEN" ELSE t.state
<1>1. CASE t.state = "COOKIE_ECHOED"
  <2> DEFINE a == sctp_handle_cookie_ack(t)
  <2>1. Keeps(t, a) /\ a.cookie = NoCookie /\ a.state = "OPEN"
    BY <1>1, KeepsCookieAck
  <2> HIDE DEF a
  <2>2. Calm(t, a)
    BY <2>1 DEF Calm, CookieKept, SetupKept, FrontState
  <2> QED
    BY <2>1, <2>2, <1>1, CookieAckTypes DEF ImpliedCookieAck, a
<1>2. CASE t.state # "COOKIE_ECHOED"
  BY <1>2, CalmSelf DEF ImpliedCookieAck
<1> QED
  BY <1>1, <1>2

-----------------------------------------------------------------------------
(***************************************************************************)
(* What a step of endpoint n does.                                         *)
(***************************************************************************)
(* A TCB that starts with nothing queued and nothing received. *)
Blank(w) ==
  /\ w.out = 0 /\ w.acked = 0 /\ w.late = FALSE /\ w.rcum = 0 /\ w.map = {}

(* connect: a tag, a TSN and a nonce of its own. *)
Connects(n, w) ==
  /\ Blank(w)
  /\ w.my_vtag = tags[n] + 1 /\ w.init_seq = w.my_vtag
  /\ w.peer_vtag = 0 /\ w.peer_seq = 0
  /\ w.nonce = tcbs[n] + 1 /\ tags'[n] = tags[n] + 1 /\ tcbs'[n] = tcbs[n] + 1

(* SendFinish queues one message. *)
Queues(t, w) ==
  /\ w.my_vtag = t.my_vtag /\ w.peer_vtag = t.peer_vtag
  /\ w.nonce = t.nonce /\ w.init_seq = t.init_seq /\ w.peer_seq = t.peer_seq
  /\ w.acked = t.acked /\ w.rcum = t.rcum /\ w.map = t.map

(* A SACK or SHUTDOWN moves the cumulative ack. *)
Acks(n, t, w) ==
  /\ w.my_vtag = t.my_vtag /\ w.peer_vtag = t.peer_vtag
  /\ w.nonce = t.nonce /\ w.init_seq = t.init_seq /\ w.peer_seq = t.peer_seq
  /\ w.rcum = t.rcum /\ w.map = t.map
  /\ \E m \in net : /\ m.type \in {"SACK", "SHUTDOWN"} /\ m.to = n
                    /\ m.seq = t.init_seq /\ m.num = w.acked

(* sctp_process_init: the peer's tag and TSN space are taken over. *)
Adopts(t, w, tag, seq) ==
  /\ w.my_vtag = t.my_vtag /\ w.nonce = t.nonce /\ w.init_seq = t.init_seq
  /\ w.out = t.out /\ w.acked = t.acked /\ w.late = t.late /\ w.map = t.map
  /\ w.peer_vtag = tag /\ w.peer_seq = seq /\ w.rcum = 0

Echoes(n, t, w) ==
  /\ t.state = "COOKIE_WAIT"
  /\ \E m \in net : /\ m.type = "INIT_ACK" /\ m.to = n
                    /\ Adopts(t, w, m.tag, m.seq)

(* The cookie that makes a TCB or changes it. *)
Accepts(n, w, c) ==
  /\ Blank(w)
  /\ w.my_vtag = c.my /\ w.init_seq = c.myseq
  /\ w.peer_vtag = c.peer /\ w.peer_seq = c.peerseq
  /\ w.nonce = tcbs[n] + 1 /\ tcbs'[n] = tcbs[n] + 1

(* A restart that waited for the locks keeps what was marked meanwhile. *)
Restarts(n, t, w, c) ==
  /\ w.out = 0 /\ w.acked = 0 /\ w.late = FALSE /\ w.rcum = 0
  /\ w.map = {} \/ (waiting[n] # {} /\ waiting'[n] = {} /\ w.map = t.map)
  /\ w.my_vtag = c.my /\ w.init_seq = c.myseq
  /\ c.my # t.my_vtag /\ c.peer # t.peer_vtag
  /\ w.peer_vtag = c.peer /\ w.peer_seq = c.peerseq /\ w.nonce = t.nonce

CookieMoves(n, t, w, c) ==
  \/ Accepts(n, w, c)
  \/ t.state # "CLOSED" /\ Restarts(n, t, w, c)
  \/ /\ t.state # "CLOSED" /\ Adopts(t, w, c.peer, c.peerseq)
     /\ t.state \in FrontState \/ c.peer # t.peer_vtag

(* The first half of a restart: the mapping arrays are cleared. *)
Clears(t, w) ==
  /\ SlowRestart /\ w.map = {}
  /\ w.my_vtag = t.my_vtag /\ w.peer_vtag = t.peer_vtag
  /\ w.nonce = t.nonce /\ w.init_seq = t.init_seq /\ w.peer_seq = t.peer_seq
  /\ w.out = t.out /\ w.acked = t.acked /\ w.late = t.late /\ w.rcum = t.rcum

From(n, t, w) ==
  \/ Connects(n, w)
  \/ t.state # "CLOSED" /\ Clears(t, w)
  \/ t.state # "CLOSED" /\ Keeps(t, w)
  \/ t.state # "CLOSED" /\ Queues(t, w)
  \/ t.state # "CLOSED" /\ Acks(n, t, w)
  \/ Echoes(n, t, w)
  \/ \E m \in net : /\ m.type = "COOKIE_ECHO" /\ m.to = n
                    /\ CookieMoves(n, t, w, m.cookie)

(* New chunks are marked and handed up, and the cumulative TSN moves. *)
Receives(n, w, u) ==
  \E new \in SUBSET (1 .. MaxMsgs) :
    /\ u.my_vtag = w.my_vtag /\ u.peer_vtag = w.peer_vtag
    /\ u.nonce = w.nonce /\ u.init_seq = w.init_seq /\ u.peer_seq = w.peer_seq
    /\ u.out = w.out /\ u.acked = w.acked /\ u.late = w.late
    /\ u.map = w.map \cup new /\ 1 .. u.rcum \subseteq u.map
    /\ dlv' = dlv \cup {[at |-> n, nonce |-> w.nonce,
                         seq |-> w.peer_seq, num |-> k] : k \in new}

(* The TCB stays closed, or is freed, perhaps by the handshake. *)
Frees(n, t, u) ==
  /\ u = Closed /\ dlv' = dlv
  /\ \/ ended' = ended
     \/ t.state \in SentStates /\ End(n, t)

Moves(n, t, u) ==
  \/ Frees(n, t, u)
  \/ /\ t.state = "CLOSED" /\ u.state = "CLOSED" /\ Queues(t, u)
     /\ dlv' = dlv /\ ended' = ended
  \/ /\ ended' = ended
     /\ \E w : From(n, t, w) /\ ((Keeps(w, u) /\ dlv' = dlv)
                                 \/ Receives(n, w, u))

(* A set-up under way has received nothing: it was just started, or was     *)
(* under way before.                                                        *)
SetupOf(t, u) ==
  u.state \in FrontState =>
    u.map = {} \/ (t.state \in FrontState /\ u.map = t.map)

(* COOKIE_WAIT: where it comes from, and what may cost it the INIT timer. *)
WaitOf(n, t, u) ==
  u.state = "COOKIE_WAIT" =>
    \/ /\ t.state = "COOKIE_WAIT" /\ u.my_vtag = t.my_vtag
       /\ t.rxt = "INIT" => u.rxt = "INIT"
    \/ u.rxt = "INIT" /\ u.my_vtag = tags[n] + 1 /\ tags'[n] = tags[n] + 1
    \/ \E m \in net : /\ m.to = n
                      /\ \/ m.type = "STALE"
                         \/ /\ m.type = "COOKIE_ACK" /\ m.vtag = t.my_vtag
                            /\ t.state = "COOKIE_WAIT"

CookieOf(n, t, u) ==
  \/ CookieKept(t, u)
  \/ \E m \in net : m.type = "INIT_ACK" /\ m.to = n /\ u.cookie = m.cookie

(* The tag an endpoint puts in an INIT-ACK is one it drew. *)
OwnTag(n, t, tag) == (t.state \in FrontState /\ tag = t.my_vtag) \/ tag = tags'[n]

(* What endpoint n may send in a step that leaves it with the TCB u. *)
Sent(n, t, u, p) ==
  /\ p.to = Peer(n)
  /\ p.type = "INIT" => p.tag = u.my_vtag /\ p.seq = u.init_seq
  /\ p.type = "INIT_ACK" =>
       /\ OwnTag(n, t, p.tag)
       /\ \E m \in net :
            /\ m.type = "INIT" /\ m.to = n
            /\ p.seq = p.tag /\ p.vtag = m.tag
            /\ p.cookie.my = p.tag /\ p.cookie.myseq = p.tag
            /\ p.cookie.peer = m.tag /\ p.cookie.peerseq = m.seq
  /\ p.type = "COOKIE_ECHO" =>
       p.cookie = u.cookie /\ (u.state = "COOKIE_ECHOED" \/ u.rxt = "COOKIE")
  /\ p.type = "COOKIE_ACK" =>
       \E m \in net : /\ m.type = "COOKIE_ECHO" /\ m.to = n
                      /\ p.vtag = m.cookie.peer
  /\ p.type = "STALE" => "stale" \in UserOps[n]
  /\ p.type \in {"SACK", "SHUTDOWN"} => p.seq = u.peer_seq /\ p.num = u.rcum
  /\ p.type \notin {"INIT_ACK", "COOKIE_ECHO"} => p.cookie = NoCookie

AllSent(n, t, u, ps) == \A p \in ps : Sent(n, t, u, p)

(* The other endpoint is not touched, and counters only grow. *)
Alone(n) ==
  /\ \A i \in Node : i # n => tcb'[i] = tcb[i]
  /\ \A i \in Node : tags[i] <= tags'[i] /\ tcbs[i] <= tcbs'[i]

Become(n, t, u) ==
  Moves(n, t, u) /\ SetupOf(t, u) /\ WaitOf(n, t, u) /\ CookieOf(n, t, u)

StepOf(n) ==
  /\ Alone(n)
  /\ Become(n, tcb[n], tcb'[n])
  /\ \E ps : net' = net \cup ps /\ AllSent(n, tcb[n], tcb'[n], ps)

-----------------------------------------------------------------------------
(***************************************************************************)
(* The ways a handler ends.                                                *)
(***************************************************************************)
LEMMA ExactOutput ==
  ASSUME NEW t \in Tcb
  PROVE  LET u == sctp_chunk_output(t) IN
         /\ Calm(t, u) /\ u.cookie = t.cookie /\ u.state = t.state
         /\ t.rxt # "NONE" => u.rxt = t.rxt
         /\ t = Closed => u = Closed
<1>1. Calm(t, sctp_chunk_output(t))
  BY CalmOutput
<1>2. /\ sctp_chunk_output(t).cookie = t.cookie
      /\ sctp_chunk_output(t).state = t.state
      /\ t.rxt # "NONE" => sctp_chunk_output(t).rxt = t.rxt
  BY DEF sctp_chunk_output, sctp_timer_start, Tcb
<1>3. Closed.state \notin SendStates
  BY DEF Closed, SendStates
<1>4. t = Closed => sctp_chunk_output(t) = Closed
  BY <1>3 DEF sctp_chunk_output
<1> QED
  BY <1>1, <1>2, <1>4

(* What a TCB becomes is not changed by a calm operator behind it. *)
LEMMA MovesCalm ==
  ASSUME NEW n \in Node, NEW t, NEW v, NEW u, Keeps(v, u),
         v.state = u.state, v = Closed => u = Closed, Moves(n, t, v)
  PROVE  Moves(n, t, u)
<1>1. CASE Frees(n, t, v)
  BY <1>1 DEF Frees, Moves
<1>2. CASE /\ t.state = "CLOSED" /\ v.state = "CLOSED" /\ Queues(t, v)
           /\ dlv' = dlv /\ ended' = ended
  BY <1>2 DEF Keeps, Queues, Moves
<1>3. CASE /\ ended' = ended
           /\ \E w : From(n, t, w) /\ ((Keeps(w, v) /\ dlv' = dlv)
                                       \/ Receives(n, w, v))
  <2>1. PICK w : From(n, t, w) /\ ((Keeps(w, v) /\ dlv' = dlv)
                                   \/ Receives(n, w, v))
    BY <1>3
  <2>2. Keeps(w, v) => Keeps(w, u)
    BY KeepsTrans
  <2>3. Receives(n, w, v) => Receives(n, w, u)
    BY DEF Receives, Keeps
  <2> QED
    BY <1>3, <2>1, <2>2, <2>3 DEF Moves
<1> QED
  BY <1>1, <1>2, <1>3 DEF Moves

LEMMA BecomeCalm ==
  ASSUME NEW n \in Node, NEW t, NEW v, NEW u, Calm(v, u),
         v.state = u.state, v = Closed => u = Closed, Become(n, t, v)
  PROVE  Become(n, t, u)
<1>1. Keeps(v, u) /\ CookieKept(v, u) /\ SetupKept(v, u)
  BY DEF Calm
<1>2. Moves(n, t, u)
  BY <1>1, MovesCalm DEF Become
<1>3. SetupOf(t, u)
  BY <1>1 DEF Become, SetupOf, Keeps
<1>4. WaitOf(n, t, u)
  BY <1>1 DEF Become, WaitOf, SetupKept, Keeps, FrontState
<1>5. CookieOf(n, t, u)
  BY <1>1 DEF Become, CookieOf, CookieKept
<1> QED
  BY <1>2, <1>3, <1>4, <1>5 DEF Become

(* A calm operator on the TCB of a handler that frees nothing. *)
LEMMA CalmBecome ==
  ASSUME NEW n \in Node, NEW t, NEW u, Calm(t, u),
         t.state = "CLOSED" => u.state = "CLOSED",
         dlv' = dlv, ended' = ended
  PROVE  Become(n, t, u)
<1>1. Keeps(t, u) /\ CookieKept(t, u) /\ SetupKept(t, u)
  BY DEF Calm
<1>2. Moves(n, t, u)
  <2>1. CASE t.state = "CLOSED"
    BY <2>1, <1>1 DEF Moves, Keeps, Queues
  <2>2. CASE t.state # "CLOSED"
    <3>1. From(n, t, t)
      BY <2>2, CalmSelf DEF From, Calm
    <3> QED
      BY <3>1, <1>1 DEF Moves
  <2> QED
    BY <2>1, <2>2
<1>3. SetupOf(t, u)
  BY <1>1 DEF SetupOf, SetupKept, Keeps
<1>4. WaitOf(n, t, u)
  BY <1>1 DEF WaitOf, SetupKept, Keeps, FrontState
<1>5. CookieOf(n, t, u)
  BY <1>1 DEF CookieOf
<1> QED
  BY <1>2, <1>3, <1>4, <1>5 DEF Become

LEMMA ClosedBecome ==
  ASSUME NEW n \in Node, NEW t, Frees(n, t, Closed)
  PROVE  Become(n, t, Closed)
<1>1. Moves(n, t, Closed)
  BY DEF Moves
<1>2. Closed.state \notin FrontState /\ Closed.state # "COOKIE_WAIT"
  BY DEF Closed, FrontState
<1>3. Closed.cookie = NoCookie
  BY DEF Closed
<1> QED
  BY <1>1, <1>2, <1>3 DEF Become, SetupOf, WaitOf, CookieOf, CookieKept

(* The counters of tags and TCBs never go down. *)
Grow == /\ \A i \in Node : tags[i] <= tags'[i]
        /\ \A i \in Node : tcbs[i] <= tcbs'[i]

LEMMA StillGrow ==
  ASSUME TypeOK, NEW n \in Node,
         \/ tags' = tags \/ tags' = [tags EXCEPT ![n] = @ + 1],
         \/ tcbs' = tcbs \/ tcbs' = [tcbs EXCEPT ![n] = @ + 1]
  PROVE  Grow
<1>1. tags \in [Node -> Nat] /\ tcbs \in [Node -> Nat]
  BY DEF TypeOK
<1>2. \A i \in Node : tags[i] \in Nat /\ tcbs[i] \in Nat
  BY <1>1
<1>3. ASSUME NEW i \in Node PROVE tags[i] <= tags'[i]
  BY <1>1, <1>2
<1>4. ASSUME NEW i \in Node PROVE tcbs[i] <= tcbs'[i]
  BY <1>1, <1>2
<1> QED
  BY <1>3, <1>4 DEF Grow

LEMMA PutStep ==
  ASSUME TypeOK, NEW n \in Node, NEW u, NEW ps, Put(n, u, ps), Grow,
         Become(n, tcb[n], u), AllSent(n, tcb[n], u, ps)
  PROVE  StepOf(n)
<1>1. tcb'[n] = u /\ \A i \in Node : i # n => tcb'[i] = tcb[i]
  BY DEF Put, TypeOK
<1>2. net' = net \cup ps
  BY DEF Put
<1>3. Alone(n)
  BY <1>1 DEF Alone, Grow
<1> QED
  BY <1>1, <1>2, <1>3 DEF StepOf

LEMMA PacketFields ==
  ASSUME NEW n \in Node, NEW t, NEW m
  PROVE  /\ \A type, tag : /\ Pkt(type, Peer(n), tag).type = type
                           /\ Pkt(type, Peer(n), tag).to = Peer(n)
                           /\ Pkt(type, Peer(n), tag).vtag = tag
                           /\ Pkt(type, Peer(n), tag).cookie = NoCookie
         /\ \A type : /\ Reflect(n, m, type).type = type
                      /\ Reflect(n, m, type).to = Peer(n)
                      /\ Reflect(n, m, type).cookie = NoCookie
         /\ \A k : /\ Data(n, t, k).type = "DATA"
                   /\ Data(n, t, k).to = Peer(n)
                   /\ Data(n, t, k).cookie = NoCookie
         /\ /\ Init_(n, t).type = "INIT" /\ Init_(n, t).to = Peer(n)
            /\ Init_(n, t).tag = t.my_vtag /\ Init_(n, t).seq = t.init_seq
            /\ Init_(n, t).cookie = NoCookie
         /\ \A k : /\ CookieEcho(n, t, k).type = "COOKIE_ECHO"
                   /\ CookieEcho(n, t, k).to = Peer(n)
                   /\ CookieEcho(n, t, k).cookie = t.cookie
         /\ /\ Sack(n, t).type = "SACK" /\ Sack(n, t).to = Peer(n)
            /\ Sack(n, t).seq = t.peer_seq /\ Sack(n, t).num = t.rcum
            /\ Sack(n, t).cookie = NoCookie
         /\ /\ Shutdown_(n, t).type = "SHUTDOWN" /\ Shutdown_(n, t).to = Peer(n)
            /\ Shutdown_(n, t).seq = t.peer_seq /\ Shutdown_(n, t).num = t.rcum
            /\ Shutdown_(n, t).cookie = NoCookie
<1> USE DEF Pkt
<1>1. \A type, tag : /\ Pkt(type, Peer(n), tag).type = type
                     /\ Pkt(type, Peer(n), tag).to = Peer(n)
                     /\ Pkt(type, Peer(n), tag).vtag = tag
                     /\ Pkt(type, Peer(n), tag).cookie = NoCookie
  OBVIOUS
<1>2. \A type : /\ Reflect(n, m, type).type = type
                /\ Reflect(n, m, type).to = Peer(n)
                /\ Reflect(n, m, type).cookie = NoCookie
  BY DEF Reflect
<1>3. \A k : /\ Data(n, t, k).type = "DATA"
             /\ Data(n, t, k).to = Peer(n)
             /\ Data(n, t, k).cookie = NoCookie
  BY DEF Data, Chunk
<1>4. /\ Init_(n, t).type = "INIT" /\ Init_(n, t).to = Peer(n)
      /\ Init_(n, t).tag = t.my_vtag /\ Init_(n, t).seq = t.init_seq
      /\ Init_(n, t).cookie = NoCookie
  BY DEF Init_
<1>5. \A k : /\ CookieEcho(n, t, k).type = "COOKIE_ECHO"
             /\ CookieEcho(n, t, k).to = Peer(n)
             /\ CookieEcho(n, t, k).cookie = t.cookie
  BY DEF CookieEcho, Chunk
<1>6. /\ Sack(n, t).type = "SACK" /\ Sack(n, t).to = Peer(n)
      /\ Sack(n, t).seq = t.peer_seq /\ Sack(n, t).num = t.rcum
      /\ Sack(n, t).cookie = NoCookie
  BY DEF Sack, Chunk
<1>7. /\ Shutdown_(n, t).type = "SHUTDOWN" /\ Shutdown_(n, t).to = Peer(n)
      /\ Shutdown_(n, t).seq = t.peer_seq /\ Shutdown_(n, t).num = t.rcum
      /\ Shutdown_(n, t).cookie = NoCookie
  BY DEF Shutdown_, Chunk
<1> QED
  BY <1>1, <1>2, <1>3, <1>4, <1>5, <1>6, <1>7

(* Chunks that say nothing about tags, TSNs or cookies. *)
Plain == {"DATA", "SHUTDOWN_ACK", "SHUTDOWN_COMPLETE", "ABORT"}

LEMMA PlainSent ==
  ASSUME NEW n \in Node, NEW t, NEW u, NEW v, NEW m
  PROVE  /\ \A type \in Plain :
              /\ AllSent(n, t, u, {Chunk(n, v, type)})
              /\ AllSent(n, t, u, {Reflect(n, m, type)})
              /\ \A tag : AllSent(n, t, u, {Pkt(type, Peer(n), tag)})
         /\ AllSent(n, t, u, DataOut(n, v))
         /\ AllSent(n, t, u, {})
<1>1. \A p : /\ p.type \in Plain /\ p.to = Peer(n) /\ p.cookie = NoCookie
             => Sent(n, t, u, p)
  BY DEF Sent, Plain
<1>2. \A p \in DataOut(n, v) : \E k : p = Data(n, v, k)
  BY DEF DataOut
<1>3. \A p \in DataOut(n, v) : Sent(n, t, u, p)
  BY <1>1, <1>2, PacketFields DEF Plain
<1> QED
  BY <1>1, <1>3, PacketFields DEF AllSent, Chunk

LEMMA SignalSent ==
  ASSUME NEW n \in Node, NEW t, NEW u, NEW v, Keeps(v, u)
  PROVE  /\ AllSent(n, t, u, {Init_(n, v)})
         /\ AllSent(n, t, u, {Sack(n, v)})
         /\ AllSent(n, t, u, {Shutdown_(n, v)})
<1>1. /\ u.my_vtag = v.my_vtag /\ u.init_seq = v.init_seq
      /\ u.peer_seq = v.peer_seq /\ u.rcum = v.rcum
  BY DEF Keeps
<1>2. Sent(n, t, u, Init_(n, v))
  BY <1>1, PacketFields DEF Sent
<1>3. Sent(n, t, u, Sack(n, v))
  BY <1>1, PacketFields DEF Sent
<1>4. Sent(n, t, u, Shutdown_(n, v))
  BY <1>1, PacketFields DEF Sent
<1> QED
  BY <1>2, <1>3, <1>4 DEF AllSent

LEMMA EchoSent ==
  ASSUME NEW n \in Node, NEW t, NEW u, NEW v, NEW k, u.cookie = v.cookie,
         u.state = "COOKIE_ECHOED" \/ u.rxt = "COOKIE"
  PROVE  AllSent(n, t, u, {CookieEcho(n, v, k)})
<1> DEFINE q == CookieEcho(n, v, k)
<1>1. q.type = "COOKIE_ECHO" /\ q.to = Peer(n) /\ q.cookie = u.cookie
  BY PacketFields
<1> HIDE DEF q
<1>2. Sent(n, t, u, q)
  BY <1>1 DEF Sent
<1> QED
  BY <1>2 DEF AllSent, q

LEMMA AllSentUnion ==
  ASSUME NEW n, NEW t, NEW u, NEW ps, NEW qs,
         AllSent(n, t, u, ps), AllSent(n, t, u, qs)
  PROVE  AllSent(n, t, u, ps \cup qs)
  BY DEF AllSent

LEMMA ShutdownPktsSent ==
  ASSUME NEW n \in Node, NEW t, NEW u, NEW old, NEW new, Keeps(new, u)
  PROVE  AllSent(n, t, u, ShutdownPkts(n, old, new))
  BY PlainSent, SignalSent DEF ShutdownPkts, Plain

(* Packets made from the TCB before sctp_chunk_output fit the one after. *)
LEMMA SentCalm ==
  ASSUME NEW n \in Node, NEW t, NEW v \in Tcb, NEW ps, AllSent(n, t, v, ps)
  PROVE  AllSent(n, t, sctp_chunk_output(v), ps)
<1> DEFINE u == sctp_chunk_output(v)
<1>1. /\ Keeps(v, u) /\ u.cookie = v.cookie /\ u.state = v.state
      /\ v.rxt # "NONE" => u.rxt = v.rxt
  BY ExactOutput DEF Calm
<1> HIDE DEF u
<1>2. /\ u.my_vtag = v.my_vtag /\ u.init_seq = v.init_seq
      /\ u.peer_seq = v.peer_seq /\ u.rcum = v.rcum
  BY <1>1 DEF Keeps
<1>3. ASSUME NEW p \in ps PROVE Sent(n, t, u, p)
  <2>1. Sent(n, t, v, p)
    BY DEF AllSent
  <2> QED
    BY <2>1, <1>1, <1>2 DEF Sent
<1> QED
  BY <1>3 DEF AllSent, u

LEMMA OutputStep ==
  ASSUME TypeOK, NEW n \in Node, NEW v \in Tcb, NEW ps, Output(n, v, ps), Grow,
         Become(n, tcb[n], v), AllSent(n, tcb[n], v, ps)
  PROVE  StepOf(n)
<1> DEFINE u == sctp_chunk_output(v)
<1>1. /\ Calm(v, u) /\ v.state = u.state
      /\ v = Closed => u = Closed
  BY ExactOutput
<1>2. AllSent(n, tcb[n], u, ps)
  BY SentCalm
<1>3. AllSent(n, tcb[n], u, DataOut(n, v))
  BY PlainSent
<1>4. Put(n, u, ps \cup DataOut(n, v))
  BY DEF Output, Put
<1> HIDE DEF u
<1>5. Become(n, tcb[n], u)
  BY <1>1, BecomeCalm
<1>6. AllSent(n, tcb[n], u, ps \cup DataOut(n, v))
  BY <1>2, <1>3, AllSentUnion
<1> QED
  BY <1>4, <1>5, <1>6, PutStep

LEMMA FreeStep ==
  ASSUME TypeOK, NEW n \in Node, NEW ps, sctp_free_assoc(n, ps), Grow,
         \A t, u : AllSent(n, t, u, ps),
         dlv' = dlv, ended' = ended
  PROVE  StepOf(n)
<1>1. Frees(n, tcb[n], Closed)
  BY DEF Frees
<1> QED
  BY <1>1, ClosedBecome, PutStep DEF sctp_free_assoc

LEMMA AbortStep ==
  ASSUME TypeOK, NEW n \in Node, NEW t, sctp_abort_an_association(n, t), Grow,
         dlv' = dlv, ended' = ended
  PROVE  StepOf(n)
  BY FreeStep, PlainSent DEF sctp_abort_an_association, Plain

-----------------------------------------------------------------------------
(***************************************************************************)
(* Every action is such a step.                                            *)
(***************************************************************************)
LEMMA StartShutdownStep ==
  ASSUME TypeOK, NEW n \in Node, NEW t \in Tcb, NEW done, Calm(tcb[n], t),
         tcb[n].state # "CLOSED", StartShutdown(n, t, done), Grow,
         dlv' = dlv, ended' = ended
  PROVE  StepOf(n)
<1> DEFINE v == [t EXCEPT !.pending = TRUE]
           g == StartGuard(v)
           s == ToShutdownSent(t)
<1>1. v \in Tcb /\ Calm(t, v)
  BY DEF Tcb, Calm, Keeps, CookieKept, SetupKept
<1> HIDE DEF v
<1>2. g \in Tcb /\ Calm(v, g)
  BY <1>1, TimerTypes, CalmTimers
<1>3. s \in Tcb /\ Calm(t, s)
  BY ToShutdownTypes, CalmShutdown
<1> HIDE DEF g, s
<1>4. Calm(tcb[n], g) /\ Calm(tcb[n], s)
  BY <1>1, <1>2, <1>3, CalmTrans
<1>5. Become(n, tcb[n], t) /\ Become(n, tcb[n], g) /\ Become(n, tcb[n], s)
  BY <1>4, CalmBecome
<1>6. /\ AllSent(n, tcb[n], t, {}) /\ AllSent(n, tcb[n], g, {})
      /\ AllSent(n, tcb[n], s, {Shutdown_(n, s)})
  BY PlainSent, SignalSent, CalmSelf DEF Calm
<1>7. \/ Output(n, g, {}) \/ Output(n, t, {}) \/ Output(n, s, {Shutdown_(n, s)})
  BY DEF StartShutdown, v, g, s
<1> QED
  BY <1>2, <1>3, <1>5, <1>6, <1>7, OutputStep

LEMMA UserStep ==
  ASSUME TypeOK, NEW n \in Node, User(n) \/ SendFinish(n)
  PROVE  StepOf(n)
<1> DEFINE t == tcb[n]
<1>1. t \in Tcb /\ tags[n] \in Nat /\ tcbs[n] \in Nat
  BY DEF TypeOK
<1>2. \A u : AllSent(n, t, u, {})
  BY PlainSent
<1>3. CASE Connect(n)
  <2> DEFINE v == [NewTcb(tags[n] + 1, tcbs[n] + 1) EXCEPT
                     !.state = "COOKIE_WAIT"]
             u == sctp_timer_start(v, "INIT")
  <2>1. Grow
    BY <1>3, StillGrow DEF Connect
  <2>2. /\ Connects(n, u) /\ u.state = "COOKIE_WAIT" /\ u.rxt = "INIT"
        /\ u.cookie = NoCookie
    <3>1. tags'[n] = tags[n] + 1 /\ tcbs'[n] = tcbs[n] + 1
      BY <1>3 DEF Connect, TypeOK
    <3> QED
      BY <3>1 DEF Connects, Blank, sctp_timer_start, NewTcb, Closed
  <2>3. Put(n, u, {Init_(n, u)}) /\ dlv' = dlv /\ ended' = ended
    BY <1>3 DEF Connect
  <2> HIDE DEF u
  <2>4. Moves(n, t, u)
    <3>1. From(n, t, u)
      BY <2>2 DEF From
    <3>2. Keeps(u, u)
      BY DEF Keeps
    <3> QED
      BY <2>3, <3>1, <3>2 DEF Moves
  <2>5. SetupOf(t, u) /\ WaitOf(n, t, u) /\ CookieOf(n, t, u)
    BY <2>2 DEF Connects, Blank, SetupOf, WaitOf, CookieOf, CookieKept
  <2>6. Become(n, t, u)
    BY <2>4, <2>5 DEF Become
  <2>7. AllSent(n, t, u, {Init_(n, u)})
    BY SignalSent DEF Keeps
  <2> QED
    BY <2>1, <2>3, <2>6, <2>7, PutStep
<1>4. CASE SendStart(n)
  <2> DEFINE u == [t EXCEPT !.sending = TRUE]
  <2>1. Calm(t, u) /\ u.state = t.state
    BY <1>1 DEF Calm, Keeps, CookieKept, SetupKept, Tcb
  <2>2. Put(n, u, {}) /\ dlv' = dlv /\ ended' = ended
    BY <1>4 DEF SendStart
  <2> HIDE DEF u
  <2>3. Become(n, t, u)
    BY <2>1, <2>2, CalmBecome
  <2>4. Grow
    BY <1>4, StillGrow DEF SendStart
  <2> QED
    BY <1>2, <2>2, <2>3, <2>4, PutStep
<1>5. CASE SendFinish(n)
  <2> DEFINE u == [t EXCEPT !.sending = FALSE, !.out = @ + 1,
                            !.late = @ \/ t.state \in SentStates]
  <2>1. t.out + 1 \in 0 .. MaxMsgs
    BY <1>1, <1>5, Bounds DEF SendFinish, Tcb
  <2>2. u \in Tcb
    BY <1>1, <2>1 DEF Tcb
  <2>3. /\ Queues(t, u) /\ u.state = t.state /\ u.rxt = t.rxt
        /\ u.cookie = t.cookie
    BY <1>1 DEF Queues, Tcb
  <2>4. Output(n, u, {}) /\ dlv' = dlv /\ ended' = ended
    BY <1>5 DEF SendFinish
  <2> HIDE DEF u
  <2>5. Moves(n, t, u)
    <3>1. CASE t.state = "CLOSED"
      BY <3>1, <2>3, <2>4 DEF Moves
    <3>2. CASE t.state # "CLOSED"
      <4>1. From(n, t, u) /\ Keeps(u, u)
        BY <3>2, <2>3 DEF From, Keeps
      <4> QED
        BY <2>4, <4>1 DEF Moves
    <3> QED
      BY <3>1, <3>2
  <2>6. SetupOf(t, u) /\ WaitOf(n, t, u) /\ CookieOf(n, t, u)
    BY <2>3 DEF Queues, SetupOf, WaitOf, CookieOf, CookieKept
  <2>7. Become(n, t, u)
    BY <2>5, <2>6 DEF Become
  <2>8. Grow
    BY <1>5, StillGrow DEF SendFinish
  <2> QED
    BY <1>2, <2>2, <2>4, <2>7, <2>8, OutputStep
<1>6. CASE UserShutdown(n)
  <2>1. Grow
    BY <1>6, StillGrow DEF UserShutdown
  <2> QED
    BY <2>1, <1>1, <1>6, CalmSelf, StartShutdownStep DEF UserShutdown
<1>7. CASE UserClose(n)
  <2> DEFINE u == [t EXCEPT !.sock = FALSE]
  <2>1. Grow
    BY <1>7, StillGrow DEF UserClose
  <2>2. u \in Tcb /\ Calm(t, u)
    BY <1>1 DEF Tcb, Calm, Keeps, CookieKept, SetupKept
  <2>3. /\ t.state # "CLOSED" /\ dlv' = dlv /\ ended' = ended
        /\ \/ sctp_free_assoc(n, {}) \/ sctp_abort_an_association(n, t)
           \/ StartShutdown(n, u, {"SHUTDOWN_SENT", "SHUTDOWN_ACK_SENT"})
    BY <1>7 DEF UserClose
  <2> HIDE DEF u
  <2> QED
    BY <2>1, <2>2, <2>3, FreeStep, AbortStep, StartShutdownStep, PlainSent
<1>8. CASE UserAbort(n)
  <2>1. Grow
    BY <1>8, StillGrow DEF UserAbort
  <2>2. /\ dlv' = dlv /\ ended' = ended
        /\ sctp_free_assoc(n, {}) \/ sctp_abort_an_association(n, t)
    BY <1>8 DEF UserAbort
  <2> QED
    BY <2>1, <2>2, FreeStep, AbortStep, PlainSent
<1>9. CASE Reboot(n)
  <2>1. Grow
    BY <1>9, StillGrow DEF Reboot
  <2> QED
    BY <2>1, <1>9, FreeStep, PlainSent DEF Reboot
<1> QED
  BY <1>3, <1>4, <1>5, <1>6, <1>7, <1>8, <1>9 DEF User

LEMMA TimerStep ==
  ASSUME TypeOK, NEW n \in Node, Timer(n)
  PROVE  StepOf(n)
<1> DEFINE t == tcb[n]
<1>1. t \in Tcb
  BY DEF TypeOK
<1>2. dlv' = dlv /\ ended' = ended /\ tags' = tags /\ tcbs' = tcbs
  BY DEF Timer, InitTimer, CookieTimer, ShutdownTimer, ShutdownAckTimer,
         T3Timer, GuardTimer
<1>3. Grow
  BY <1>2, StillGrow
<1>4. sctp_abort_an_association(n, t) => StepOf(n)
  BY <1>2, <1>3, AbortStep
<1>5. ASSUME Put(n, Expired(t), {}), t.state # "COOKIE_WAIT" \/ t.rxt # "INIT"
      PROVE  StepOf(n)
  <2> DEFINE u == Expired(t)
  <2>1. /\ Keeps(t, u) /\ CookieKept(t, u) /\ u.state = t.state
        /\ t.rxt # "INIT" => Calm(t, u)
    BY <1>1, CalmExpiry
  <2>2. Put(n, u, {})
    BY <1>5
  <2> HIDE DEF u
  <2>3. Become(n, t, u)
    <3>1. CASE t.rxt # "INIT"
      BY <3>1, <2>1, <1>2, CalmBecome
    <3>2. CASE t.rxt = "INIT"
      <4>1. Moves(n, t, u)
        <5>1. CASE t.state = "CLOSED"
          BY <5>1, <2>1, <1>2 DEF Moves, Keeps, Queues
        <5>2. CASE t.state # "CLOSED"
          BY <5>2, <2>1, <1>2, CalmSelf DEF Moves, From, Calm
        <5> QED
          BY <5>1, <5>2
      <4>2. SetupOf(t, u) /\ WaitOf(n, t, u) /\ CookieOf(n, t, u)
        BY <1>5, <3>2, <2>1 DEF SetupOf, WaitOf, CookieOf, Keeps
      <4> QED
        BY <4>1, <4>2 DEF Become
    <3> QED
      BY <3>1, <3>2
  <2> QED
    BY <2>2, <2>3, <1>3, PutStep, PlainSent
<1>6. ASSUME NEW max, NEW type \in RxtType, NEW ps,
             t.rxt = "INIT" => type = "INIT",
             \A u : Keeps(t, u) /\ u.cookie = t.cookie /\ u.rxt = type
                    => AllSent(n, t, u, ps),
             CountOrAbort(n, max, type, ps)
      PROVE  StepOf(n)
  <2> DEFINE u == sctp_timer_start(Counted(t), type)
  <2>1. /\ Keeps(t, u) /\ CookieKept(t, u) /\ u.state = t.state
        /\ u.rxt = type /\ u.cookie = t.cookie
    BY <1>1, CalmExpiry
  <2>2. u \in Tcb
    BY <1>1, CountedType, TimerTypes
  <2>3. sctp_abort_an_association(n, t) \/ Output(n, u, ps)
    BY <1>6 DEF CountOrAbort
  <2> HIDE DEF u
  <2>4. Calm(t, u)
    BY <1>6, <2>1 DEF Calm, SetupKept
  <2>5. Become(n, t, u)
    BY <2>1, <2>4, <1>2, CalmBecome
  <2> QED
    BY <1>3, <1>4, <1>6, <2>1, <2>2, <2>3, <2>5, OutputStep
<1>7. CASE InitTimer(n)
  <2>1. \A u : Keeps(t, u) => AllSent(n, t, u, {Init_(n, t)})
    BY SignalSent
  <2>2. \/ t.state # "COOKIE_WAIT" /\ Put(n, Expired(t), {})
        \/ CountOrAbort(n, MaxInitTimes, "INIT", {Init_(n, t)})
    BY <1>7 DEF InitTimer
  <2> QED
    BY <1>5, <1>6, <2>1, <2>2 DEF RxtType
<1>8. CASE CookieTimer(n)
  <2>1. ASSUME NEW u, Keeps(t, u), u.cookie = t.cookie, u.rxt = "COOKIE"
        PROVE  AllSent(n, t, u, {CookieEcho(n, t, 0)})
    BY <2>1, EchoSent
  <2>2. /\ t.rxt = "COOKIE"
        /\ \/ Put(n, Expired(t), {}) \/ sctp_abort_an_association(n, t)
           \/ CountOrAbort(n, MaxInitTimes, "COOKIE", {CookieEcho(n, t, 0)})
    BY <1>8 DEF CookieTimer
  <2>3. CASE CountOrAbort(n, MaxInitTimes, "COOKIE", {CookieEcho(n, t, 0)})
    BY <2>1, <2>2, <2>3, <1>6 DEF RxtType
  <2> QED
    BY <1>4, <1>5, <2>2, <2>3
<1>9. CASE ShutdownTimer(n)
  <2>1. \A u : Keeps(t, u) => AllSent(n, t, u, {Shutdown_(n, t)})
    BY SignalSent
  <2> QED
    BY <1>6, <1>9, <2>1 DEF ShutdownTimer, RxtType
<1>10. CASE ShutdownAckTimer(n)
  <2>1. \A u : AllSent(n, t, u, {Chunk(n, t, "SHUTDOWN_ACK")})
    BY PlainSent DEF Plain
  <2> QED
    BY <1>6, <1>10, <2>1 DEF ShutdownAckTimer, RxtType
<1>11. CASE T3Timer(n)
  <2> DEFINE u == Counted(t)
  <2>1. /\ t.rxt = "SEND"
        /\ sctp_abort_an_association(n, t) \/ Output(n, u, {})
    BY <1>11 DEF T3Timer
  <2>2. u \in Tcb /\ u.state = t.state /\ (t.rxt # "INIT" => Calm(t, u))
    BY <1>1, CountedType, CalmExpiry
  <2> HIDE DEF u
  <2>3. Become(n, t, u)
    BY <2>1, <2>2, <1>2, CalmBecome
  <2> QED
    BY <1>3, <1>4, <2>1, <2>2, <2>3, OutputStep, PlainSent
<1>12. CASE GuardTimer(n)
  BY <1>4, <1>12 DEF GuardTimer
<1> QED
  BY <1>7, <1>8, <1>9, <1>10, <1>11, <1>12 DEF Timer

LEMMA FromKeeps ==
  ASSUME NEW n, NEW t, NEW w, NEW u, From(n, t, w), Keeps(w, u)
  PROVE  From(n, t, u)
<1>1. Connects(n, w) => Connects(n, u)
  BY DEF Keeps, Connects, Blank
<1>2. Keeps(t, w) => Keeps(t, u)
  BY KeepsTrans
<1>3. Queues(t, w) => Queues(t, u)
  BY DEF Keeps, Queues
<1>4. Acks(n, t, w) => Acks(n, t, u)
  BY DEF Keeps, Acks
<1>5. \A tag, seq : Adopts(t, w, tag, seq) => Adopts(t, u, tag, seq)
  BY DEF Keeps, Adopts
<1>6. Echoes(n, t, w) => Echoes(n, t, u)
  BY <1>5 DEF Echoes
<1>7. \A c : Accepts(n, w, c) => Accepts(n, u, c)
  BY DEF Keeps, Accepts, Blank
<1>8. \A c : Restarts(n, t, w, c) => Restarts(n, t, u, c)
  BY DEF Keeps, Restarts
<1>9. \A c : CookieMoves(n, t, w, c) => CookieMoves(n, t, u, c)
  BY <1>5, <1>7, <1>8 DEF CookieMoves
<1>10. Clears(t, w) => Clears(t, u)
  BY DEF Keeps, Clears
<1> QED
  BY <1>1, <1>2, <1>3, <1>4, <1>6, <1>9, <1>10 DEF From

(* DATA that is taken: marked and handed up, or the association is aborted. *)
LEMMA ReceiveDataStep ==
  ASSUME TypeOK, NEW n \in Node, NEW w \in Tcb, NEW seq \in Nat,
         NEW ks \in SUBSET (0 .. MaxMsgs), NEW ps,
         From(n, tcb[n], w), w.state \notin FrontState,
         CookieKept(tcb[n], w), \A u : AllSent(n, tcb[n], u, ps),
         ReceiveData(n, w, seq, ks, ps), Grow, ended' = ended
  PROVE  StepOf(n)
<1> DEFINE new == Fresh(w, seq, ks)
           u == sctp_process_data(w, seq, ks)
           T == tcb[n]
<1>1. u \in Tcb /\ new \in SUBSET (1 .. MaxMsgs)
  BY ProcessDataType
<1>2. /\ u.map = w.map \cup new /\ u.state = w.state /\ u.cookie = w.cookie
      /\ u.rcum = sctp_slide_mapping_arrays(u.map)
  <2> DEFINE mm == w.map \cup new
             k == sctp_slide_mapping_arrays(mm)
             x == [w EXCEPT !.map = mm, !.rcum = k,
                            !.err = IF new = {} THEN @ ELSE 0]
  <2> HIDE DEF new, mm, k
  <2>1. x.map = mm /\ x.rcum = k /\ x.state = w.state /\ x.cookie = w.cookie
    BY DEF Tcb
  <2>2. u = x
    BY DEF sctp_process_data, new, mm, k
  <2> QED
    BY <2>1, <2>2 DEF mm, k
<1>3. /\ u.my_vtag = w.my_vtag /\ u.peer_vtag = w.peer_vtag
      /\ u.nonce = w.nonce /\ u.init_seq = w.init_seq
      /\ u.peer_seq = w.peer_seq
      /\ u.out = w.out /\ u.acked = w.acked /\ u.late = w.late
  BY DEF sctp_process_data, Tcb
<1>4. 1 .. u.rcum \subseteq u.map
  <2>1. w.map \in SUBSET (1 .. MaxMsgs)
    BY DEF Tcb
  <2>2. u.map \in SUBSET (1 .. MaxMsgs)
    BY <1>1, <1>2, <2>1
  <2> QED
    BY <1>2, <2>2, SlideDefined
<1>5. new # {} => seq = w.peer_seq
  BY DEF Fresh
<1>6. CASE sctp_abort_an_association(n, w) /\ UNCHANGED dlv
  BY <1>6, AbortStep
<1>7. CASE /\ Output(n, u, ps \cup sctp_sack_check(n, u))
           /\ dlv' = dlv \cup {[at |-> n, nonce |-> w.nonce,
                                seq |-> seq, num |-> k] : k \in new}
  <2>1. dlv' = dlv \cup {[at |-> n, nonce |-> w.nonce,
                          seq |-> w.peer_seq, num |-> k] : k \in new}
    BY <1>5, <1>7
  <2> HIDE DEF new, u
  <2>2. Receives(n, w, u)
    BY <1>1, <1>2, <1>3, <1>4, <2>1 DEF Receives
  <2>3. Moves(n, T, u)
    BY <2>2 DEF Moves
  <2>4. u.state \notin FrontState /\ u.state # "COOKIE_WAIT"
    BY <1>2 DEF FrontState
  <2>5. CookieKept(T, u)
    BY <1>2 DEF CookieKept
  <2>6. Become(n, T, u)
    BY <2>3, <2>4, <2>5 DEF Become, SetupOf, WaitOf, CookieOf
  <2>7. AllSent(n, T, u, sctp_sack_check(n, u))
    <3>1. Keeps(u, u)
      BY DEF Keeps
    <3>2. AllSent(n, T, u, {Sack(n, u)}) /\ AllSent(n, T, u, {Shutdown_(n, u)})
      BY <3>1, SignalSent
    <3>3. AllSent(n, T, u, {})
      BY PlainSent
    <3> QED
      BY <3>2, <3>3, AllSentUnion DEF sctp_sack_check
  <2>8. AllSent(n, T, u, ps \cup sctp_sack_check(n, u))
    BY <2>7, AllSentUnion
  <2> QED
    BY <1>1, <1>7, <2>6, <2>8, OutputStep
<1> QED
  BY <1>6, <1>7 DEF ReceiveData

(* A cookie that is accepted: w is the TCB it made or changed. *)
LEMMA AckCookieStep ==
  ASSUME TypeOK, NEW n \in Node, NEW m \in net, NEW w \in Tcb,
         m.type = "COOKIE_ECHO", m.to = n,
         From(n, tcb[n], w) \/ (tcb[n].state # "CLOSED" /\ w = tcb[n]),
         w.peer_vtag = m.cookie.peer, w.state \notin FrontState,
         AckCookie(n, w, m), Grow, ended' = ended
  PROVE  StepOf(n)
<1> DEFINE T == tcb[n]
           u == sctp_toss_old_cookies(sctp_stop_all_cookie_timers(w))
           ack == {Chunk(n, u, "COOKIE_ACK")}
<1>1. u \in Tcb /\ Keeps(w, u) /\ u.cookie = NoCookie /\ u.state = w.state
  BY KeepsToss
<1>2. /\ \/ ReceiveData(n, u, m.seq, 1 .. m.num, ack)
         \/ Output(n, u, ack) /\ dlv' = dlv
  BY DEF AckCookie
<1> HIDE DEF u
<1>3. m.seq \in Nat /\ 1 .. m.num \in SUBSET (0 .. MaxMsgs)
  <2>1. m \in Packet
    BY DEF TypeOK
  <2>2. m.seq \in Nat /\ m.num \in 0 .. MaxMsgs
    BY <2>1 DEF Packet
  <2> QED
    BY <2>2, Bounds
<1>4. From(n, T, w)
  <2>1. Keeps(w, w)
    BY DEF Keeps
  <2> QED
    BY <2>1 DEF From
<1>5. From(n, T, u)
  BY <1>1, <1>4, FromKeeps
<1>6. u.peer_vtag = m.cookie.peer
  BY <1>1 DEF Keeps
<1>7. \A v : AllSent(n, T, v, ack)
  <2> DEFINE q == Chunk(n, u, "COOKIE_ACK")
  <2>1. /\ q.type = "COOKIE_ACK" /\ q.to = Peer(n) /\ q.vtag = m.cookie.peer
        /\ q.cookie = NoCookie
    BY <1>6, PacketFields DEF Chunk
  <2> HIDE DEF q
  <2>2. \A v : Sent(n, T, v, q)
    BY <2>1 DEF Sent
  <2> QED
    BY <2>2 DEF AllSent, q
<1>8. CookieKept(T, u)
  BY <1>1 DEF CookieKept
<1> HIDE DEF ack
<1>9. CASE ReceiveData(n, u, m.seq, 1 .. m.num, ack)
  BY <1>1, <1>3, <1>5, <1>7, <1>8, <1>9, ReceiveDataStep
<1>10. CASE Output(n, u, ack) /\ dlv' = dlv
  <2>1. Moves(n, T, u)
    BY <1>5, <1>10 DEF Moves, Keeps
  <2>2. u.state \notin FrontState /\ u.state # "COOKIE_WAIT"
    BY <1>1 DEF FrontState
  <2>3. Become(n, T, u)
    BY <2>1, <2>2, <1>8 DEF Become, SetupOf, WaitOf, CookieOf
  <2> QED
    BY <1>1, <1>7, <1>10, <2>3, OutputStep
<1> QED
  BY <1>2, <1>9, <1>10

LEMMA AdoptsInit ==
  ASSUME NEW t \in Tcb, NEW tag, NEW seq
  PROVE  /\ Adopts(t, sctp_process_init(t, tag, seq), tag, seq)
         /\ sctp_process_init(t, tag, seq).state = t.state
         /\ sctp_process_init(t, tag, seq).cookie = t.cookie
  BY DEF Adopts, sctp_process_init, Tcb

LEMMA AdoptsKeeps ==
  ASSUME NEW t, NEW s, NEW v, NEW u, NEW tag, NEW seq,
         Keeps(t, s), Adopts(s, v, tag, seq), Keeps(v, u)
  PROVE  Adopts(t, u, tag, seq)
  BY DEF Keeps, Adopts

LEMMA OpenState ==
  ASSUME NEW t \in Tcb
  PROVE  /\ MoveToOpen(t).state = "OPEN"
         /\ Keeps(t, MoveToOpen(t)) /\ MoveToOpen(t) \in Tcb
<1>1. MoveToOpen(t).state = "OPEN"
  BY DEF MoveToOpen, Tcb
<1> QED
  BY <1>1, CalmTimers, TimerTypes DEF Calm

(* The two halves of a restart. *)
LEMMA BeginMoves ==
  ASSUME NEW t \in Tcb, t.state # "CLOSED"
  PROVE  LET b == RestartBegin(t) IN
         /\ b \in Tcb /\ b.state \in {"OPEN", "SHUTDOWN_SENT"}
         /\ b.map = {} /\ b.cookie = t.cookie
         /\ b.my_vtag = t.my_vtag /\ b.peer_vtag = t.peer_vtag
         /\ b.nonce = t.nonce /\ b.init_seq = t.init_seq
         /\ b.peer_seq = t.peer_seq /\ b.out = t.out /\ b.acked = t.acked
         /\ b.late = t.late /\ b.rcum = t.rcum
<1> DEFINE s == sctp_timer_stop(t, "INIT")
           o == MoveToOpen(s)
           v == IF t.pending \/ t.state # "SHUTDOWN_SENT" THEN o ELSE s
           b == [v EXCEPT !.map = {}]
<1>1. s \in Tcb /\ Keeps(t, s) /\ s.state = t.state /\ s.cookie = t.cookie
  <2>1. s.cookie = t.cookie
    BY DEF sctp_timer_stop, Tcb
  <2> QED
    BY <2>1, TimerTypes, CalmTimers DEF RxtType
<1> HIDE DEF s
<1>2. o \in Tcb /\ Keeps(t, o) /\ o.state = "OPEN" /\ o.cookie = t.cookie
  <2>1. o.cookie = s.cookie
    BY <1>1 DEF MoveToOpen, Tcb
  <2> QED
    BY <1>1, <2>1, OpenState, KeepsTrans
<1> HIDE DEF o
<1>3. /\ v \in Tcb /\ Keeps(t, v) /\ v.cookie = t.cookie
      /\ v.state \in {"OPEN", "SHUTDOWN_SENT"}
  BY <1>1, <1>2
<1>4. RestartBegin(t) = b
  BY DEF RestartBegin, s, o
<1> HIDE DEF v
<1>5. /\ b \in Tcb /\ b.state = v.state /\ b.map = {} /\ b.cookie = v.cookie
      /\ b.my_vtag = v.my_vtag /\ b.peer_vtag = v.peer_vtag
      /\ b.nonce = v.nonce /\ b.init_seq = v.init_seq
      /\ b.peer_seq = v.peer_seq /\ b.out = v.out /\ b.acked = v.acked
      /\ b.late = v.late /\ b.rcum = v.rcum
  BY <1>3 DEF Tcb
<1> HIDE DEF b
<1> QED
  BY <1>3, <1>4, <1>5 DEF Keeps

LEMMA EndMoves ==
  ASSUME NEW t \in Tcb, NEW c \in Cookie
  PROVE  LET w == RestartEnd(t, c) IN
         /\ w \in Tcb /\ w.state = t.state /\ w.map = t.map
         /\ w.nonce = t.nonce /\ w.my_vtag = c.my /\ w.init_seq = c.myseq
         /\ w.peer_vtag = c.peer /\ w.peer_seq = c.peerseq
         /\ w.out = 0 /\ w.acked = 0 /\ w.late = FALSE /\ w.rcum = 0
<1> DEFINE v == [t EXCEPT !.my_vtag = c.my, !.init_seq = c.myseq,
                          !.out = 0, !.acked = 0, !.late = FALSE]
           w == sctp_process_init(v, c.peer, c.peerseq)
<1>1. c.my \in Nat /\ c.peer \in Nat /\ c.myseq \in Nat /\ c.peerseq \in Nat
  BY DEF Cookie
<1>2. v \in Tcb
  BY <1>1, ZeroInRange DEF Tcb
<1>3. /\ v.my_vtag = c.my /\ v.init_seq = c.myseq /\ v.out = 0
      /\ v.acked = 0 /\ v.late = FALSE /\ v.map = t.map
      /\ v.nonce = t.nonce /\ v.state = t.state
  BY DEF Tcb
<1>4. RestartEnd(t, c) = w
  BY DEF RestartEnd
<1> HIDE DEF v
<1>5. w \in Tcb /\ Adopts(v, w, c.peer, c.peerseq) /\ w.state = v.state
  BY <1>1, <1>2, ProcessInitType, AdoptsInit
<1> HIDE DEF w
<1> QED
  BY <1>3, <1>4, <1>5 DEF Adopts

(* The three ways sctp_process_cookie_existing changes a TCB. *)
LEMMA CookieCaseMoves ==
  ASSUME NEW n, NEW t \in Tcb, NEW c \in Cookie, t.state # "CLOSED"
  PROVE  /\ CookieCaseD(t, c) =>
              /\ \/ CookieMoves(n, t, CookieD(t, c), c)
                 \/ CookieD(t, c) = t
              /\ CookieD(t, c).peer_vtag = c.peer
              /\ CookieD(t, c).state \notin FrontState
         /\ CookieCaseB(t, c) =>
              /\ CookieMoves(n, t, CookieB(t, c), c)
              /\ CookieB(t, c).peer_vtag = c.peer
              /\ CookieB(t, c).state \notin FrontState
         /\ CookieCaseA(t, c) =>
              /\ CookieMoves(n, t, CookieA(t, c), c)
              /\ CookieA(t, c).peer_vtag = c.peer
              /\ CookieA(t, c).state \notin FrontState
<1>1. c.my \in Nat /\ c.peer \in Nat /\ c.myseq \in Nat /\ c.peerseq \in Nat
  BY DEF Cookie
<1>2. "OPEN" \notin FrontState /\ "SHUTDOWN_SENT" \notin FrontState
  BY DEF FrontState
<1> DEFINE s == sctp_timer_stop(t, "INIT")
<1>3. s \in Tcb /\ Keeps(t, s) /\ s.state = t.state
  BY TimerTypes, CalmTimers DEF RxtType
<1> HIDE DEF s
<1>4. ASSUME CookieCaseD(t, c)
      PROVE  /\ CookieMoves(n, t, CookieD(t, c), c) \/ CookieD(t, c) = t
             /\ CookieD(t, c).peer_vtag = c.peer
             /\ CookieD(t, c).state \notin FrontState
  <2>1. CASE t.state \in FrontState
    <3> DEFINE v == sctp_process_init(s, c.peer, c.peerseq)
               u == MoveToOpen(v)
    <3>1. v \in Tcb /\ Adopts(s, v, c.peer, c.peerseq)
      BY <1>1, <1>3, ProcessInitType, AdoptsInit
    <3> HIDE DEF v
    <3>2. u.state = "OPEN" /\ Keeps(v, u)
      BY <3>1, OpenState
    <3>3. CookieD(t, c) = u
      BY <2>1 DEF CookieD, u, v, s
    <3> HIDE DEF u
    <3>4. Adopts(t, u, c.peer, c.peerseq)
      BY <1>3, <3>1, <3>2, AdoptsKeeps
    <3> QED
      BY <1>2, <2>1, <3>2, <3>3, <3>4 DEF CookieMoves, Adopts
  <2>2. CASE t.state \notin FrontState
    BY <1>4, <2>2 DEF CookieD, CookieCaseD, PeerTagSame
  <2> QED
    BY <2>1, <2>2
<1>5. ASSUME CookieCaseB(t, c)
      PROVE  /\ CookieMoves(n, t, CookieB(t, c), c)
             /\ CookieB(t, c).peer_vtag = c.peer
             /\ CookieB(t, c).state \notin FrontState
  <2> DEFINE x == sctp_stop_all_cookie_timers(t)
             v == sctp_process_init(x, c.peer, c.peerseq)
             u == MoveToOpen(v)
  <2>1. x \in Tcb /\ Keeps(t, x)
    BY StopAllType, KeepsStopAll
  <2> HIDE DEF x
  <2>2. v \in Tcb /\ Adopts(x, v, c.peer, c.peerseq)
    BY <1>1, <2>1, ProcessInitType, AdoptsInit
  <2> HIDE DEF v
  <2>3. u.state = "OPEN" /\ Keeps(v, u)
    BY <2>2, OpenState
  <2>4. CookieB(t, c) = u
    BY DEF CookieB, u, v, x
  <2> HIDE DEF u
  <2>5. Adopts(t, u, c.peer, c.peerseq)
    BY <2>1, <2>2, <2>3, AdoptsKeeps
  <2>6. c.peer # t.peer_vtag
    BY <1>5 DEF CookieCaseB, PeerTagSame
  <2> QED
    BY <1>2, <2>3, <2>4, <2>5, <2>6 DEF CookieMoves, Adopts
<1>6. ASSUME CookieCaseA(t, c)
      PROVE  /\ CookieMoves(n, t, CookieA(t, c), c)
             /\ CookieA(t, c).peer_vtag = c.peer
             /\ CookieA(t, c).state \notin FrontState
  <2> DEFINE b == RestartBegin(t)
  <2>1. b \in Tcb /\ b.state \notin FrontState /\ b.nonce = t.nonce /\ b.map = {}
    BY <1>2, BeginMoves
  <2>2. CookieA(t, c) = RestartEnd(b, c)
    BY DEF CookieA
  <2> HIDE DEF b
  <2>3. Restarts(n, t, RestartEnd(b, c), c)
    BY <1>6, <2>1, EndMoves DEF Restarts, CookieCaseA, MyTagSame, PeerTagSame
  <2>4. /\ RestartEnd(b, c).state = b.state
        /\ RestartEnd(b, c).peer_vtag = c.peer
    BY <2>1, EndMoves
  <2>5. CookieMoves(n, t, CookieA(t, c), c)
    BY <2>2, <2>3 DEF CookieMoves
  <2> QED
    BY <2>1, <2>2, <2>4, <2>5
<1> QED
  BY <1>4, <1>5, <1>6

LEMMA InitAckSent ==
  ASSUME NEW n \in Node, NEW t, NEW u, NEW m \in net, NEW tag,
         m.type = "INIT", m.to = n, OwnTag(n, t, tag)
  PROVE  AllSent(n, t, u, {InitAck(n, m, tag)})
<1> DEFINE q == InitAck(n, m, tag)
<1>1. /\ q.type = "INIT_ACK" /\ q.to = Peer(n) /\ q.tag = tag /\ q.seq = tag
      /\ q.vtag = m.tag /\ q.cookie.my = tag /\ q.cookie.myseq = tag
      /\ q.cookie.peer = m.tag /\ q.cookie.peerseq = m.seq
  BY DEF InitAck, Pkt
<1> HIDE DEF q
<1>2. Sent(n, t, u, q)
  BY <1>1 DEF Sent
<1> QED
  BY <1>2 DEF AllSent, q

LEMMA HandleInitStep ==
  ASSUME TypeOK, NEW n \in Node, NEW m \in net, HandleInit(n, m)
  PROVE  StepOf(n)
<1> DEFINE t == tcb[n]
<1>1. t \in Tcb
  BY DEF TypeOK
<1>2. Grow /\ dlv' = dlv /\ ended' = ended
  BY StillGrow DEF HandleInit
<1>3. Become(n, t, t)
  BY <1>2, CalmSelf, CalmBecome
<1>4. \A ps : AllSent(n, t, t, ps) /\ (Put(n, t, ps) \/ Output(n, t, ps))
              => StepOf(n)
  BY <1>1, <1>2, <1>3, PutStep, OutputStep
<1>5. CASE Put(n, t, {Pkt("ABORT", Peer(n), m.tag)})
  BY <1>4, <1>5, PlainSent DEF Plain
<1>6. CASE Output(n, t, {Chunk(n, t, "SHUTDOWN_ACK")})
  BY <1>4, <1>6, PlainSent DEF Plain
<1>7. m.type = "INIT" /\ m.to = n
  BY DEF HandleInit
<1>8. CASE t.state \in FrontState /\ Put(n, t, {InitAck(n, m, t.my_vtag)})
  <2>1. OwnTag(n, t, t.my_vtag)
    BY <1>8 DEF OwnTag
  <2> QED
    BY <1>4, <1>7, <1>8, <2>1, InitAckSent
<1>9. CASE /\ Put(n, t, {InitAck(n, m, tags[n] + 1)})
           /\ tags' = [tags EXCEPT ![n] = @ + 1]
  <2>1. tags'[n] = tags[n] + 1
    BY <1>9 DEF TypeOK
  <2>2. OwnTag(n, t, tags[n] + 1)
    BY <2>1 DEF OwnTag
  <2> QED
    BY <1>4, <1>7, <1>9, <2>2, InitAckSent
<1> QED
  BY <1>5, <1>6, <1>8, <1>9 DEF HandleInit

LEMMA HandleInitAckStep ==
  ASSUME TypeOK, NEW n \in Node, NEW m \in net, HandleInitAck(n, m)
  PROVE  StepOf(n)
<1> DEFINE t == tcb[n]
           s == sctp_timer_stop(t, "INIT")
           u == sctp_process_init(s, m.tag, m.seq)
           w == [u EXCEPT !.state = "COOKIE_ECHOED", !.err = 0,
                          !.cookie = m.cookie]
           v == sctp_timer_start(w, "COOKIE")
<1>1. t \in Tcb /\ m \in Packet
  BY DEF TypeOK
<1>2. m.tag \in Nat /\ m.seq \in Nat /\ m.cookie \in Cookie
  BY <1>1 DEF Packet
<1>3. Grow /\ dlv' = dlv /\ ended' = ended
  BY StillGrow DEF HandleInitAck
<1>4. s \in Tcb /\ Keeps(t, s)
  BY <1>1, TimerTypes, CalmTimers DEF RxtType
<1>5. m.type = "INIT_ACK" /\ m.to = n
  BY DEF HandleInitAck
<1>6. \/ sctp_free_assoc(n, {})
      \/ t.state = "COOKIE_WAIT" /\ Output(n, v, {CookieEcho(n, v, v.out)})
  BY DEF HandleInitAck
<1>7. CASE sctp_free_assoc(n, {})
  BY <1>3, <1>7, FreeStep, PlainSent
<1> HIDE DEF s
<1>8. u \in Tcb /\ Adopts(s, u, m.tag, m.seq)
  BY <1>2, <1>4, ProcessInitType, AdoptsInit
<1> HIDE DEF u
<1>9. w \in Tcb
  BY <1>2, <1>8 DEF Tcb, State, FrontState
<1>10. Keeps(u, w) /\ w.state = "COOKIE_ECHOED" /\ w.cookie = m.cookie
  BY <1>8 DEF Tcb, Keeps
<1> HIDE DEF w
<1>11. v \in Tcb /\ Keeps(w, v)
  BY <1>9, TimerTypes, CalmTimers DEF RxtType, Calm
<1>12. v.state = w.state /\ v.cookie = w.cookie
  BY <1>9 DEF sctp_timer_start, Tcb
<1> HIDE DEF v
<1>13. CASE t.state = "COOKIE_WAIT" /\ Output(n, v, {CookieEcho(n, v, v.out)})
  <2>1. Adopts(t, v, m.tag, m.seq)
    BY <1>4, <1>8, <1>10, <1>11, KeepsTrans, AdoptsKeeps
  <2>2. From(n, t, v)
    BY <1>5, <1>13, <2>1 DEF From, Echoes
  <2>3. Moves(n, t, v)
    BY <1>3, <2>2 DEF Moves, Keeps
  <2>4. SetupOf(t, v)
    BY <1>13, <2>1 DEF SetupOf, Adopts, FrontState
  <2>5. WaitOf(n, t, v)
    BY <1>10, <1>12 DEF WaitOf
  <2>6. CookieOf(n, t, v)
    BY <1>5, <1>10, <1>12 DEF CookieOf
  <2>7. Become(n, t, v)
    BY <2>3, <2>4, <2>5, <2>6 DEF Become
  <2>8. AllSent(n, t, v, {CookieEcho(n, v, v.out)})
    BY <1>10, <1>12, EchoSent
  <2> QED
    BY <1>3, <1>11, <1>13, <2>7, <2>8, OutputStep
<1> QED
  BY <1>6, <1>7, <1>13

LEMMA HandleCookieEchoStep ==
  ASSUME TypeOK, NEW n \in Node, NEW m \in net, HandleCookieEcho(n, m)
  PROVE  StepOf(n)
<1> DEFINE t == tcb[n]
           c == m.cookie
<1>1. t \in Tcb /\ m \in Packet
  BY DEF TypeOK
<1>2. c \in Cookie
  BY <1>1 DEF Packet
<1>3. /\ c.my \in Nat /\ c.peer \in Nat /\ c.myseq \in Nat
      /\ c.peerseq \in Nat /\ tcbs[n] + 1 \in Nat
  BY <1>2 DEF Cookie, TypeOK
<1>4. Grow /\ ended' = ended
  BY StillGrow DEF HandleCookieEcho
<1>5. m.type = "COOKIE_ECHO" /\ m.to = n
  BY DEF HandleCookieEcho
<1>6. ASSUME NEW w \in Tcb, AckCookie(n, w, m),
             CookieMoves(n, t, w, c) \/ (t.state # "CLOSED" /\ w = t),
             w.peer_vtag = c.peer, w.state \notin FrontState
      PROVE  StepOf(n)
  <2>1. From(n, t, w) \/ (t.state # "CLOSED" /\ w = t)
    BY <1>5, <1>6 DEF From
  <2> QED
    BY <1>4, <1>5, <1>6, <2>1, AckCookieStep
<1> DEFINE k == NewTcb(c.my, tcbs[n] + 1)
           u == sctp_process_init(k, c.peer, c.peerseq)
           v == [u EXCEPT !.init_seq = c.myseq]
           w == MoveToOpen(v)
<1>7. CASE AckCookie(n, w, m) /\ tcbs' = [tcbs EXCEPT ![n] = @ + 1]
  <2>1. k \in Tcb
    BY <1>3, NewTcbType
  <2>2. /\ k.my_vtag = c.my /\ k.nonce = tcbs[n] + 1 /\ k.out = 0
        /\ k.acked = 0 /\ k.late = FALSE /\ k.map = {}
    BY DEF NewTcb, Closed
  <2> HIDE DEF k
  <2>3. u \in Tcb /\ Adopts(k, u, c.peer, c.peerseq)
    BY <1>3, <2>1, ProcessInitType, AdoptsInit
  <2> HIDE DEF u
  <2>4. v \in Tcb
    BY <1>3, <2>3 DEF Tcb
  <2>5. /\ v.my_vtag = u.my_vtag /\ v.init_seq = c.myseq /\ v.nonce = u.nonce
        /\ v.peer_vtag = u.peer_vtag /\ v.peer_seq = u.peer_seq
        /\ v.out = u.out /\ v.acked = u.acked /\ v.late = u.late
        /\ v.rcum = u.rcum /\ v.map = u.map
    BY <2>3 DEF Tcb
  <2> HIDE DEF v
  <2>6. w \in Tcb /\ Keeps(v, w) /\ w.state = "OPEN"
    BY <2>4, OpenState
  <2> HIDE DEF w
  <2>7. tcbs'[n] = tcbs[n] + 1
    BY <1>7 DEF TypeOK
  <2>8. Accepts(n, w, c)
    BY <2>2, <2>3, <2>5, <2>6, <2>7 DEF Accepts, Blank, Adopts, Keeps
  <2>9. w.state \notin FrontState /\ w.peer_vtag = c.peer
    BY <2>6, <2>8 DEF FrontState, Accepts
  <2> QED
    BY <1>6, <1>7, <2>6, <2>8, <2>9 DEF CookieMoves
<1>8. CASE t.state # "CLOSED" /\ sctp_process_cookie_existing(n, t, m)
  <2>1. CASE Output(n, t, {Chunk(n, t, "SHUTDOWN_ACK")}) /\ dlv' = dlv
    <3>1. Become(n, t, t)
      BY <1>4, <2>1, CalmSelf, CalmBecome
    <3>2. AllSent(n, t, t, {Chunk(n, t, "SHUTDOWN_ACK")})
      BY PlainSent DEF Plain
    <3> QED
      BY <1>1, <1>4, <2>1, <3>1, <3>2, OutputStep
  <2>2. /\ CookieD(t, c) \in Tcb /\ CookieB(t, c) \in Tcb
        /\ CookieA(t, c) \in Tcb
    BY <1>1, <1>2, CookieCaseTypes
  <2>3. CASE CookieCaseD(t, c) /\ AckCookie(n, CookieD(t, c), m)
    <3> DEFINE x == CookieD(t, c)
    <3>1. /\ CookieMoves(n, t, x, c) \/ x = t
          /\ x.peer_vtag = c.peer /\ x.state \notin FrontState
      BY <1>1, <1>2, <1>8, <2>3, CookieCaseMoves
    <3> QED
      BY <1>6, <1>8, <2>2, <2>3, <3>1
  <2>4. CASE CookieCaseB(t, c) /\ AckCookie(n, CookieB(t, c), m)
    <3> DEFINE x == CookieB(t, c)
    <3>1. /\ CookieMoves(n, t, x, c)
          /\ x.peer_vtag = c.peer /\ x.state \notin FrontState
      BY <1>1, <1>2, <1>8, <2>4, CookieCaseMoves
    <3> QED
      BY <1>6, <2>2, <2>4, <3>1
  <2>5. CASE CookieCaseA(t, c) /\ AckCookie(n, CookieA(t, c), m)
    <3> DEFINE x == CookieA(t, c)
    <3>1. /\ CookieMoves(n, t, x, c)
          /\ x.peer_vtag = c.peer /\ x.state \notin FrontState
      BY <1>1, <1>2, <1>8, <2>5, CookieCaseMoves
    <3> QED
      BY <1>6, <2>2, <2>5, <3>1
  <2> QED
    BY <1>8, <2>1, <2>3, <2>4, <2>5 DEF sctp_process_cookie_existing
<1>9. \/ AckCookie(n, w, m) /\ tcbs' = [tcbs EXCEPT ![n] = @ + 1]
      \/ t.state # "CLOSED" /\ sctp_process_cookie_existing(n, t, m)
  BY DEF HandleCookieEcho
<1> QED
  BY <1>7, <1>8, <1>9

LEMMA StaleStep ==
  ASSUME TypeOK, NEW n \in Node, NEW m \in net,
         StaleCookie(n, m) \/ HandleStale(n, m) \/ HandleCookieAck(n, m)
  PROVE  StepOf(n)
<1> DEFINE t == tcb[n]
<1>1. t \in Tcb
  BY DEF TypeOK
<1>2. Grow /\ dlv' = dlv /\ ended' = ended
  BY StillGrow DEF StaleCookie, HandleStale, HandleCookieAck
<1>3. sctp_free_assoc(n, {}) => StepOf(n)
  BY <1>2, FreeStep, PlainSent
<1>4. CASE StaleCookie(n, m)
  <2> DEFINE q == Pkt("STALE", Peer(n), m.cookie.peer)
  <2>1. q.type = "STALE" /\ q.to = Peer(n) /\ q.cookie = NoCookie
    BY PacketFields
  <2>2. Put(n, t, {q}) /\ "stale" \in UserOps[n]
    BY <1>4 DEF StaleCookie
  <2> HIDE DEF q
  <2>3. Sent(n, t, t, q)
    BY <2>1, <2>2 DEF Sent
  <2>4. AllSent(n, t, t, {q})
    BY <2>3 DEF AllSent
  <2>5. Become(n, t, t)
    BY <1>2, CalmSelf, CalmBecome
  <2> QED
    BY <1>2, <2>2, <2>4, <2>5, PutStep
<1>5. CASE HandleStale(n, m)
  <2> DEFINE u == sctp_toss_old_cookies(sctp_stop_all_cookie_timers(t))
             w == [u EXCEPT !.state = "COOKIE_WAIT", !.stale = @ + 1]
             v == sctp_timer_start(w, "INIT")
  <2>1. u \in Tcb /\ Keeps(t, u) /\ u.cookie = NoCookie /\ u.state = t.state
    BY <1>1, KeepsToss
  <2>2. /\ t.state = "COOKIE_ECHOED" /\ m.type = "STALE" /\ m.to = n
        /\ sctp_free_assoc(n, {}) \/ Put(n, v, {Init_(n, v)})
    BY <1>5 DEF HandleStale
  <2> HIDE DEF u
  <2>3. w \in Tcb
    <3>1. u.stale + 1 \in Nat
      BY <2>1 DEF Tcb
    <3>2. "COOKIE_WAIT" \in State
      BY DEF State, FrontState
    <3> QED
      BY <2>1, <3>1, <3>2 DEF Tcb
  <2>4. Keeps(u, w) /\ w.cookie = u.cookie
    BY <2>1 DEF Keeps, Tcb
  <2> HIDE DEF w
  <2>5. Keeps(w, v)
    BY <2>3, CalmTimers DEF Calm
  <2>6. v.cookie = w.cookie
    BY <2>3 DEF sctp_timer_start, Tcb
  <2> HIDE DEF v
  <2>7. Keeps(t, v)
    BY <2>1, <2>4, <2>5, KeepsTrans
  <2>8. Moves(n, t, v)
    BY <1>2, <2>2, <2>7, CalmSelf DEF Moves, From, Calm
  <2>9. SetupOf(t, v) /\ WaitOf(n, t, v) /\ CookieOf(n, t, v)
    <3>1. SetupOf(t, v)
      BY <2>2, <2>7 DEF SetupOf, Keeps, FrontState
    <3>2. WaitOf(n, t, v)
      BY <2>2 DEF WaitOf
    <3> QED
      BY <3>1, <3>2, <2>1, <2>4, <2>6 DEF CookieOf, CookieKept
  <2>10. Become(n, t, v)
    BY <2>8, <2>9 DEF Become
  <2>11. AllSent(n, t, v, {Init_(n, v)})
    BY SignalSent DEF Keeps
  <2> QED
    BY <1>2, <1>3, <2>2, <2>10, <2>11, PutStep
<1>6. CASE HandleCookieAck(n, m)
  <2> DEFINE a == sctp_handle_cookie_ack(t)
  <2>1. /\ a \in Tcb /\ Keeps(t, a) /\ a.cookie = NoCookie
        /\ a.state = IF t.state = "COOKIE_ECHOED" THEN "OPEN" ELSE t.state
    BY <1>1, KeepsCookieAck, CookieAckTypes
  <2>2. /\ m.type = "COOKIE_ACK" /\ m.to = n /\ m.vtag = t.my_vtag
        /\ t.state # "CLOSED"
        /\ sctp_free_assoc(n, {}) \/ Output(n, a, {})
    BY <1>6 DEF HandleCookieAck
  <2> HIDE DEF a
  <2>3. Moves(n, t, a)
    BY <1>2, <2>1, <2>2, CalmSelf DEF Moves, From, Calm
  <2>4. SetupOf(t, a) /\ WaitOf(n, t, a) /\ CookieOf(n, t, a)
    <3>1. SetupOf(t, a)
      BY <2>1 DEF SetupOf, Keeps, FrontState
    <3>2. WaitOf(n, t, a)
      BY <2>1, <2>2 DEF WaitOf
    <3> QED
      BY <3>1, <3>2, <2>1 DEF CookieOf, CookieKept
  <2>5. Become(n, t, a)
    BY <2>3, <2>4 DEF Become
  <2> QED
    BY <1>2, <1>3, <2>1, <2>2, <2>5, OutputStep, PlainSent
<1> QED
  BY <1>4, <1>5, <1>6

LEMMA HandleDataStep ==
  ASSUME TypeOK, NEW n \in Node, NEW m \in net, HandleData(n, m)
  PROVE  StepOf(n)
<1> DEFINE T == tcb[n]
           t == ImpliedCookieAck(T)
<1>1. T \in Tcb /\ m \in Packet
  BY DEF TypeOK
<1>2. /\ t \in Tcb /\ Calm(T, t)
      /\ t.state = IF T.state = "COOKIE_ECHOED" THEN "OPEN" ELSE T.state
  BY <1>1, CalmImplied
<1>3. Grow /\ ended' = ended
  BY StillGrow DEF HandleData
<1>4. m.seq \in Nat /\ {m.num} \in SUBSET (0 .. MaxMsgs)
  BY <1>1 DEF Packet
<1>5. \/ /\ t.state = "COOKIE_WAIT" /\ Put(n, t, {Reflect(n, m, "ABORT")})
         /\ dlv' = dlv
      \/ /\ t.state \in {"OPEN", "SHUTDOWN_SENT"}
         /\ ReceiveData(n, t, m.seq, {m.num}, {})
  BY DEF HandleData
<1> HIDE DEF t
<1>6. CASE /\ t.state = "COOKIE_WAIT" /\ Put(n, t, {Reflect(n, m, "ABORT")})
           /\ dlv' = dlv
  <2>1. Become(n, T, t)
    BY <1>2, <1>3, <1>6, CalmBecome
  <2>2. AllSent(n, T, t, {Reflect(n, m, "ABORT")})
    BY PlainSent DEF Plain
  <2> QED
    BY <1>3, <1>6, <2>1, <2>2, PutStep
<1>7. CASE /\ t.state \in {"OPEN", "SHUTDOWN_SENT"}
           /\ ReceiveData(n, t, m.seq, {m.num}, {})
  <2>1. T.state # "CLOSED" /\ t.state \notin FrontState
    BY <1>2, <1>7 DEF FrontState
  <2>2. From(n, T, t) /\ CookieKept(T, t)
    BY <1>2, <2>1 DEF From, Calm
  <2>3. \A u : AllSent(n, T, u, {})
    BY PlainSent
  <2> QED
    BY <1>2, <1>3, <1>4, <1>7, <2>1, <2>2, <2>3, ReceiveDataStep
<1> QED
  BY <1>5, <1>6, <1>7

(* What a SACK or a SHUTDOWN acknowledges, and what it leads to. *)
LEMMA SackMoves ==
  ASSUME NEW n, NEW t \in Tcb, NEW m \in net, m.to = n,
         m.type \in {"SACK", "SHUTDOWN"}, m \in Packet
  PROVE  LET u == sctp_express_handle_sack(t, m) IN
         \E a \in Tcb : /\ a = t \/ Acks(n, t, a)
                        /\ a.state = t.state /\ a.rxt = t.rxt
                        /\ a.cookie = t.cookie /\ a.map = t.map
                        /\ a.my_vtag = t.my_vtag
                        /\ Calm(a, u)
<1> DEFINE a == [t EXCEPT !.acked = m.num, !.err = 0]
           v == IF Drained(a) THEN sctp_timer_stop(a, "SEND") ELSE a
           u == sctp_express_handle_sack(t, m)
<1>1. CASE NewAck(t, m)
  <2>1. a \in Tcb
    BY DEF Tcb, Packet
  <2>2. /\ a.state = t.state /\ a.rxt = t.rxt /\ a.cookie = t.cookie
        /\ a.map = t.map /\ a.my_vtag = t.my_vtag
    BY DEF Tcb
  <2>3. m.seq = t.init_seq
    BY <1>1 DEF NewAck
  <2>4. Acks(n, t, a)
    BY <2>3 DEF Acks, Tcb
  <2>5. u = ShutdownIssues(v)
    BY <1>1 DEF sctp_express_handle_sack
  <2> HIDE DEF a
  <2>6. v \in Tcb /\ Calm(a, v)
    BY <2>1, TimerTypes, CalmTimers, CalmSelf DEF RxtType
  <2> HIDE DEF v
  <2>7. Calm(v, ShutdownIssues(v))
    BY <2>6, CalmShutdown
  <2>8. Calm(a, u)
    BY <2>5, <2>6, <2>7, CalmTrans
  <2> QED
    BY <2>1, <2>2, <2>4, <2>8
<1>2. CASE ~NewAck(t, m)
  <2>1. u = t
    BY <1>2 DEF sctp_express_handle_sack
  <2> QED
    BY <2>1, CalmSelf
<1> QED
  BY <1>1, <1>2

(* An acknowledgement followed by calm operators. *)
LEMMA AckBecome ==
  ASSUME NEW n \in Node, NEW T, NEW t, NEW a, NEW u,
         Calm(T, t), a = t \/ Acks(n, t, a),
         a.state = t.state, a.rxt = t.rxt, a.cookie = t.cookie,
         a.map = t.map, a.my_vtag = t.my_vtag, Calm(a, u),
         T.state # "CLOSED", dlv' = dlv, ended' = ended
  PROVE  Become(n, T, u)
<1>1. CASE a = t
  <2>1. Calm(T, u)
    BY <1>1, CalmTrans
  <2> QED
    BY <2>1, CalmBecome
<1>2. CASE Acks(n, t, a)
  <2>1. Keeps(T, t) /\ Keeps(a, u)
    BY DEF Calm
  <2>2. Acks(n, T, a)
    BY <1>2, <2>1 DEF Acks, Keeps
  <2>3. Moves(n, T, u)
    BY <2>1, <2>2 DEF Moves, From
  <2>4. SetupOf(T, u)
    BY <2>1 DEF SetupOf, Calm, SetupKept, Keeps
  <2>5. WaitOf(n, T, u)
    BY <2>1 DEF WaitOf, Calm, SetupKept, Keeps, FrontState
  <2>6. CookieOf(n, T, u)
    BY DEF CookieOf, Calm, CookieKept
  <2> QED
    BY <2>3, <2>4, <2>5, <2>6 DEF Become
<1> QED
  BY <1>1, <1>2

LEMMA HandleSackStep ==
  ASSUME TypeOK, NEW n \in Node, NEW m \in net, HandleSack(n, m)
  PROVE  StepOf(n)
<1> DEFINE T == tcb[n]
           t == ImpliedCookieAck(T)
           u == sctp_express_handle_sack(t, m)
           w == ShutdownIssues(t)
<1>1. T \in Tcb /\ m \in Packet
  BY DEF TypeOK
<1>2. /\ t \in Tcb /\ Calm(T, t)
      /\ t.state = IF T.state = "COOKIE_ECHOED" THEN "OPEN" ELSE T.state
  BY <1>1, CalmImplied
<1>3. Grow /\ dlv' = dlv /\ ended' = ended
  BY StillGrow DEF HandleSack
<1>4. /\ m.type = "SACK" /\ m.to = n /\ t.state # "CLOSED"
      /\ \/ Output(n, u, ShutdownPkts(n, t, u))
         \/ Output(n, w, ShutdownPkts(n, t, w))
  BY DEF HandleSack
<1> HIDE DEF t
<1>5. u \in Tcb /\ w \in Tcb /\ Calm(t, w)
  BY <1>1, <1>2, SackType, ToShutdownTypes, CalmShutdown
<1>6. T.state # "CLOSED"
  BY <1>2, <1>4
<1>7. Become(n, T, u)
  <2>1. PICK a \in Tcb : /\ a = t \/ Acks(n, t, a)
                         /\ a.state = t.state /\ a.rxt = t.rxt
                         /\ a.cookie = t.cookie /\ a.map = t.map
                         /\ a.my_vtag = t.my_vtag
                         /\ Calm(a, u)
    BY <1>1, <1>2, <1>4, SackMoves
  <2> HIDE DEF u
  <2> QED
    BY <1>2, <1>3, <1>6, <2>1, AckBecome
<1> HIDE DEF u, w
<1>8. Become(n, T, w)
  <2>1. Calm(T, w)
    BY <1>2, <1>5, CalmTrans
  <2> QED
    BY <1>3, <1>6, <2>1, CalmBecome
<1>9. /\ AllSent(n, T, u, ShutdownPkts(n, t, u))
      /\ AllSent(n, T, w, ShutdownPkts(n, t, w))
  BY ShutdownPktsSent DEF Keeps
<1> QED
  BY <1>3, <1>4, <1>5, <1>7, <1>8, <1>9, OutputStep

LEMMA HandleShutdownStep ==
  ASSUME TypeOK, NEW n \in Node, NEW m \in net, HandleShutdown(n, m)
  PROVE  StepOf(n)
<1> DEFINE t == tcb[n]
           u == sctp_express_handle_sack(t, m)
           v == IF u.sock /\ u.state = "OPEN"
                THEN [u EXCEPT !.state = "SHUTDOWN_RECEIVED",
                               !.pending = FALSE]
                ELSE u
           w == IF v.state = "SHUTDOWN_SENT" THEN sctp_timer_stop(v, "SHUTDOWN")
                                             ELSE v
           x == ToShutdownAckSent(w)
<1>1. t \in Tcb /\ m \in Packet
  BY DEF TypeOK
<1>2. Grow /\ dlv' = dlv /\ ended' = ended
  BY StillGrow DEF HandleShutdown
<1>3. /\ m.type = "SHUTDOWN" /\ m.to = n /\ t.state # "CLOSED"
      /\ \/ Output(n, x, ShutdownPkts(n, t, u) \cup {Chunk(n, x, "SHUTDOWN_ACK")})
         \/ Output(n, w, ShutdownPkts(n, t, u))
  BY DEF HandleShutdown
<1>4. u \in Tcb
  BY <1>1, SackType
<1>5. PICK a \in Tcb : /\ a = t \/ Acks(n, t, a)
                       /\ a.state = t.state /\ a.rxt = t.rxt
                       /\ a.cookie = t.cookie /\ a.map = t.map
                       /\ a.my_vtag = t.my_vtag
                       /\ Calm(a, u)
  BY <1>1, <1>3, SackMoves
<1> HIDE DEF u
<1>6. v \in Tcb
  BY <1>4 DEF Tcb, State
<1>7. Calm(u, v)
  BY <1>4 DEF Calm, Keeps, CookieKept, SetupKept, Tcb, FrontState
<1> HIDE DEF v
<1>8. w \in Tcb /\ Calm(v, w)
  BY <1>6, TimerTypes, CalmTimers, CalmSelf DEF RxtType
<1> HIDE DEF w
<1>9. x \in Tcb /\ Calm(w, x)
  BY <1>8, ToShutdownTypes, CalmShutdown
<1> HIDE DEF x
<1>10. Calm(u, w) /\ Calm(u, x)
  BY <1>7, <1>8, <1>9, CalmTrans
<1>11. Calm(a, w) /\ Calm(a, x)
  BY <1>5, <1>10, CalmTrans
<1>12. Become(n, t, w) /\ Become(n, t, x)
  BY <1>2, <1>3, <1>5, <1>11, CalmSelf, AckBecome
<1>13. /\ AllSent(n, t, w, ShutdownPkts(n, t, u))
       /\ AllSent(n, t, x, ShutdownPkts(n, t, u))
  BY <1>10, ShutdownPktsSent DEF Calm
<1>14. AllSent(n, t, x, {Chunk(n, x, "SHUTDOWN_ACK")})
  BY PlainSent DEF Plain
<1>15. AllSent(n, t, x, ShutdownPkts(n, t, u) \cup {Chunk(n, x, "SHUTDOWN_ACK")})
  BY <1>13, <1>14, AllSentUnion
<1> QED
  BY <1>2, <1>3, <1>8, <1>9, <1>12, <1>13, <1>15, OutputStep

LEMMA TeardownStep ==
  ASSUME TypeOK, NEW n \in Node, NEW m \in net,
         \/ HandleShutdownAck(n, m) \/ HandleShutdownComplete(n, m)
         \/ HandleAbort(n, m) \/ OutOfTheBlue(n, m)
  PROVE  StepOf(n)
<1> DEFINE t == tcb[n]
<1>1. Grow /\ dlv' = dlv
  BY StillGrow DEF HandleShutdownAck, HandleShutdownComplete, HandleAbort,
                   OutOfTheBlue
<1>2. \A type \in Plain : /\ AllSent(n, t, t, {Reflect(n, m, type)})
                          /\ AllSent(n, t, Closed, {Chunk(n, t, type)})
                          /\ AllSent(n, t, Closed, {})
  BY PlainSent
<1>3. ASSUME ended' = ended, NEW type \in Plain,
             Put(n, t, {Reflect(n, m, type)})
      PROVE  StepOf(n)
  <2>1. Become(n, t, t)
    BY <1>1, <1>3, CalmSelf, CalmBecome
  <2> QED
    BY <1>1, <1>2, <1>3, <2>1, PutStep
<1>4. ASSUME t.state \in SentStates, End(n, t), NEW ps,
             AllSent(n, t, Closed, ps), sctp_free_assoc(n, ps)
      PROVE  StepOf(n)
  <2>1. Frees(n, t, Closed)
    BY <1>1, <1>4 DEF Frees
  <2> QED
    BY <1>1, <1>4, <2>1, ClosedBecome, PutStep DEF sctp_free_assoc
<1>5. CASE HandleShutdownAck(n, m)
  <2>1. \/ /\ Put(n, t, {Reflect(n, m, "SHUTDOWN_COMPLETE")})
           /\ ended' = ended
        \/ /\ t.state \in SentStates /\ End(n, t)
           /\ sctp_free_assoc(n, {Chunk(n, t, "SHUTDOWN_COMPLETE")})
    BY <1>5 DEF HandleShutdownAck, SentStates
  <2> QED
    BY <1>2, <1>3, <1>4, <2>1 DEF Plain
<1>6. CASE HandleShutdownComplete(n, m)
  <2>1. /\ t.state \in SentStates /\ End(n, t) /\ sctp_free_assoc(n, {})
    BY <1>6 DEF HandleShutdownComplete, SentStates
  <2> QED
    BY <1>2, <1>4, <2>1 DEF Plain
<1>7. CASE HandleAbort(n, m)
  BY <1>1, <1>7, FreeStep, PlainSent DEF HandleAbort
<1>8. CASE OutOfTheBlue(n, m)
  BY <1>3, <1>8 DEF OutOfTheBlue, Plain
<1> QED
  BY <1>5, <1>6, <1>7, <1>8

(* A restart that gives the lock up. *)
LEMMA UnlocksStep ==
  ASSUME TypeOK, NEW n \in Node, NEW m \in net, RestartUnlocks(n, m)
  PROVE  StepOf(n)
<1> DEFINE t == tcb[n]
           u == RestartBegin(t)
<1>1. t \in Tcb /\ t.state # "CLOSED" /\ SlowRestart
  BY DEF RestartUnlocks, TypeOK
<1>2. Put(n, u, {}) /\ dlv' = dlv /\ ended' = ended /\ Grow
  BY StillGrow DEF RestartUnlocks
<1>3. /\ u.state \in {"OPEN", "SHUTDOWN_SENT"} /\ u.cookie = t.cookie
      /\ Clears(t, u)
  BY <1>1, BeginMoves DEF Clears
<1> HIDE DEF u
<1>4. Moves(n, t, u)
  BY <1>1, <1>2, <1>3 DEF Moves, From, Keeps
<1>5. SetupOf(t, u) /\ WaitOf(n, t, u) /\ CookieOf(n, t, u)
  BY <1>3 DEF SetupOf, WaitOf, CookieOf, CookieKept, FrontState
<1> QED
  BY <1>2, <1>4, <1>5, PutStep, PlainSent DEF Become

(* The same restart with the locks taken again. *)
LEMMA RelocksStep ==
  ASSUME TypeOK, WindowInv, NEW n \in Node, RestartRelocks(n)
  PROVE  StepOf(n)
<1> DEFINE t == tcb[n]
<1>1. PICK m \in waiting[n] :
        /\ AckCookie(n, RestartEnd(t, m.cookie), m)
        /\ waiting' = [waiting EXCEPT ![n] = {}]
        /\ UNCHANGED <<tags, tcbs, key, ended>>
  BY DEF RestartRelocks
<1> DEFINE w == RestartEnd(t, m.cookie)
<1>2. /\ m \in net /\ m.type = "COOKIE_ECHO" /\ m.to = n
      /\ t.state \in {"OPEN", "SHUTDOWN_SENT"} /\ CookieCaseA(t, m.cookie)
  BY DEF WindowInv, Window
<1>3. t \in Tcb /\ m.cookie \in Cookie
  BY <1>2 DEF TypeOK, Packet
<1>4. waiting[n] # {} /\ waiting'[n] = {}
  BY <1>1 DEF TypeOK
<1>5. /\ w \in Tcb /\ w.state = t.state /\ w.peer_vtag = m.cookie.peer
      /\ Restarts(n, t, w, m.cookie)
  BY <1>2, <1>3, <1>4, EndMoves
     DEF Restarts, CookieCaseA, MyTagSame, PeerTagSame
<1>6. AckCookie(n, w, m) /\ Grow /\ ended' = ended
  BY <1>1, StillGrow
<1> HIDE DEF w
<1>7. t.state # "CLOSED" /\ w.state \notin FrontState
  BY <1>2, <1>5 DEF FrontState
<1>8. From(n, t, w)
  BY <1>2, <1>5, <1>7 DEF From, CookieMoves
<1> QED
  BY <1>2, <1>5, <1>6, <1>7, <1>8, AckCookieStep

LEMMA NextSteps ==
  ASSUME TypeOK, WindowInv, [Next]_vars
  PROVE  (\E n \in Node : StepOf(n)) \/ UNCHANGED vars
<1>1. ASSUME NEW n \in Node, User(n) \/ SendFinish(n) PROVE StepOf(n)
  BY <1>1, UserStep
<1>2. ASSUME NEW n \in Node, Timer(n) PROVE StepOf(n)
  BY <1>2, TimerStep
<1>3. ASSUME NEW n \in Node, NEW m \in net, Receive(n, m) PROVE StepOf(n)
  BY <1>3, HandleInitStep, HandleInitAckStep, HandleCookieEchoStep, StaleStep,
     HandleDataStep, HandleSackStep, HandleShutdownStep, TeardownStep
     DEF Receive
<1> QED
  BY <1>1, <1>2, <1>3, UnlocksStep, RelocksStep DEF Next

-----------------------------------------------------------------------------
(***************************************************************************)
(* Tags and TSN spaces.  A TSN space is drawn with a tag, and the pair     *)
(* travels together: in INIT and INIT-ACK, in the cookies that INIT-ACK    *)
(* and COOKIE-ECHO carry, and from either into the TCB.                    *)
(***************************************************************************)
GoodCookie(c) == c.myseq = c.my /\ c.peerseq = c.peer

Paired(t) == t.init_seq = t.my_vtag /\ t.peer_seq = t.peer_vtag

PairedPkt(p) ==
  /\ GoodCookie(p.cookie)
  /\ p.type \in {"INIT", "INIT_ACK"} => p.seq = p.tag

AgreeInv ==
  /\ \A n \in Node : Paired(tcb[n]) /\ GoodCookie(tcb[n].cookie)
  /\ \A p \in net : PairedPkt(p)

LEMMA PairedFrom ==
  ASSUME AgreeInv, NEW n \in Node, NEW w, From(n, tcb[n], w)
  PROVE  Paired(w)
<1>1. Paired(tcb[n])
  BY DEF AgreeInv
<1>2. CASE Connects(n, w)
  BY <1>2 DEF Connects, Paired
<1>3. CASE \/ Keeps(tcb[n], w) \/ Queues(tcb[n], w) \/ Acks(n, tcb[n], w)
           \/ Clears(tcb[n], w)
  BY <1>1, <1>3 DEF Keeps, Queues, Acks, Clears, Paired
<1>4. CASE Echoes(n, tcb[n], w)
  BY <1>1, <1>4 DEF Echoes, Adopts, Paired, AgreeInv, PairedPkt
<1>5. ASSUME NEW m \in net, CookieMoves(n, tcb[n], w, m.cookie)
      PROVE  Paired(w)
  <2>1. GoodCookie(m.cookie)
    BY DEF AgreeInv, PairedPkt
  <2> QED
    BY <1>1, <1>5, <2>1
       DEF CookieMoves, Accepts, Restarts, Adopts, Paired, GoodCookie
<1> QED
  BY <1>2, <1>3, <1>4, <1>5 DEF From

LEMMA AgreeStep ==
  ASSUME AgreeInv, NEW n \in Node, StepOf(n)
  PROVE  AgreeInv'
<1> DEFINE t == tcb[n]
           u == tcb'[n]
<1>1. Moves(n, t, u) /\ CookieOf(n, t, u)
  BY DEF StepOf, Become
<1>2. GoodCookie(NoCookie)
  BY DEF GoodCookie, NoCookie
<1>3. Paired(u)
  <2>1. CASE Frees(n, t, u)
    BY <2>1 DEF Frees, Closed, Paired
  <2>2. CASE Queues(t, u)
    BY <2>2 DEF Queues, Paired, AgreeInv
  <2>3. ASSUME NEW w, From(n, t, w), Keeps(w, u) \/ Receives(n, w, u)
        PROVE  Paired(u)
    <3>1. Paired(w)
      BY <2>3, PairedFrom
    <3>2. Keeps(w, u) => Paired(u)
      BY <3>1 DEF Keeps, Paired
    <3>3. Receives(n, w, u) => Paired(u)
      BY <3>1 DEF Receives, Paired
    <3> QED
      BY <2>3, <3>2, <3>3
  <2> QED
    BY <1>1, <2>1, <2>2, <2>3 DEF Moves
<1>4. GoodCookie(u.cookie)
  BY <1>1, <1>2 DEF CookieOf, CookieKept, AgreeInv, PairedPkt
<1>5. ASSUME NEW i \in Node PROVE Paired(tcb'[i]) /\ GoodCookie(tcb'[i].cookie)
  <2>1. CASE i = n
    BY <2>1, <1>3, <1>4
  <2>2. CASE i # n
    BY <2>2 DEF StepOf, Alone, AgreeInv
  <2> QED
    BY <2>1, <2>2
<1>6. ASSUME NEW p, Sent(n, t, u, p) PROVE PairedPkt(p)
  <2>1. p.type = "INIT" => p.seq = p.tag
    BY <1>3, <1>6 DEF Sent, Paired
  <2>2. p.type = "INIT_ACK" => p.seq = p.tag /\ GoodCookie(p.cookie)
    <3>1. SUFFICES ASSUME p.type = "INIT_ACK"
                   PROVE  p.seq = p.tag /\ GoodCookie(p.cookie)
      OBVIOUS
    <3>2. PICK m \in net : /\ m.type = "INIT" /\ p.seq = p.tag
                           /\ p.cookie.my = p.tag /\ p.cookie.myseq = p.tag
                           /\ p.cookie.peer = m.tag /\ p.cookie.peerseq = m.seq
      BY <1>6, <3>1 DEF Sent
    <3>3. m.seq = m.tag
      BY <3>2 DEF AgreeInv, PairedPkt
    <3> QED
      BY <3>2, <3>3 DEF GoodCookie
  <2>3. p.type # "INIT_ACK" => GoodCookie(p.cookie)
    BY <1>2, <1>4, <1>6 DEF Sent
  <2> QED
    BY <2>1, <2>2, <2>3 DEF PairedPkt
<1>7. ASSUME NEW p \in net' PROVE PairedPkt(p)
  BY <1>6 DEF StepOf, AllSent, AgreeInv
<1> QED
  BY <1>5, <1>7 DEF AgreeInv

LEMMA AgreeAlways == Spec => []AgreeInv
<1>1. Init => AgreeInv
  BY DEF Init, AgreeInv, Paired, GoodCookie, Closed, NoCookie
<1>2. TypeOK /\ WindowInv /\ AgreeInv /\ [Next]_vars => AgreeInv'
  <2> SUFFICES ASSUME TypeOK, WindowInv, AgreeInv, [Next]_vars PROVE AgreeInv'
    OBVIOUS
  <2>1. CASE UNCHANGED vars
    BY <2>1 DEF AgreeInv, vars
  <2> QED
    BY <2>1, NextSteps, AgreeStep
<1> QED
  BY <1>1, <1>2, TypeCorrect, WindowAlways, PTL DEF Spec

(***************************************************************************)
(* Endpoints that agree on a tag agree on the TSN space drawn with it,     *)
(* whatever INITs cross, cookies come late and endpoints restart, for any  *)
(* number of tags, TCBs and reboots.                                       *)
(***************************************************************************)
THEOREM TagsNameTsnSpaces == Spec => []TsnAgreement
<1>1. AgreeInv => TsnAgreement
  <2> SUFFICES ASSUME AgreeInv, NEW n \in Node,
                      tcb[n].peer_vtag = tcb[Peer(n)].my_vtag
               PROVE  tcb[n].peer_seq = tcb[Peer(n)].init_seq
    BY DEF TsnAgreement
  <2>1. Paired(tcb[n]) /\ Paired(tcb[Peer(n)])
    BY PeerType DEF AgreeInv
  <2> QED
    BY <2>1 DEF Paired
<1> QED
  BY <1>1, AgreeAlways, PTL

-----------------------------------------------------------------------------
(***************************************************************************)
(* Acknowledgements.  Two cookies take a TCB to another TSN space of the   *)
(* peer with bits of the old one left in the mapping arrays, and           *)
(* MapIsDelivered then fails.  Case B leaves the bits as they are          *)
(* (sctp_process_init; run assoc_reaccept), and case A clears them, gives  *)
(* the lock up and takes the new space over with whatever was marked in    *)
(* between (sctp_input.c:1968).  ReacceptsClean says that the first        *)
(* does not happen: the peer's tag changes under a TCB that keeps its own  *)
(* tag only while nothing has been received.  RestartsClean says that no   *)
(* DATA is taken while a restart waits; with SlowRestart = FALSE it holds  *)
(* by itself.  Collisions, restarts, reboots and stale cookies are         *)
(* allowed.                                                                *)
(***************************************************************************)
CleanReaccept ==
  \A n \in Node :
    (/\ tcb'[n].my_vtag = tcb[n].my_vtag
     /\ tcb'[n].peer_vtag # tcb[n].peer_vtag) => tcb[n].map = {}

ReacceptsClean == [][CleanReaccept]_vars

CleanRestart ==
  \A n \in Node : waiting[n] # {} /\ waiting'[n] = {} => tcb[n].map = {}

RestartsClean == [][CleanRestart]_vars

(* Chunk k of space seq is among the deliveries D at an endpoint. *)
Has(D, at, seq, k) == \E d \in D : d.at = at /\ d.seq = seq /\ d.num = k

(* Every bit stands for a chunk this TCB handed up in this TSN space. *)
HandedUp(D, n, t) ==
  \A k \in t.map : \E d \in D : /\ d.at = n /\ d.nonce = t.nonce
                                /\ d.seq = t.peer_seq /\ d.num = k

(* The cumulative TSN covers chunks that were handed up. *)
TrueCum(D, n, t) == \A k \in 1 .. t.rcum : Has(D, n, t.peer_seq, k)

AckedAtPeer(D, n, t) == \A k \in 1 .. t.acked : Has(D, Peer(n), t.init_seq, k)

TrueAck(D, p) ==
  p.type \in {"SACK", "SHUTDOWN"} =>
    \A k \in 1 .. p.num : Has(D, Peer(p.to), p.seq, k)

NothingLost(D, e) ==
  e.late \/ \A k \in 1 .. e.out : Has(D, Peer(e.at), e.seq, k)

DeliveryTcb(D, n, t) ==
  /\ HandedUp(D, n, t) /\ TrueCum(D, n, t) /\ AckedAtPeer(D, n, t)
  /\ t.state \in FrontState => t.map = {}

DeliveryInv ==
  /\ \A n \in Node : DeliveryTcb(dlv, n, tcb[n])
  /\ \A p \in net : TrueAck(dlv, p)
  /\ \A e \in ended : NothingLost(dlv, e)

LEMMA NoneBelowOne == 1 .. 0 = {}
  OBVIOUS

(* What was delivered stays delivered. *)
LEMMA DeliveryGrows ==
  ASSUME NEW D, NEW E, D \subseteq E
  PROVE  /\ \A at, seq, k : Has(D, at, seq, k) => Has(E, at, seq, k)
         /\ \A n, t : HandedUp(D, n, t) => HandedUp(E, n, t)
         /\ \A n, t : AckedAtPeer(D, n, t) => AckedAtPeer(E, n, t)
         /\ \A n, t : TrueCum(D, n, t) => TrueCum(E, n, t)
         /\ \A p : TrueAck(D, p) => TrueAck(E, p)
         /\ \A e : NothingLost(D, e) => NothingLost(E, e)
<1>1. ASSUME NEW at, NEW seq, NEW k, Has(D, at, seq, k) PROVE Has(E, at, seq, k)
  BY <1>1 DEF Has
<1>2. ASSUME NEW n, NEW t, HandedUp(D, n, t) PROVE HandedUp(E, n, t)
  BY <1>2 DEF HandedUp
<1>3. ASSUME NEW n, NEW t, AckedAtPeer(D, n, t) PROVE AckedAtPeer(E, n, t)
  BY <1>1, <1>3 DEF AckedAtPeer
<1>4. ASSUME NEW p, TrueAck(D, p) PROVE TrueAck(E, p)
  BY <1>1, <1>4 DEF TrueAck
<1>5. ASSUME NEW e, NothingLost(D, e) PROVE NothingLost(E, e)
  BY <1>1, <1>5 DEF NothingLost
<1>6. ASSUME NEW n, NEW t, TrueCum(D, n, t) PROVE TrueCum(E, n, t)
  BY <1>1, <1>6 DEF TrueCum
<1> QED
  BY <1>1, <1>2, <1>3, <1>4, <1>5, <1>6

LEMMA DeliveryFrom ==
  ASSUME DeliveryInv, NEW n \in Node, NEW w, From(n, tcb[n], w),
         (w.my_vtag = tcb[n].my_vtag /\ w.peer_vtag # tcb[n].peer_vtag)
           => tcb[n].map = {},
         waiting[n] # {} /\ waiting'[n] = {} => tcb[n].map = {}
  PROVE  HandedUp(dlv, n, w) /\ TrueCum(dlv, n, w) /\ AckedAtPeer(dlv, n, w)
<1> DEFINE t == tcb[n]
<1>1. /\ HandedUp(dlv, n, t) /\ TrueCum(dlv, n, t) /\ AckedAtPeer(dlv, n, t)
      /\ t.state \in FrontState => t.map = {}
  BY DEF DeliveryInv, DeliveryTcb
<1>2. ASSUME w.map = {} /\ w.rcum = 0 /\ w.acked = 0
      PROVE  HandedUp(dlv, n, w) /\ TrueCum(dlv, n, w) /\ AckedAtPeer(dlv, n, w)
  <2>1. w.map = {} /\ 1 .. w.rcum = {} /\ 1 .. w.acked = {}
    BY <1>2, NoneBelowOne
  <2> QED
    BY <2>1 DEF HandedUp, TrueCum, AckedAtPeer
<1>3. ASSUME NEW tag, NEW seq, Adopts(t, w, tag, seq), t.map = {}
      PROVE  HandedUp(dlv, n, w) /\ TrueCum(dlv, n, w) /\ AckedAtPeer(dlv, n, w)
  <2>1. /\ w.map = {} /\ 1 .. w.rcum = {}
        /\ w.acked = t.acked /\ w.init_seq = t.init_seq
    BY <1>3, NoneBelowOne DEF Adopts
  <2> QED
    BY <1>1, <2>1 DEF HandedUp, TrueCum, AckedAtPeer
<1>4. CASE Connects(n, w)
  BY <1>2, <1>4 DEF Connects, Blank
<1>5. CASE Keeps(t, w) \/ Queues(t, w)
  <2>1. /\ w.map = t.map /\ w.nonce = t.nonce /\ w.peer_seq = t.peer_seq
        /\ w.rcum = t.rcum /\ w.acked = t.acked /\ w.init_seq = t.init_seq
    BY <1>5 DEF Keeps, Queues
  <2> QED
    BY <1>1, <2>1 DEF HandedUp, TrueCum, AckedAtPeer
<1>6. CASE Acks(n, t, w)
  <2>1. /\ w.map = t.map /\ w.nonce = t.nonce /\ w.peer_seq = t.peer_seq
        /\ w.rcum = t.rcum /\ w.init_seq = t.init_seq
    BY <1>6 DEF Acks
  <2>2. PICK m \in net : /\ m.type \in {"SACK", "SHUTDOWN"} /\ m.to = n
                         /\ m.seq = t.init_seq /\ m.num = w.acked
    BY <1>6 DEF Acks
  <2>3. TrueAck(dlv, m)
    BY DEF DeliveryInv
  <2>4. AckedAtPeer(dlv, n, w)
    BY <2>1, <2>2, <2>3 DEF AckedAtPeer, TrueAck
  <2> QED
    BY <1>1, <2>1, <2>4 DEF HandedUp, TrueCum
<1>7. CASE Echoes(n, t, w)
  <2>1. t.map = {}
    BY <1>1, <1>7 DEF Echoes, FrontState
  <2> QED
    BY <1>3, <1>7, <2>1 DEF Echoes
<1>8. ASSUME NEW c, CookieMoves(n, t, w, c)
      PROVE  HandedUp(dlv, n, w) /\ TrueCum(dlv, n, w) /\ AckedAtPeer(dlv, n, w)
  <2>1. CASE Accepts(n, w, c) \/ Restarts(n, t, w, c)
    BY <1>2, <2>1 DEF Accepts, Blank, Restarts
  <2>2. CASE /\ Adopts(t, w, c.peer, c.peerseq)
             /\ t.state \in FrontState \/ c.peer # t.peer_vtag
    <3>1. t.map = {}
      BY <1>1, <2>2 DEF Adopts
    <3> QED
      BY <1>3, <2>2, <3>1
  <2> QED
    BY <1>8, <2>1, <2>2 DEF CookieMoves
<1>9. CASE Clears(t, w)
  <2>1. /\ w.map = {} /\ w.peer_seq = t.peer_seq
        /\ w.rcum = t.rcum /\ w.acked = t.acked /\ w.init_seq = t.init_seq
    BY <1>9 DEF Clears
  <2> QED
    BY <1>1, <2>1 DEF HandedUp, TrueCum, AckedAtPeer
<1> QED
  BY <1>4, <1>5, <1>6, <1>7, <1>8, <1>9 DEF From

(* The TCB after a step, whatever moved it. *)
LEMMA DeliveryMoves ==
  ASSUME DeliveryInv, NEW n \in Node, NEW u, Moves(n, tcb[n], u),
         SetupOf(tcb[n], u),
         (u.my_vtag = tcb[n].my_vtag /\ u.peer_vtag # tcb[n].peer_vtag)
           => tcb[n].map = {},
         waiting[n] # {} /\ waiting'[n] = {} => tcb[n].map = {}
  PROVE  dlv \subseteq dlv' /\ DeliveryTcb(dlv', n, u)
<1> DEFINE t == tcb[n]
<1>1. DeliveryTcb(dlv, n, t)
  BY DEF DeliveryInv
<1>2. u.state \in FrontState => u.map = {}
  BY <1>1 DEF SetupOf, DeliveryTcb
<1>3. CASE Frees(n, t, u)
  <2>1. dlv' = dlv /\ u.map = {} /\ u.rcum = 0 /\ u.acked = 0
    BY <1>3 DEF Frees, Closed
  <2> QED
    BY <1>2, <2>1, NoneBelowOne
       DEF DeliveryTcb, HandedUp, TrueCum, AckedAtPeer
<1>4. CASE Queues(t, u) /\ dlv' = dlv
  BY <1>1, <1>2, <1>4
     DEF Queues, DeliveryTcb, HandedUp, TrueCum, AckedAtPeer
<1>5. ASSUME NEW w, From(n, t, w), Keeps(w, u) /\ dlv' = dlv
      PROVE  dlv \subseteq dlv' /\ DeliveryTcb(dlv', n, u)
  <2>1. w.my_vtag = u.my_vtag /\ w.peer_vtag = u.peer_vtag
    BY <1>5 DEF Keeps
  <2>2. HandedUp(dlv, n, w) /\ TrueCum(dlv, n, w) /\ AckedAtPeer(dlv, n, w)
    BY <1>5, <2>1, DeliveryFrom
  <2> QED
    BY <1>2, <1>5, <2>2
       DEF Keeps, DeliveryTcb, HandedUp, TrueCum, AckedAtPeer
<1>6. ASSUME NEW w, From(n, t, w), Receives(n, w, u)
      PROVE  dlv \subseteq dlv' /\ DeliveryTcb(dlv', n, u)
  <2>1. PICK new \in SUBSET (1 .. MaxMsgs) :
          /\ u.my_vtag = w.my_vtag /\ u.peer_vtag = w.peer_vtag
          /\ u.nonce = w.nonce /\ u.init_seq = w.init_seq
          /\ u.peer_seq = w.peer_seq /\ u.acked = w.acked
          /\ u.map = w.map \cup new /\ 1 .. u.rcum \subseteq u.map
          /\ dlv' = dlv \cup {[at |-> n, nonce |-> w.nonce,
                               seq |-> w.peer_seq, num |-> k] : k \in new}
    BY <1>6 DEF Receives
  <2>2. HandedUp(dlv, n, w) /\ AckedAtPeer(dlv, n, w)
    BY <1>6, <2>1, DeliveryFrom
  <2>3. dlv \subseteq dlv'
    BY <2>1
  <2>4. HandedUp(dlv', n, w) /\ AckedAtPeer(dlv', n, w)
    BY <2>2, <2>3, DeliveryGrows
  <2>5. ASSUME NEW k \in new
        PROVE  \E d \in dlv' : /\ d.at = n /\ d.nonce = u.nonce
                               /\ d.seq = u.peer_seq /\ d.num = k
    <3> DEFINE d == [at |-> n, nonce |-> w.nonce, seq |-> w.peer_seq, num |-> k]
    <3>1. d \in dlv'
      BY <2>1
    <3>2. d.at = n /\ d.nonce = u.nonce /\ d.seq = u.peer_seq /\ d.num = k
      BY <2>1
    <3> HIDE DEF d
    <3> QED
      BY <3>1, <3>2
  <2>6. HandedUp(dlv', n, u)
    <3>1. u.nonce = w.nonce /\ u.peer_seq = w.peer_seq /\ u.map = w.map \cup new
      BY <2>1
    <3>2. ASSUME NEW k \in w.map
          PROVE  \E d \in dlv' : /\ d.at = n /\ d.nonce = u.nonce
                                 /\ d.seq = u.peer_seq /\ d.num = k
      BY <2>4, <3>1 DEF HandedUp
    <3> QED
      BY <2>5, <3>1, <3>2 DEF HandedUp
  <2>7. AckedAtPeer(dlv', n, u)
    BY <2>1, <2>4 DEF AckedAtPeer
  <2>8. TrueCum(dlv', n, u)
    BY <2>1, <2>6 DEF HandedUp, TrueCum, Has
  <2> QED
    BY <1>2, <2>3, <2>6, <2>7, <2>8 DEF DeliveryTcb
<1> QED
  BY <1>3, <1>4, <1>5, <1>6 DEF Moves

LEMMA DeliveryStep ==
  ASSUME SoundInv, DeliveryInv, CleanReaccept, CleanRestart,
         NEW n \in Node, StepOf(n)
  PROVE  DeliveryInv'
<1> DEFINE t == tcb[n]
           u == tcb'[n]
<1>1. Moves(n, t, u) /\ SetupOf(t, u)
  BY DEF StepOf, Become
<1>2. dlv \subseteq dlv' /\ DeliveryTcb(dlv', n, u)
  BY <1>1, DeliveryMoves DEF CleanReaccept, CleanRestart
<1>3. ASSUME NEW i \in Node PROVE DeliveryTcb(dlv', i, tcb'[i])
  <2>1. CASE i = n
    BY <2>1, <1>2
  <2>2. CASE i # n
    <3>1. tcb'[i] = tcb[i] /\ DeliveryTcb(dlv, i, tcb[i])
      BY <2>2 DEF StepOf, Alone, DeliveryInv
    <3> QED
      BY <1>2, <3>1, DeliveryGrows DEF DeliveryTcb
  <2> QED
    BY <2>1, <2>2
<1>4. ASSUME NEW p, Sent(n, t, u, p) PROVE TrueAck(dlv', p)
  <2> SUFFICES ASSUME p.type \in {"SACK", "SHUTDOWN"}, NEW k \in 1 .. p.num
               PROVE  Has(dlv', Peer(p.to), p.seq, k)
    BY DEF TrueAck
  <2>1. p.to = Peer(n) /\ p.seq = u.peer_seq /\ p.num = u.rcum
    BY <1>4 DEF Sent
  <2>2. Peer(p.to) = n
    BY <2>1, NodeAssumption DEF Peer, Node
  <2> QED
    BY <1>2, <2>1, <2>2 DEF DeliveryTcb, TrueCum
<1>5. ASSUME NEW p \in net' PROVE TrueAck(dlv', p)
  <2>1. CASE p \in net
    BY <1>2, <2>1, DeliveryGrows DEF DeliveryInv
  <2> QED
    BY <1>4, <2>1 DEF StepOf, AllSent
<1>6. ASSUME NEW e \in ended' PROVE NothingLost(dlv', e)
  <2>1. CASE e \in ended
    BY <1>2, <2>1, DeliveryGrows DEF DeliveryInv
  <2>2. CASE e \notin ended
    <3>1. t.state \in SentStates /\ End(n, t)
      BY <1>1, <1>6, <2>2 DEF Moves, Frees
    <3>2. /\ e.at = n /\ e.seq = t.init_seq /\ e.out = t.out
          /\ e.late = t.late
      BY <1>6, <2>2, <3>1 DEF End
    <3>3. t.out = t.acked \/ t.late
      BY <3>1 DEF SoundInv, Sound, Drained
    <3>4. AckedAtPeer(dlv', n, t)
      BY <1>2, DeliveryGrows DEF DeliveryInv, DeliveryTcb
    <3> QED
      BY <3>2, <3>3, <3>4 DEF NothingLost, AckedAtPeer
  <2> QED
    BY <2>1, <2>2
<1> QED
  BY <1>3, <1>5, <1>6 DEF DeliveryInv

LEMMA DeliveryAlways ==
  Spec /\ ReacceptsClean /\ RestartsClean => []DeliveryInv
<1>1. Init => DeliveryInv
  <2> SUFFICES ASSUME Init PROVE DeliveryInv
    OBVIOUS
  <2>1. /\ Closed.map = {} /\ Closed.rcum = 0 /\ Closed.acked = 0
    BY DEF Closed
  <2>2. \A n \in Node : DeliveryTcb(dlv, n, Closed)
    BY <2>1, NoneBelowOne DEF DeliveryTcb, HandedUp, TrueCum, AckedAtPeer
  <2> QED
    BY <2>2 DEF Init, DeliveryInv
<1>2. (TypeOK /\ WindowInv /\ SoundInv /\ DeliveryInv /\ [Next]_vars
         /\ [CleanReaccept]_vars /\ [CleanRestart]_vars) => DeliveryInv'
  <2> SUFFICES ASSUME TypeOK, WindowInv, SoundInv, DeliveryInv, [Next]_vars,
                      [CleanReaccept]_vars, [CleanRestart]_vars
               PROVE  DeliveryInv'
    OBVIOUS
  <2>1. CASE UNCHANGED vars
    BY <2>1 DEF DeliveryInv, DeliveryTcb, vars
  <2>2. CASE CleanReaccept /\ CleanRestart
    BY <2>1, <2>2, NextSteps, DeliveryStep
  <2> QED
    BY <2>1, <2>2
<1> QED
  BY <1>1, <1>2, TypeCorrect, WindowAlways, SoundAlways, PTL
     DEF Spec, ReacceptsClean, RestartsClean

(***************************************************************************)
(* A bit in the mapping arrays stands for a chunk of the peer's current    *)
(* TSN space that was received.                                            *)
(***************************************************************************)
THEOREM BitsAreChunks ==
  Spec /\ ReacceptsClean /\ RestartsClean => []MapIsDelivered
<1>1. DeliveryInv => MapIsDelivered
  <2> SUFFICES ASSUME DeliveryInv, NEW n \in Node, NEW k \in tcb[n].map
               PROVE  k \in Received(n, tcb[n])
    BY DEF MapIsDelivered
  <2>1. PICK d \in dlv : /\ d.at = n /\ d.nonce = tcb[n].nonce
                         /\ d.seq = tcb[n].peer_seq /\ d.num = k
    BY DEF DeliveryInv, DeliveryTcb, HandedUp
  <2> QED
    BY <2>1 DEF Received
<1> QED
  BY <1>1, DeliveryAlways, PTL

(***************************************************************************)
(* The cumulative ack of the sender never runs ahead of what the peer's    *)
(* application was given, however SACKs and SHUTDOWNs of this and earlier  *)
(* associations are lost, repeated and reordered.                          *)
(***************************************************************************)
THEOREM AcksAreTrue ==
  Spec /\ ReacceptsClean /\ RestartsClean => []AckedIsDelivered
<1>1. DeliveryInv => AckedIsDelivered
  BY DEF DeliveryInv, DeliveryTcb, AckedAtPeer, Has, AckedIsDelivered, Delivered
<1> QED
  BY <1>1, DeliveryAlways, PTL

(***************************************************************************)
(* An association that ended by the SHUTDOWN handshake lost no message     *)
(* that was queued before the handshake began.                             *)
(***************************************************************************)
THEOREM GracefulLosesNothing ==
  Spec /\ ReacceptsClean /\ RestartsClean => []GracefulMeansDelivered
<1>1. DeliveryInv => GracefulMeansDelivered
  BY DEF DeliveryInv, NothingLost, Has, GracefulMeansDelivered, Delivered
<1> QED
  BY <1>1, DeliveryAlways, PTL

-----------------------------------------------------------------------------
(***************************************************************************)
(* Delivery at most once.  A cookie may move a TCB to another TSN space of *)
(* the peer (a restart, case A, or case B).  A COOKIE-ECHO delayed over    *)
(* two such moves brings back an earlier space, whose chunks would be new  *)
(* again; FreshSpaces excludes exactly that.                               *)
(***************************************************************************)
FreshSpace ==
  \A n \in Node :
    (/\ tcb'[n].nonce = tcb[n].nonce
     /\ tcb'[n].peer_seq # tcb[n].peer_seq) =>
      \A d \in dlv :
        d.at = n /\ d.nonce = tcb[n].nonce => d.seq # tcb'[n].peer_seq

FreshSpaces == [][FreshSpace]_vars

(* What this TCB handed up of the peer's current space is still marked. *)
StillMarked(D, n, t) ==
  \A d \in D : d.at = n /\ d.nonce = t.nonce /\ d.seq = t.peer_seq
               => d.num \in t.map

(* Nonces are drawn from the counter of TCBs. *)
NonceInv ==
  /\ \A n \in Node : tcb[n].nonce <= tcbs[n]
  /\ \A d \in dlv : d.at \in Node /\ d.nonce <= tcbs[d.at]

OnceInv ==
  /\ NonceInv
  /\ \A n \in Node : tcb[n].state # "CLOSED" => StillMarked(dlv, n, tcb[n])

LEMMA NonceFrom ==
  ASSUME TypeOK, TypeOK', NonceInv, NEW n \in Node, NEW w,
         From(n, tcb[n], w), Alone(n)
  PROVE  \/ w.nonce = tcbs[n] + 1 /\ w.nonce <= tcbs'[n]
         \/ tcb[n].state # "CLOSED" /\ w.nonce = tcb[n].nonce
<1>1. tcbs[n] + 1 \in Nat
  BY DEF TypeOK
<1>2. CASE Connects(n, w)
  BY <1>1, <1>2 DEF Connects
<1>3. CASE /\ tcb[n].state # "CLOSED"
           /\ \/ Keeps(tcb[n], w) \/ Queues(tcb[n], w) \/ Acks(n, tcb[n], w)
              \/ Clears(tcb[n], w)
  BY <1>3 DEF Keeps, Queues, Acks, Clears
<1>4. CASE Echoes(n, tcb[n], w)
  BY <1>4 DEF Echoes, Adopts
<1>5. ASSUME NEW c, CookieMoves(n, tcb[n], w, c)
      PROVE  \/ w.nonce = tcbs[n] + 1 /\ w.nonce <= tcbs'[n]
             \/ tcb[n].state # "CLOSED" /\ w.nonce = tcb[n].nonce
  BY <1>1, <1>5 DEF CookieMoves, Accepts, Restarts, Adopts
<1> QED
  BY <1>2, <1>3, <1>4, <1>5 DEF From

(* A TCB that moves within a TSN space keeps its marks. *)
LEMMA MarksFrom ==
  ASSUME ~SlowRestart, AgreeInv, NEW n \in Node, NEW w, From(n, tcb[n], w),
         w.peer_seq = tcb[n].peer_seq
  PROVE  (Blank(w) /\ w.nonce = tcbs[n] + 1) \/ w.map = tcb[n].map
<1>1. CASE Connects(n, w)
  BY <1>1 DEF Connects
<1>2. CASE Keeps(tcb[n], w) \/ Queues(tcb[n], w) \/ Acks(n, tcb[n], w)
  BY <1>2 DEF Keeps, Queues, Acks
<1>3. CASE Echoes(n, tcb[n], w)
  BY <1>3 DEF Echoes, Adopts
<1>4. ASSUME NEW c, CookieMoves(n, tcb[n], w, c)
      PROVE  (Blank(w) /\ w.nonce = tcbs[n] + 1) \/ w.map = tcb[n].map
  <2>1. Paired(w) /\ Paired(tcb[n])
    BY PairedFrom DEF AgreeInv
  <2>2. ~Restarts(n, tcb[n], w, c)
    BY <2>1 DEF Restarts, Paired
  <2> QED
    BY <1>4, <2>2 DEF CookieMoves, Accepts, Adopts
<1> QED
  BY <1>1, <1>2, <1>3, <1>4 DEF From, Clears

LEMMA OnceFrom ==
  ASSUME ~SlowRestart, TypeOK, TypeOK', AgreeInv, OnceInv, NEW n \in Node, NEW w,
         From(n, tcb[n], w), Alone(n),
         (w.nonce = tcb[n].nonce /\ w.peer_seq # tcb[n].peer_seq) =>
            \A d \in dlv :
              d.at = n /\ d.nonce = tcb[n].nonce => d.seq # w.peer_seq
  PROVE  StillMarked(dlv, n, w) /\ w.nonce <= tcbs'[n]
<1> DEFINE t == tcb[n]
<1>1. /\ tcbs[n] \in Nat /\ tcbs'[n] \in Nat /\ tcbs[n] <= tcbs'[n]
      /\ t.nonce \in Nat /\ t.nonce <= tcbs[n]
  BY DEF TypeOK, Tcb, Alone, OnceInv, NonceInv
<1>2. CASE w.nonce = tcbs[n] + 1 /\ w.nonce <= tcbs'[n]
  <2>1. ASSUME NEW d \in dlv, d.at = n PROVE d.nonce # w.nonce
    <3>1. d.nonce <= tcbs[n] /\ d.nonce \in Nat
      BY <2>1 DEF OnceInv, NonceInv, TypeOK
    <3> QED
      BY <1>1, <1>2, <3>1
  <2> QED
    BY <1>2, <2>1 DEF StillMarked
<1>3. CASE /\ t.state # "CLOSED" /\ w.nonce = t.nonce
           /\ w.nonce # tcbs[n] + 1
  <2>1. StillMarked(dlv, n, t)
    BY <1>3 DEF OnceInv
  <2>2. w.peer_seq # t.peer_seq => StillMarked(dlv, n, w)
    BY <1>3 DEF StillMarked
  <2>3. w.peer_seq = t.peer_seq => StillMarked(dlv, n, w)
    BY <1>3, <2>1, MarksFrom DEF StillMarked
  <2>4. w.nonce <= tcbs'[n]
    BY <1>1, <1>3
  <2> QED
    BY <2>2, <2>3, <2>4
<1>4. tcbs[n] + 1 # t.nonce
  BY <1>1
<1> QED
  BY <1>2, <1>3, <1>4, NonceFrom DEF OnceInv

LEMMA OnceMoves ==
  ASSUME ~SlowRestart, TypeOK, TypeOK', AgreeInv, OnceInv, NEW n \in Node, NEW u,
         Moves(n, tcb[n], u), Alone(n),
         (u.nonce = tcb[n].nonce /\ u.peer_seq # tcb[n].peer_seq) =>
            \A d \in dlv :
              d.at = n /\ d.nonce = tcb[n].nonce => d.seq # u.peer_seq
  PROVE  /\ u.state # "CLOSED" => StillMarked(dlv', n, u)
         /\ u.nonce <= tcbs'[n]
         /\ \A d \in dlv' : d \in dlv \/ (d.at = n /\ d.nonce = u.nonce)
<1> DEFINE t == tcb[n]
<1>1. /\ tcbs[n] \in Nat /\ tcbs'[n] \in Nat /\ tcbs[n] <= tcbs'[n]
      /\ t.nonce \in Nat /\ t.nonce <= tcbs[n]
  BY DEF TypeOK, Tcb, Alone, OnceInv, NonceInv
<1>2. CASE Frees(n, t, u)
  BY <1>1, <1>2 DEF Frees, Closed
<1>3. CASE t.state = "CLOSED" /\ u.state = "CLOSED" /\ Queues(t, u) /\ dlv' = dlv
  BY <1>1, <1>3 DEF Queues
<1>4. ASSUME NEW w, From(n, t, w), Keeps(w, u) /\ dlv' = dlv
      PROVE  StillMarked(dlv', n, u) /\ u.nonce <= tcbs'[n]
  <2>1. w.nonce = u.nonce /\ w.peer_seq = u.peer_seq /\ w.map = u.map
    BY <1>4 DEF Keeps
  <2>2. StillMarked(dlv, n, w) /\ w.nonce <= tcbs'[n]
    BY <1>4, <2>1, OnceFrom
  <2> QED
    BY <1>4, <2>1, <2>2 DEF StillMarked
<1>5. ASSUME NEW w, From(n, t, w), Receives(n, w, u)
      PROVE  /\ StillMarked(dlv', n, u) /\ u.nonce <= tcbs'[n]
             /\ \A d \in dlv' : d \in dlv \/ (d.at = n /\ d.nonce = u.nonce)
  <2>1. PICK new \in SUBSET (1 .. MaxMsgs) :
          /\ u.nonce = w.nonce /\ u.peer_seq = w.peer_seq
          /\ u.map = w.map \cup new
          /\ dlv' = dlv \cup {[at |-> n, nonce |-> w.nonce,
                               seq |-> w.peer_seq, num |-> k] : k \in new}
    BY <1>5 DEF Receives
  <2>2. StillMarked(dlv, n, w) /\ w.nonce <= tcbs'[n]
    BY <1>5, <2>1, OnceFrom
  <2>3. ASSUME NEW d \in dlv', d \notin dlv
        PROVE  d.at = n /\ d.nonce = u.nonce /\ d.num \in u.map
    <3>1. PICK k \in new : d = [at |-> n, nonce |-> w.nonce,
                                seq |-> w.peer_seq, num |-> k]
      BY <2>1, <2>3
    <3> QED
      BY <2>1, <3>1
  <2>4. ASSUME NEW d \in dlv, d.at = n, d.nonce = u.nonce, d.seq = u.peer_seq
        PROVE  d.num \in u.map
    BY <2>1, <2>2, <2>4 DEF StillMarked
  <2> QED
    BY <2>1, <2>2, <2>3, <2>4 DEF StillMarked
<1> QED
  BY <1>2, <1>3, <1>4, <1>5 DEF Moves

LEMMA OnceStep ==
  ASSUME ~SlowRestart, TypeOK, TypeOK', AgreeInv, OnceInv, FreshSpace, NEW n \in Node,
         StepOf(n)
  PROVE  OnceInv'
<1> DEFINE u == tcb'[n]
<1>1. Moves(n, tcb[n], u) /\ Alone(n)
  BY DEF StepOf, Become
<1>2. /\ u.state # "CLOSED" => StillMarked(dlv', n, u)
      /\ u.nonce <= tcbs'[n]
      /\ \A d \in dlv' : d \in dlv \/ (d.at = n /\ d.nonce = u.nonce)
  BY <1>1, OnceMoves DEF FreshSpace
<1>3. ASSUME NEW i \in Node
      PROVE  /\ tcbs[i] \in Nat /\ tcbs'[i] \in Nat /\ tcbs[i] <= tcbs'[i]
             /\ tcb[i].nonce \in Nat /\ tcb[i].nonce <= tcbs[i]
  BY <1>1 DEF TypeOK, Tcb, Alone, OnceInv, NonceInv
<1>4. ASSUME NEW i \in Node PROVE tcb'[i].nonce <= tcbs'[i]
  <2>1. CASE i = n
    BY <2>1, <1>2
  <2>2. CASE i # n
    BY <2>2, <1>1, <1>3 DEF Alone
  <2> QED
    BY <2>1, <2>2
<1>5. ASSUME NEW d \in dlv' PROVE d.at \in Node /\ d.nonce <= tcbs'[d.at]
  <2>1. CASE d \in dlv
    <3>1. d.at \in Node /\ d.nonce <= tcbs[d.at] /\ d.nonce \in Nat
      BY <2>1 DEF OnceInv, NonceInv, TypeOK
    <3> QED
      BY <1>3, <3>1
  <2>2. CASE d.at = n /\ d.nonce = u.nonce
    BY <1>2, <2>2
  <2> QED
    BY <1>2, <2>1, <2>2
<1>6. ASSUME NEW i \in Node, tcb'[i].state # "CLOSED"
      PROVE  StillMarked(dlv', i, tcb'[i])
  <2>1. CASE i = n
    BY <2>1, <1>2, <1>6
  <2>2. CASE i # n
    <3>1. tcb'[i] = tcb[i] /\ StillMarked(dlv, i, tcb[i])
      BY <1>1, <1>6, <2>2 DEF Alone, OnceInv
    <3> QED
      BY <1>2, <2>2, <3>1 DEF StillMarked
  <2> QED
    BY <2>1, <2>2
<1> QED
  BY <1>4, <1>5, <1>6 DEF OnceInv, NonceInv

LEMMA OnceAlways ==
  ASSUME ~SlowRestart PROVE Spec /\ FreshSpaces => []OnceInv
<1>1. Init => OnceInv
  BY DEF Init, OnceInv, NonceInv, Closed
<1>2. (TypeOK /\ TypeOK' /\ WindowInv /\ AgreeInv /\ OnceInv /\ [Next]_vars
         /\ [FreshSpace]_vars) => OnceInv'
  <2> SUFFICES ASSUME TypeOK, TypeOK', WindowInv, AgreeInv, OnceInv,
                      [Next]_vars, [FreshSpace]_vars
               PROVE  OnceInv'
    OBVIOUS
  <2>1. CASE UNCHANGED vars
    BY <2>1 DEF OnceInv, NonceInv, StillMarked, vars
  <2>2. CASE FreshSpace
    BY <2>1, <2>2, NextSteps, OnceStep
  <2> QED
    BY <2>1, <2>2
<1> QED
  BY <1>1, <1>2, TypeCorrect, WindowAlways, AgreeAlways, PTL
     DEF Spec, FreshSpaces

(***************************************************************************)
(* A chunk handed to the application stays marked while its TSN space is   *)
(* current, through duplicates, retransmissions, collisions and restarts,  *)
(* as long as no TCB is taken back to a space it received from before, and *)
(* no restart gives the lock up to a thread that takes DATA: it would find *)
(* the arrays cleared with the old space still current.                    *)
(***************************************************************************)
THEOREM DeliversOnce ==
  ASSUME ~SlowRestart PROVE Spec /\ FreshSpaces => []NoRedelivery
<1>1. OnceInv => NoRedelivery
  <2> SUFFICES ASSUME OnceInv, NEW n \in Node, tcb[n].state # "CLOSED",
                      NEW k \in Received(n, tcb[n])
               PROVE  k \in tcb[n].map
    BY DEF NoRedelivery
  <2>1. PICK d \in dlv : /\ d.at = n /\ d.nonce = tcb[n].nonce
                         /\ d.seq = tcb[n].peer_seq /\ d.num = k
    BY DEF Received
  <2> QED
    BY <2>1 DEF OnceInv, StillMarked
<1> QED
  BY <1>1, OnceAlways, PTL

-----------------------------------------------------------------------------
(***************************************************************************)
(* The INIT timer.  A COOKIE-ACK with our tag stops the INIT timer in any  *)
(* state (sctp_handle_cookie_ack), and a STALE error takes an endpoint     *)
(* back to COOKIE_WAIT with a COOKIE-ECHO of the same tag already sent.    *)
(* Where no cookie is found stale, a tag is new when its INIT leaves, so   *)
(* no COOKIE-ECHO and no COOKIE-ACK can carry it yet.  The tags that       *)
(* packets and cookies carry were drawn by the endpoint they name.         *)
(***************************************************************************)
NoStaleCookie == \A n \in Node : "stale" \notin UserOps[n]

DrawnTcb(T, n, t) ==
  t.my_vtag <= T[n] /\ t.cookie.peer <= T[n] /\ t.cookie.my <= T[Peer(n)]

DrawnPkt(T, p) ==
  /\ p.type = "INIT" => p.tag <= T[Peer(p.to)]
  /\ p.type = "INIT_ACK" =>
       p.cookie.peer <= T[p.to] /\ p.cookie.my <= T[Peer(p.to)]
  /\ p.type = "COOKIE_ECHO" =>
       p.cookie.peer <= T[Peer(p.to)] /\ p.cookie.my <= T[p.to]
  /\ p.type = "COOKIE_ACK" => p.vtag <= T[p.to]

TagInv ==
  /\ \A n \in Node : DrawnTcb(tags, n, tcb[n])
  /\ \A p \in net : DrawnPkt(tags, p)

LEMMA LeqTrans ==
  ASSUME NEW x \in Nat, NEW y \in Nat, NEW z \in Nat, x <= y, y <= z
  PROVE  x <= z
  OBVIOUS

LEMMA PeerPeer ==
  ASSUME NEW n \in Node PROVE Peer(n) \in Node /\ Peer(Peer(n)) = n /\ Peer(n) # n
  BY NodeAssumption DEF Peer, Node

LEMMA DrawnGrows ==
  ASSUME TypeOK, TypeOK', \A i \in Node : tags[i] <= tags'[i]
  PROVE  /\ \A n \in Node, t \in Tcb :
              DrawnTcb(tags, n, t) => DrawnTcb(tags', n, t)
         /\ \A p \in Packet : DrawnPkt(tags, p) => DrawnPkt(tags', p)
<1>1. \A i \in Node : tags[i] \in Nat /\ tags'[i] \in Nat
  BY DEF TypeOK
<1>2. ASSUME NEW x \in Nat, NEW i \in Node, x <= tags[i] PROVE x <= tags'[i]
  BY <1>1, <1>2, LeqTrans
<1>3. ASSUME NEW n \in Node, NEW t \in Tcb, DrawnTcb(tags, n, t)
      PROVE  DrawnTcb(tags', n, t)
  <2>1. t.my_vtag \in Nat /\ t.cookie.peer \in Nat /\ t.cookie.my \in Nat
    BY DEF Tcb, Cookie
  <2> QED
    BY <1>2, <1>3, <2>1, PeerPeer DEF DrawnTcb
<1>4. ASSUME NEW p \in Packet, DrawnPkt(tags, p) PROVE DrawnPkt(tags', p)
  <2>1. /\ p.to \in Node /\ p.tag \in Nat /\ p.vtag \in Nat
        /\ p.cookie.peer \in Nat /\ p.cookie.my \in Nat
    BY DEF Packet, Cookie
  <2> QED
    BY <1>2, <1>4, <2>1, PeerPeer DEF DrawnPkt
<1> QED
  BY <1>3, <1>4

(* Where the tag of a TCB comes from. *)
LEMMA TagMoves ==
  ASSUME NEW n, NEW t, NEW u, Moves(n, t, u)
  PROVE  \/ u.my_vtag = 0
         \/ u.my_vtag = t.my_vtag
         \/ u.my_vtag = tags'[n]
         \/ \E m \in net : /\ m.type = "COOKIE_ECHO" /\ m.to = n
                           /\ u.my_vtag = m.cookie.my
<1> DEFINE From4(w) == \/ w.my_vtag = t.my_vtag
                       \/ w.my_vtag = tags'[n]
                       \/ \E m \in net : /\ m.type = "COOKIE_ECHO" /\ m.to = n
                                         /\ w.my_vtag = m.cookie.my
<1>1. ASSUME NEW w, From(n, t, w) PROVE From4(w)
  <2>1. CASE Connects(n, w)
    BY <2>1 DEF Connects
  <2>2. CASE \/ Keeps(t, w) \/ Queues(t, w) \/ Acks(n, t, w)
             \/ Echoes(n, t, w) \/ Clears(t, w)
    BY <2>2 DEF Keeps, Queues, Acks, Echoes, Adopts, Clears
  <2>3. ASSUME NEW m \in net, m.type = "COOKIE_ECHO", m.to = n,
               CookieMoves(n, t, w, m.cookie)
        PROVE  From4(w)
    BY <2>3 DEF CookieMoves, Accepts, Restarts, Adopts
  <2> QED
    BY <1>1, <2>1, <2>2, <2>3 DEF From
<1>2. ASSUME NEW w, Keeps(w, u) \/ Receives(n, w, u) PROVE u.my_vtag = w.my_vtag
  BY <1>2 DEF Keeps, Receives
<1>3. Frees(n, t, u) => u.my_vtag = 0
  BY DEF Frees, Closed
<1>4. Queues(t, u) => u.my_vtag = t.my_vtag
  BY DEF Queues
<1> QED
  BY <1>1, <1>2, <1>3, <1>4 DEF Moves

LEMMA TagStep ==
  ASSUME TypeOK, TypeOK', TagInv, NEW n \in Node, StepOf(n)
  PROVE  TagInv'
<1> DEFINE t == tcb[n]
           u == tcb'[n]
<1>1. Moves(n, t, u) /\ CookieOf(n, t, u) /\ Alone(n)
  BY DEF StepOf, Become
<1>2. \A i \in Node : tags[i] <= tags'[i]
  BY <1>1 DEF Alone
<1>3. /\ \A i \in Node : tcb[i] \in Tcb /\ DrawnTcb(tags', i, tcb[i])
      /\ \A p \in net : DrawnPkt(tags', p)
  <2>1. \A i \in Node : tcb[i] \in Tcb /\ DrawnTcb(tags, i, tcb[i])
    BY DEF TypeOK, TagInv
  <2>2. \A p \in net : p \in Packet /\ DrawnPkt(tags, p)
    BY DEF TypeOK, TagInv
  <2> QED
    BY <1>2, <2>1, <2>2, DrawnGrows
<1>4. \A i \in Node : tags'[i] \in Nat /\ 0 <= tags'[i] /\ tags'[i] <= tags'[i]
  BY DEF TypeOK
<1>5. Peer(n) \in Node /\ Peer(Peer(n)) = n
  BY PeerPeer
<1>6. u.my_vtag <= tags'[n]
  <2>1. CASE u.my_vtag = 0 \/ u.my_vtag = tags'[n]
    BY <1>4, <2>1
  <2>2. CASE u.my_vtag = t.my_vtag
    BY <1>3, <2>2 DEF DrawnTcb
  <2>3. ASSUME NEW m \in net, m.type = "COOKIE_ECHO", m.to = n,
               u.my_vtag = m.cookie.my
        PROVE  u.my_vtag <= tags'[n]
    BY <1>3, <2>3 DEF DrawnPkt
  <2> QED
    BY <1>1, <2>1, <2>2, <2>3, TagMoves
<1>7. u.cookie.peer <= tags'[n] /\ u.cookie.my <= tags'[Peer(n)]
  <2>1. CASE u.cookie = t.cookie
    BY <1>3, <2>1 DEF DrawnTcb
  <2>2. CASE u.cookie = NoCookie
    BY <1>4, <1>5, <2>2 DEF NoCookie
  <2>3. ASSUME NEW m \in net, m.type = "INIT_ACK", m.to = n, u.cookie = m.cookie
        PROVE  u.cookie.peer <= tags'[n] /\ u.cookie.my <= tags'[Peer(n)]
    BY <1>3, <2>3 DEF DrawnPkt
  <2> QED
    BY <1>1, <2>1, <2>2, <2>3 DEF CookieOf, CookieKept
<1>8. ASSUME NEW i \in Node PROVE DrawnTcb(tags', i, tcb'[i])
  <2>1. CASE i = n
    BY <2>1, <1>6, <1>7 DEF DrawnTcb
  <2>2. CASE i # n
    BY <2>2, <1>1, <1>3 DEF Alone
  <2> QED
    BY <2>1, <2>2
<1>9. ASSUME NEW p, Sent(n, t, u, p) PROVE DrawnPkt(tags', p)
  <2>1. p.to = Peer(n) /\ Peer(p.to) = n
    BY <1>5, <1>9 DEF Sent
  <2>2. p.type = "INIT" => p.tag <= tags'[Peer(p.to)]
    BY <1>6, <1>9, <2>1 DEF Sent
  <2>3. ASSUME p.type = "INIT_ACK"
        PROVE  p.cookie.peer <= tags'[p.to] /\ p.cookie.my <= tags'[Peer(p.to)]
    <3>1. PICK m \in net : /\ m.type = "INIT" /\ m.to = n
                           /\ p.cookie.my = p.tag /\ p.cookie.peer = m.tag
      BY <1>9, <2>3 DEF Sent
    <3>2. m.tag <= tags'[Peer(n)]
      BY <1>3, <3>1 DEF DrawnPkt
    <3>3. p.tag <= tags'[n]
      BY <1>3, <1>4, <1>9, <2>3 DEF Sent, OwnTag, DrawnTcb
    <3> QED
      BY <2>1, <3>1, <3>2, <3>3
  <2>4. p.type = "COOKIE_ECHO" =>
          p.cookie.peer <= tags'[Peer(p.to)] /\ p.cookie.my <= tags'[p.to]
    BY <1>7, <1>9, <2>1 DEF Sent
  <2>5. ASSUME p.type = "COOKIE_ACK" PROVE p.vtag <= tags'[p.to]
    <3>1. PICK m \in net : /\ m.type = "COOKIE_ECHO" /\ m.to = n
                           /\ p.vtag = m.cookie.peer
      BY <1>9, <2>5 DEF Sent
    <3> QED
      BY <1>3, <2>1, <3>1 DEF DrawnPkt
  <2> QED
    BY <2>2, <2>3, <2>4, <2>5 DEF DrawnPkt
<1>10. ASSUME NEW p \in net' PROVE DrawnPkt(tags', p)
  BY <1>3, <1>9 DEF StepOf, AllSent
<1> QED
  BY <1>8, <1>10 DEF TagInv

LEMMA TagAlways == Spec => []TagInv
<1>1. Init => TagInv
  BY PeerPeer DEF Init, TagInv, DrawnTcb, Closed, NoCookie
<1>2. (TypeOK /\ TypeOK' /\ WindowInv /\ TagInv /\ [Next]_vars) => TagInv'
  <2> SUFFICES ASSUME TypeOK, TypeOK', WindowInv, TagInv, [Next]_vars
               PROVE  TagInv'
    OBVIOUS
  <2>1. CASE UNCHANGED vars
    BY <2>1 DEF TagInv, vars
  <2> QED
    BY <2>1, NextSteps, TagStep
<1> QED
  BY <1>1, <1>2, TypeCorrect, WindowAlways, PTL DEF Spec

(* The tag of a set-up that waits is in no COOKIE-ECHO and no COOKIE-ACK. *)
Unused(n, t, p) ==
  /\ p.type # "STALE"
  /\ p.type = "COOKIE_ECHO" /\ p.to = Peer(n) => p.cookie.peer # t.my_vtag
  /\ p.type = "COOKIE_ACK" /\ p.to = n => p.vtag # t.my_vtag

WaitInv ==
  /\ \A p \in net : p.type # "STALE"
  /\ \A n \in Node : tcb[n].state = "COOKIE_WAIT" =>
       tcb[n].rxt = "INIT" /\ \A p \in net : Unused(n, tcb[n], p)

LEMMA WaitMoves ==
  ASSUME TypeOK, TagInv, WaitInv, NEW n \in Node, WaitOf(n, tcb[n], tcb'[n]),
         tcb'[n].state = "COOKIE_WAIT"
  PROVE  tcb'[n].rxt = "INIT" /\ \A p \in net : Unused(n, tcb'[n], p)
<1> DEFINE t == tcb[n]
           u == tcb'[n]
<1>1. CASE /\ t.state = "COOKIE_WAIT" /\ u.my_vtag = t.my_vtag
           /\ t.rxt = "INIT" => u.rxt = "INIT"
  BY <1>1 DEF WaitInv, Unused
<1>2. CASE u.rxt = "INIT" /\ u.my_vtag = tags[n] + 1
  <2>1. Peer(n) \in Node /\ Peer(Peer(n)) = n
    BY PeerPeer
  <2>2. ASSUME NEW x \in Nat, x <= tags[n] PROVE x # tags[n] + 1
    BY <2>2 DEF TypeOK
  <2>3. ASSUME NEW p \in net PROVE Unused(n, u, p)
    <3>1. /\ p.vtag \in Nat /\ p.cookie.peer \in Nat /\ DrawnPkt(tags, p)
          /\ p.type # "STALE"
      BY DEF TypeOK, Packet, Cookie, TagInv, WaitInv
    <3>2. (p.type = "COOKIE_ECHO" /\ p.to = Peer(n)) => p.cookie.peer <= tags[n]
      BY <2>1, <3>1 DEF DrawnPkt
    <3>3. (p.type = "COOKIE_ACK" /\ p.to = n) => p.vtag <= tags[n]
      BY <3>1 DEF DrawnPkt
    <3> QED
      BY <1>2, <2>2, <3>1, <3>2, <3>3 DEF Unused
  <2> QED
    BY <1>2, <2>3
<1>3. ASSUME NEW m \in net, m.to = n, m.type = "STALE" PROVE FALSE
  BY <1>3 DEF WaitInv
<1>4. ASSUME NEW m \in net, m.to = n, m.type = "COOKIE_ACK",
             m.vtag = t.my_vtag, t.state = "COOKIE_WAIT"
      PROVE  FALSE
  BY <1>4 DEF WaitInv, Unused
<1> QED
  BY <1>1, <1>2, <1>3, <1>4 DEF WaitOf

LEMMA WaitStep ==
  ASSUME NoStaleCookie, TypeOK, TagInv, WaitInv, NEW n \in Node, StepOf(n)
  PROVE  WaitInv'
<1> DEFINE t == tcb[n]
           u == tcb'[n]
<1>1. WaitOf(n, t, u) /\ Alone(n)
  BY DEF StepOf, Become
<1>2. Peer(n) \in Node /\ Peer(Peer(n)) = n /\ Peer(n) # n
  BY PeerPeer
<1>3. ASSUME NEW p, Sent(n, t, u, p) PROVE p.type # "STALE" /\ p.to = Peer(n)
  BY <1>3 DEF Sent, NoStaleCookie
<1>4. ASSUME NEW p \in net' PROVE p \in net \/ Sent(n, t, u, p)
  BY DEF StepOf, AllSent
<1>5. ASSUME u.state = "COOKIE_WAIT"
      PROVE  u.rxt = "INIT" /\ \A p \in net' : Unused(n, u, p)
  <2>1. u.rxt = "INIT" /\ \A p \in net : Unused(n, u, p)
    BY <1>1, <1>5, WaitMoves
  <2>2. ASSUME NEW p, Sent(n, t, u, p) PROVE Unused(n, u, p)
    <3>1. p.type # "COOKIE_ECHO"
      BY <1>5, <2>1, <2>2 DEF Sent
    <3> QED
      BY <1>2, <1>3, <2>2, <3>1 DEF Unused
  <2> QED
    BY <1>4, <2>1, <2>2
<1>6. ASSUME NEW i \in Node, i # n, tcb[i].state = "COOKIE_WAIT"
      PROVE  tcb[i].rxt = "INIT" /\ \A p \in net' : Unused(i, tcb[i], p)
  <2>1. tcb[i].rxt = "INIT" /\ \A p \in net : Unused(i, tcb[i], p)
    BY <1>6 DEF WaitInv
  <2>2. i = Peer(n) /\ Peer(i) = n
    BY <1>2, <1>6, NodeAssumption DEF Peer, Node
  <2>3. ASSUME NEW p, Sent(n, t, u, p) PROVE Unused(i, tcb[i], p)
    <3>1. ASSUME p.type = "COOKIE_ACK" PROVE p.vtag # tcb[i].my_vtag
      <4>1. PICK m \in net : /\ m.type = "COOKIE_ECHO" /\ m.to = n
                             /\ p.vtag = m.cookie.peer
        BY <2>3, <3>1 DEF Sent
      <4> QED
        BY <2>1, <2>2, <4>1 DEF Unused
    <3> QED
      BY <1>2, <1>3, <2>2, <2>3, <3>1 DEF Unused
  <2> QED
    BY <1>4, <2>1, <2>3
<1>7. ASSUME NEW p \in net' PROVE p.type # "STALE"
  BY <1>3, <1>4 DEF WaitInv
<1>8. ASSUME NEW i \in Node, tcb'[i].state = "COOKIE_WAIT"
      PROVE  tcb'[i].rxt = "INIT" /\ \A p \in net' : Unused(i, tcb'[i], p)
  <2>1. CASE i = n
    BY <2>1, <1>5, <1>8
  <2>2. CASE i # n
    <3>1. tcb'[i] = tcb[i]
      BY <2>2, <1>1 DEF Alone
    <3> QED
      BY <2>2, <3>1, <1>6, <1>8
  <2> QED
    BY <2>1, <2>2
<1> QED
  BY <1>7, <1>8 DEF WaitInv, Unused

(***************************************************************************)
(* Where no cookie is ever found stale, an endpoint that waits for an      *)
(* INIT-ACK has its INIT timer running: no COOKIE-ACK of an earlier        *)
(* association can stop it.                                                *)
(***************************************************************************)
THEOREM WaitsUnderItsTimer ==
  ASSUME NoStaleCookie PROVE Spec => []InitTimerRuns
<1>1. Init => WaitInv
  BY DEF Init, WaitInv, Closed
<1>2. (TypeOK /\ WindowInv /\ TagInv /\ WaitInv /\ [Next]_vars) => WaitInv'
  <2> SUFFICES ASSUME TypeOK, WindowInv, TagInv, WaitInv, [Next]_vars
               PROVE  WaitInv'
    OBVIOUS
  <2>1. CASE UNCHANGED vars
    BY <2>1 DEF WaitInv, Unused, vars
  <2> QED
    BY <2>1, NextSteps, WaitStep
<1>3. WaitInv => InitTimerRuns
  BY DEF WaitInv, InitTimerRuns
<1> QED
  BY <1>1, <1>2, <1>3, TypeCorrect, WindowAlways, TagAlways, PTL DEF Spec

-----------------------------------------------------------------------------
(***************************************************************************)
(* The shared timer slot.  A restart (case A) empties the send queues but  *)
(* leaves T3 in the slot, so that a SHUTDOWN-ACK that follows finds the    *)
(* slot taken and is left without a timer when T3 expires.  IdleRestarts   *)
(* excludes that: a TCB restarts with T3 idle or under the guard.  Cover   *)
(* says what may be in the slot in each state, and when the guard runs.    *)
(***************************************************************************)
IdleRestart ==
  \A n \in Node :
    (/\ tcb'[n].nonce = tcb[n].nonce
     /\ tcb'[n].my_vtag # tcb[n].my_vtag)
      => tcb[n].rxt # "SEND" \/ tcb[n].guard

IdleRestarts == [][IdleRestart]_vars

Cover(t) ==
  /\ t.acked <= t.out
  /\ t.state = "COOKIE_WAIT" => t.rxt \in {"INIT", "NONE"}
  /\ t.state = "COOKIE_ECHOED" => t.rxt = "COOKIE" \/ (t.rxt = "NONE" /\ t.guard)
  /\ t.state \in SendStates =>
       \/ t.rxt \in {"NONE", "SEND"}
       \/ t.guard /\ t.rxt \notin {"INIT", "COOKIE"}
  /\ t.state = "SHUTDOWN_SENT" => t.guard
  /\ t.state = "SHUTDOWN_ACK_SENT" => t.rxt = "SHUTDOWNACK" \/ t.guard
  /\ t.state = "SHUTDOWN_RECEIVED" => t.out # t.acked
  /\ t.pending => t.guard
  /\ ~t.sock => t.guard \/ t.state = "SHUTDOWN_ACK_SENT"
  /\ t.rxt = "SEND" => t.out # t.acked \/ t.guard

Armed(t) == (t.state \in SendStates /\ t.out # t.acked) => t.rxt # "NONE"

CoverInv == \A n \in Node : Cover(tcb[n]) /\ Armed(tcb[n])

(* All that Cover looks at, but for the slot. *)
Same(t, u) ==
  /\ u.state = t.state /\ u.pending = t.pending /\ u.sock = t.sock
  /\ u.guard = t.guard /\ u.out = t.out /\ u.acked = t.acked

LEMMA SameTrans ==
  ASSUME NEW t, NEW u, NEW v, Same(t, u), Same(u, v) PROVE Same(t, v)
  BY DEF Same

LEMMA CoverSame ==
  ASSUME NEW t, NEW u, Same(t, u), u.rxt = t.rxt
  PROVE  (Cover(t) => Cover(u)) /\ (Armed(t) => Armed(u))
  BY DEF Same, Cover, Armed

LEMMA CoverClosed == Cover(Closed) /\ Armed(Closed)
  BY DEF Cover, Armed, Closed, SendStates

(* What the operators do to the slot. *)
LEMMA SlotTimers ==
  ASSUME NEW t \in Tcb
  PROVE  /\ \A type : /\ Same(t, sctp_timer_start(t, type))
                      /\ sctp_timer_start(t, type).rxt
                           = IF t.rxt = "NONE" THEN type ELSE t.rxt
         /\ \A type : /\ Same(t, sctp_timer_stop(t, type))
                      /\ sctp_timer_stop(t, type).rxt
                           = IF t.rxt = type THEN "NONE" ELSE t.rxt
         /\ Same(t, sctp_toss_old_cookies(t))
         /\ sctp_toss_old_cookies(t).rxt = t.rxt
         /\ Same(t, Expired(t)) /\ Expired(t).rxt = "NONE"
         /\ Same(t, Counted(t)) /\ Counted(t).rxt = "NONE"
<1> USE DEF Same, Tcb
<1>1. ASSUME NEW type
      PROVE  /\ Same(t, sctp_timer_start(t, type))
             /\ sctp_timer_start(t, type).rxt
                  = IF t.rxt = "NONE" THEN type ELSE t.rxt
  BY DEF sctp_timer_start
<1>2. ASSUME NEW type
      PROVE  /\ Same(t, sctp_timer_stop(t, type))
             /\ sctp_timer_stop(t, type).rxt
                  = IF t.rxt = type THEN "NONE" ELSE t.rxt
  BY DEF sctp_timer_stop
<1>3. Same(t, sctp_toss_old_cookies(t)) /\ sctp_toss_old_cookies(t).rxt = t.rxt
  BY DEF sctp_toss_old_cookies
<1>4. Same(t, Expired(t)) /\ Expired(t).rxt = "NONE"
  BY DEF Expired
<1>5. Expired(t) \in Tcb
  BY TimerTypes
<1>6. Same(Expired(t), Counted(t)) /\ Counted(t).rxt = Expired(t).rxt
  BY <1>5 DEF Counted
<1> HIDE DEF Same, Tcb
<1> QED
  BY <1>1, <1>2, <1>3, <1>4, <1>6, SameTrans

(* The slot once the timers of the set-up are stopped. *)
NoSetupTimer(rxt) == IF rxt \in {"INIT", "COOKIE"} THEN "NONE" ELSE rxt

LEMMA SlotStopAll ==
  ASSUME NEW t \in Tcb
  PROVE  /\ sctp_stop_all_cookie_timers(t) \in Tcb
         /\ Same(t, sctp_stop_all_cookie_timers(t))
         /\ sctp_stop_all_cookie_timers(t).rxt = NoSetupTimer(t.rxt)
<1> DEFINE u == sctp_timer_stop(t, "COOKIE")
           v == sctp_timer_stop(u, "INIT")
<1>1. u \in Tcb /\ Same(t, u) /\ u.rxt = IF t.rxt = "COOKIE" THEN "NONE" ELSE t.rxt
  BY TimerTypes, SlotTimers DEF RxtType
<1> HIDE DEF u
<1>2. Same(u, v) /\ v.rxt = IF u.rxt = "INIT" THEN "NONE" ELSE u.rxt
  BY <1>1, SlotTimers
<1>3. sctp_stop_all_cookie_timers(t) = v
  BY DEF sctp_stop_all_cookie_timers, u
<1> HIDE DEF v
<1>4. Same(t, v)
  BY <1>1, <1>2, SameTrans
<1>5. v.rxt = NoSetupTimer(t.rxt)
  BY <1>1, <1>2 DEF NoSetupTimer
<1> QED
  BY <1>3, <1>4, <1>5, StopAllType

LEMMA SlotAckCookie ==
  ASSUME NEW t \in Tcb
  PROVE  LET u == sctp_toss_old_cookies(sctp_stop_all_cookie_timers(t)) IN
         u \in Tcb /\ Same(t, u) /\ u.rxt = NoSetupTimer(t.rxt)
<1> DEFINE v == sctp_stop_all_cookie_timers(t)
<1>1. v \in Tcb /\ Same(t, v) /\ v.rxt = NoSetupTimer(t.rxt)
  BY SlotStopAll
<1> HIDE DEF v
<1>2. /\ sctp_toss_old_cookies(v) \in Tcb /\ Same(v, sctp_toss_old_cookies(v))
      /\ sctp_toss_old_cookies(v).rxt = v.rxt
  BY <1>1, TimerTypes, SlotTimers
<1>3. Same(t, sctp_toss_old_cookies(v))
  BY <1>1, <1>2, SameTrans
<1> QED
  BY <1>1, <1>2, <1>3 DEF v

LEMMA SlotTwice ==
  ASSUME NEW rxt
  PROVE  /\ NoSetupTimer(NoSetupTimer(rxt)) = NoSetupTimer(rxt)
         /\ NoSetupTimer(IF rxt = "INIT" THEN "NONE" ELSE rxt) = NoSetupTimer(rxt)
  BY DEF NoSetupTimer

(* Stopping the timers of a set-up that is over leaves the rest covered. *)
LEMMA CoverStopped ==
  ASSUME NEW t, NEW u, Cover(t), Same(t, u), u.rxt = NoSetupTimer(t.rxt),
         t.state # "COOKIE_ECHOED"
  PROVE  Cover(u)
  BY DEF Cover, Same, NoSetupTimer, SendStates

(* An association that opens, with the timers of its set-up stopped. *)
Opened(t, u) ==
  /\ u.state = "OPEN" /\ u.pending = t.pending /\ u.sock = t.sock
  /\ u.guard = (t.guard \/ t.pending) /\ u.out = t.out /\ u.acked = t.acked
  /\ u.rxt = NoSetupTimer(t.rxt)

LEMMA CoverOpened ==
  ASSUME NEW t \in Tcb, NEW u, Cover(t), Opened(t, u),
         t.state \notin {"CLOSED", "SHUTDOWN_ACK_SENT"}
  PROVE  Cover(u)
<1>1. /\ t.rxt \in {"INIT", "COOKIE", "NONE", "SEND"} \/ t.guard
      /\ t.state \in {"COOKIE_WAIT", "COOKIE_ECHOED", "OPEN",
                      "SHUTDOWN_SENT", "SHUTDOWN_RECEIVED"}
  BY DEF Cover, SendStates, Tcb, State, FrontState
<1> QED
  BY <1>1 DEF Cover, Opened, NoSetupTimer, SendStates

LEMMA SlotOpen ==
  ASSUME NEW t \in Tcb
  PROVE  LET u == MoveToOpen(t) IN
         /\ u.state = "OPEN" /\ u.pending = t.pending /\ u.sock = t.sock
         /\ u.guard = (t.guard \/ t.pending)
         /\ u.out = t.out /\ u.acked = t.acked /\ u.rxt = t.rxt
  BY DEF MoveToOpen, Tcb

LEMMA SlotInit ==
  ASSUME NEW t \in Tcb, NEW tag \in Nat, NEW seq \in Nat
  PROVE  LET u == sctp_process_init(t, tag, seq) IN
         u \in Tcb /\ Same(t, u) /\ u.rxt = t.rxt
<1>1. /\ Same(t, sctp_process_init(t, tag, seq))
      /\ sctp_process_init(t, tag, seq).rxt = t.rxt
  BY DEF sctp_process_init, Same, Tcb
<1> QED
  BY <1>1, ProcessInitType

(* sctp_chunk_output arms T3 for what is queued. *)
LEMMA CoverOutput ==
  ASSUME NEW t \in Tcb, Cover(t)
  PROVE  Cover(sctp_chunk_output(t)) /\ Armed(sctp_chunk_output(t))
<1> DEFINE u == sctp_timer_start(t, "SEND")
<1>1. Same(t, u) /\ u.rxt = IF t.rxt = "NONE" THEN "SEND" ELSE t.rxt
  BY SlotTimers
<1> HIDE DEF u
<1>2. CASE t.state \in SendStates /\ ~Drained(t)
  <2>1. sctp_chunk_output(t) = u
    BY <1>2 DEF sctp_chunk_output, u
  <2>2. t.out # t.acked /\ t.rxt \notin {"INIT", "COOKIE"}
    BY <1>2 DEF Drained, Cover
  <2>3. Cover(u)
    BY <1>1, <1>2, <2>2 DEF Cover, Same, SendStates
  <2>4. Armed(u)
    BY <1>1 DEF Armed
  <2> QED
    BY <2>1, <2>3, <2>4
<1>3. CASE ~(t.state \in SendStates /\ ~Drained(t))
  BY <1>3 DEF sctp_chunk_output, Armed, Drained
<1> QED
  BY <1>2, <1>3

LEMMA PutCover ==
  ASSUME TypeOK, CoverInv, NEW n \in Node, NEW u, Cover(u), Armed(u),
         NEW ps, Put(n, u, ps)
  PROVE  CoverInv'
<1>1. \A i \in Node : tcb'[i] = IF i = n THEN u ELSE tcb[i]
  BY DEF TypeOK, Put
<1>2. \A i \in Node : Cover(tcb'[i]) /\ Armed(tcb'[i])
  BY <1>1 DEF CoverInv
<1> QED
  BY <1>2 DEF CoverInv, Cover, Armed

LEMMA OutputCover ==
  ASSUME TypeOK, CoverInv, NEW n \in Node, NEW u \in Tcb, Cover(u),
         NEW ps, Output(n, u, ps)
  PROVE  CoverInv'
<1>1. Put(n, sctp_chunk_output(u), ps \cup DataOut(n, u))
  BY DEF Put, Output
<1> QED
  BY <1>1, CoverOutput, PutCover

LEMMA FreeCover ==
  ASSUME TypeOK, CoverInv, NEW n \in Node, NEW ps,
         \/ sctp_free_assoc(n, ps)
         \/ \E t : sctp_abort_an_association(n, t)
  PROVE  CoverInv'
  BY PutCover, CoverClosed DEF sctp_free_assoc, sctp_abort_an_association

-----------------------------------------------------------------------------
(***************************************************************************)
(* Cover, operator by operator.                                            *)
(***************************************************************************)
LEMMA CoverSent ==
  ASSUME NEW t \in Tcb, t.acked <= t.out
  PROVE  Cover(ToShutdownSent(t)) /\ ToShutdownSent(t).guard
<1> DEFINE u == [t EXCEPT !.state = "SHUTDOWN_SENT", !.pending = FALSE]
           v == sctp_timer_start(u, "SHUTDOWN")
           w == StartGuard(v)
<1>1. u \in Tcb
  BY DEF Tcb, State
<1>2. u.state = "SHUTDOWN_SENT" /\ u.out = t.out /\ u.acked = t.acked
  BY DEF Tcb
<1> HIDE DEF u
<1>3. v \in Tcb /\ Same(u, v)
  BY <1>1, TimerTypes, SlotTimers DEF RxtType
<1> HIDE DEF v
<1>4. /\ w.state = v.state /\ w.guard = TRUE /\ w.out = v.out
      /\ w.acked = v.acked
  BY <1>3 DEF StartGuard, Tcb
<1>5. ToShutdownSent(t) = w
  BY DEF ToShutdownSent, w, v, u
<1> HIDE DEF w
<1>6. Cover(w)
  BY <1>2, <1>3, <1>4 DEF Cover, Same, SendStates
<1> QED
  BY <1>4, <1>5, <1>6

(* SHUTDOWN-ACK starts its timer unless the slot is taken under the guard. *)
LEMMA CoverAckSent ==
  ASSUME NEW t \in Tcb, t.acked <= t.out,
         t.rxt \in {"NONE", "SHUTDOWNACK"} \/ t.guard,
         t.rxt = "SEND" => t.out # t.acked \/ t.guard
  PROVE  Cover(ToShutdownAckSent(t))
<1> DEFINE u == [t EXCEPT !.state = "SHUTDOWN_ACK_SENT", !.pending = FALSE]
           v == sctp_timer_start(u, "SHUTDOWNACK")
<1>1. u \in Tcb
  BY DEF Tcb, State
<1>2. /\ u.state = "SHUTDOWN_ACK_SENT" /\ u.out = t.out /\ u.acked = t.acked
      /\ u.pending = FALSE /\ u.guard = t.guard /\ u.rxt = t.rxt
  BY DEF Tcb
<1> HIDE DEF u
<1>3. Same(u, v) /\ v.rxt = IF u.rxt = "NONE" THEN "SHUTDOWNACK" ELSE u.rxt
  BY <1>1, SlotTimers
<1>4. ToShutdownAckSent(t) = v
  BY DEF ToShutdownAckSent, v, u
<1> HIDE DEF v
<1>5. Cover(v)
  BY <1>2, <1>3 DEF Cover, Same, SendStates
<1> QED
  BY <1>4, <1>5

LEMMA CoverIssues ==
  ASSUME NEW t \in Tcb, Cover(t) PROVE Cover(ShutdownIssues(t))
<1>1. CASE Drained(t) /\ t.pending
  BY <1>1, CoverSent DEF ShutdownIssues, Cover
<1>2. CASE ~Drained(t) \/ (~t.pending /\ t.state # "SHUTDOWN_RECEIVED")
  BY <1>2 DEF ShutdownIssues
<1>3. ~(Drained(t) /\ t.state = "SHUTDOWN_RECEIVED")
  BY DEF Cover, Drained
<1> QED
  BY <1>1, <1>2, <1>3

(* A new ack empties the queue or leaves T3 running for the rest. *)
LEMMA CoverSack ==
  ASSUME NEW t \in Tcb, Cover(t), NEW m \in Packet, t.state # "CLOSED"
  PROVE  Cover(sctp_express_handle_sack(t, m))
<1> DEFINE u == [t EXCEPT !.acked = m.num, !.err = 0]
           v == IF Drained(u) THEN sctp_timer_stop(u, "SEND") ELSE u
<1>1. CASE NewAck(t, m)
  <2>1. u \in Tcb
    BY DEF Tcb, Packet
  <2>2. /\ u.state = t.state /\ u.pending = t.pending /\ u.sock = t.sock
        /\ u.guard = t.guard /\ u.out = t.out /\ u.acked = m.num
        /\ u.rxt = t.rxt
    BY DEF Tcb
  <2> HIDE DEF u
  <2>3. m.num <= t.out
    BY <1>1 DEF NewAck
  <2>4. sctp_express_handle_sack(t, m) = ShutdownIssues(v)
    BY <1>1 DEF sctp_express_handle_sack, v, u
  <2>5. CASE ~Drained(u)
    <3>1. Cover(u)
      BY <2>2, <2>3, <2>5 DEF Cover, Drained
    <3> QED
      BY <2>1, <2>4, <2>5, <3>1, CoverIssues
  <2>6. CASE Drained(u)
    <3> DEFINE s == sctp_timer_stop(u, "SEND")
    <3>1. /\ s \in Tcb /\ Same(u, s)
          /\ s.rxt = IF u.rxt = "SEND" THEN "NONE" ELSE u.rxt
      BY <2>1, TimerTypes, SlotTimers DEF RxtType
    <3>2. v = s
      BY <2>6
    <3> HIDE DEF s
    <3>3. s.out = s.acked /\ s.acked <= s.out
      BY <2>2, <2>3, <2>6, <3>1 DEF Same, Drained
    <3>4. CASE t.state # "SHUTDOWN_RECEIVED"
      <4>1. Cover(s)
        BY <2>2, <3>1, <3>3, <3>4 DEF Cover, Same, SendStates
      <4> QED
        BY <2>4, <3>1, <3>2, <4>1, CoverIssues
    <3>5. CASE t.state = "SHUTDOWN_RECEIVED" /\ t.pending
      <4>1. s.pending /\ Drained(s)
        BY <2>2, <3>1, <3>3, <3>5 DEF Same, Drained
      <4>2. sctp_express_handle_sack(t, m) = ToShutdownSent(s)
        BY <2>4, <3>2, <4>1 DEF ShutdownIssues
      <4>3. Cover(ToShutdownSent(s))
        BY <3>1, <3>3, CoverSent
      <4> QED
        BY <4>2, <4>3
    <3>6. CASE t.state = "SHUTDOWN_RECEIVED" /\ ~t.pending
      <4>1. ~s.pending /\ Drained(s) /\ s.state = "SHUTDOWN_RECEIVED"
        BY <2>2, <3>1, <3>3, <3>6 DEF Same, Drained
      <4>2. sctp_express_handle_sack(t, m) = ToShutdownAckSent(s)
        BY <2>4, <3>2, <4>1 DEF ShutdownIssues
      <4>3. (s.rxt = "NONE" \/ s.guard) /\ s.rxt # "SEND"
        BY <2>2, <3>1, <3>6 DEF Cover, Same, SendStates
      <4>4. Cover(ToShutdownAckSent(s))
        BY <3>1, <3>3, <4>3, CoverAckSent
      <4> QED
        BY <4>2, <4>4
    <3> QED
      BY <3>4, <3>5, <3>6
  <2> QED
    BY <2>5, <2>6
<1>2. CASE ~NewAck(t, m)
  BY <1>2 DEF sctp_express_handle_sack
<1> QED
  BY <1>1, <1>2

LEMMA CoverProcessData ==
  ASSUME NEW t \in Tcb, Cover(t), NEW seq, NEW ks
  PROVE  Cover(sctp_process_data(t, seq, ks))
<1> DEFINE new == Fresh(t, seq, ks)
           map == t.map \cup new
           k == sctp_slide_mapping_arrays(map)
           u == [t EXCEPT !.map = map, !.rcum = k,
                          !.err = IF new = {} THEN @ ELSE 0]
<1>1. sctp_process_data(t, seq, ks) = u
  BY DEF sctp_process_data
<1> HIDE DEF new, map, k
<1>2. Same(t, u) /\ u.rxt = t.rxt
  BY DEF Same, Tcb
<1> HIDE DEF u
<1> QED
  BY <1>1, <1>2, CoverSame

LEMMA ReceiveDataCover ==
  ASSUME TypeOK, CoverInv, NEW n \in Node, NEW t \in Tcb, Cover(t),
         NEW seq \in Nat, NEW ks \in SUBSET (0 .. MaxMsgs), NEW ps,
         ReceiveData(n, t, seq, ks, ps)
  PROVE  CoverInv'
<1> DEFINE u == sctp_process_data(t, seq, ks)
<1>1. u \in Tcb /\ Cover(u)
  BY ProcessDataType, CoverProcessData
<1> HIDE DEF u
<1>2. \/ sctp_abort_an_association(n, t)
      \/ Output(n, u, ps \cup sctp_sack_check(n, u))
  BY DEF ReceiveData, u
<1> QED
  BY <1>1, <1>2, FreeCover, OutputCover

LEMMA AckCookieCover ==
  ASSUME TypeOK, CoverInv, NEW n \in Node, NEW w \in Tcb, NEW m \in Packet,
         AckCookie(n, w, m),
         \A u : Same(w, u) /\ u.rxt = NoSetupTimer(w.rxt) => Cover(u)
  PROVE  CoverInv'
<1> DEFINE u == sctp_toss_old_cookies(sctp_stop_all_cookie_timers(w))
           ack == {Chunk(n, u, "COOKIE_ACK")}
<1>1. u \in Tcb /\ Same(w, u) /\ u.rxt = NoSetupTimer(w.rxt)
  BY SlotAckCookie
<1>2. ReceiveData(n, u, m.seq, 1 .. m.num, ack) \/ Output(n, u, ack)
  BY DEF AckCookie
<1> HIDE DEF u
<1>3. Cover(u)
  BY <1>1
<1> HIDE DEF ack
<1>4. m.seq \in Nat /\ 1 .. m.num \in SUBSET (0 .. MaxMsgs)
  <2>1. m.seq \in Nat /\ m.num \in 0 .. MaxMsgs
    BY DEF Packet
  <2> QED
    BY <2>1, Bounds
<1> QED
  BY <1>1, <1>2, <1>3, <1>4, ReceiveDataCover, OutputCover

(* What AckCookie leaves behind a cookie of case D or B is covered. *)
LEMMA CoverCookieD ==
  ASSUME NEW t \in Tcb, Cover(t), NEW c \in Cookie, NEW u,
         t.state \notin {"CLOSED", "SHUTDOWN_ACK_SENT"},
         Same(CookieD(t, c), u), u.rxt = NoSetupTimer(CookieD(t, c).rxt)
  PROVE  Cover(u)
<1>1. CASE t.state \in FrontState
  <2> DEFINE s == sctp_timer_stop(t, "INIT")
             v == sctp_process_init(s, c.peer, c.peerseq)
             w == MoveToOpen(v)
  <2>1. s \in Tcb /\ Same(t, s) /\ s.rxt = IF t.rxt = "INIT" THEN "NONE" ELSE t.rxt
    BY TimerTypes, SlotTimers DEF RxtType
  <2>2. c.peer \in Nat /\ c.peerseq \in Nat
    BY DEF Cookie
  <2> HIDE DEF s
  <2>3. v \in Tcb /\ Same(s, v) /\ v.rxt = s.rxt
    BY <2>1, <2>2, SlotInit
  <2> HIDE DEF v
  <2>4. /\ w.state = "OPEN" /\ w.pending = v.pending /\ w.sock = v.sock
        /\ w.guard = (v.guard \/ v.pending)
        /\ w.out = v.out /\ w.acked = v.acked /\ w.rxt = v.rxt
    BY <2>3, SlotOpen
  <2>5. CookieD(t, c) = w
    BY <1>1 DEF CookieD, w, v, s
  <2> HIDE DEF w
  <2>6. Opened(t, u)
    <3>1. u.rxt = NoSetupTimer(t.rxt)
      BY <2>1, <2>3, <2>4, <2>5, SlotTwice
    <3> QED
      BY <2>1, <2>3, <2>4, <2>5, <3>1 DEF Opened, Same
  <2> QED
    BY <2>6, CoverOpened
<1>2. CASE t.state \notin FrontState
  <2>1. CookieD(t, c) = t
    BY <1>2 DEF CookieD
  <2> QED
    BY <1>2, <2>1, CoverStopped DEF FrontState
<1> QED
  BY <1>1, <1>2

LEMMA CoverCookieB ==
  ASSUME NEW t \in Tcb, Cover(t), NEW c \in Cookie, NEW u,
         t.state \notin {"CLOSED", "SHUTDOWN_ACK_SENT"},
         Same(CookieB(t, c), u), u.rxt = NoSetupTimer(CookieB(t, c).rxt)
  PROVE  Cover(u)
<1> DEFINE s == sctp_stop_all_cookie_timers(t)
           v == sctp_process_init(s, c.peer, c.peerseq)
           w == MoveToOpen(v)
<1>1. s \in Tcb /\ Same(t, s) /\ s.rxt = NoSetupTimer(t.rxt)
  BY SlotStopAll
<1>2. c.peer \in Nat /\ c.peerseq \in Nat
  BY DEF Cookie
<1> HIDE DEF s
<1>3. v \in Tcb /\ Same(s, v) /\ v.rxt = s.rxt
  BY <1>1, <1>2, SlotInit
<1> HIDE DEF v
<1>4. /\ w.state = "OPEN" /\ w.pending = v.pending /\ w.sock = v.sock
      /\ w.guard = (v.guard \/ v.pending)
      /\ w.out = v.out /\ w.acked = v.acked /\ w.rxt = v.rxt
  BY <1>3, SlotOpen
<1>5. CookieB(t, c) = w
  BY DEF CookieB, w, v, s
<1> HIDE DEF w
<1>6. u.rxt = NoSetupTimer(t.rxt)
  BY <1>1, <1>3, <1>4, <1>5, SlotTwice
<1>7. Opened(t, u)
  BY <1>1, <1>3, <1>4, <1>5, <1>6 DEF Opened, Same
<1> QED
  BY <1>7, CoverOpened

(* A restart keeps the slot: nothing is queued, so T3 must not be in it. *)
LEMMA CoverCookieA ==
  ASSUME NEW t \in Tcb, Cover(t), NEW c \in Cookie, NEW u,
         t.state \notin {"CLOSED", "SHUTDOWN_ACK_SENT"},
         t.rxt # "SEND" \/ t.guard,
         Same(CookieA(t, c), u), u.rxt = NoSetupTimer(CookieA(t, c).rxt)
  PROVE  Cover(u)
<1> DEFINE s == sctp_timer_stop(t, "INIT")
           v == IF t.pending \/ t.state # "SHUTDOWN_SENT"
                THEN MoveToOpen(s) ELSE s
           b == [v EXCEPT !.map = {}]
           w == [b EXCEPT !.my_vtag = c.my, !.init_seq = c.myseq,
                          !.out = 0, !.acked = 0, !.late = FALSE]
           x == sctp_process_init(w, c.peer, c.peerseq)
<1>1. s \in Tcb /\ Same(t, s) /\ s.rxt = IF t.rxt = "INIT" THEN "NONE" ELSE t.rxt
  BY TimerTypes, SlotTimers DEF RxtType
<1>2. CookieA(t, c) = x
  BY DEF CookieA, RestartBegin, RestartEnd, x, w, b, v, s
<1> HIDE DEF s
<1>3. /\ v \in Tcb /\ v.sock = t.sock /\ v.pending = t.pending
      /\ v.guard = t.guard \/ v.guard = (t.guard \/ t.pending)
      /\ v.state = "OPEN" \/ (v.state = "SHUTDOWN_SENT" /\ t.state = v.state)
      /\ v.rxt = s.rxt
  <2> DEFINE o == MoveToOpen(s)
  <2>1. /\ o \in Tcb /\ o.state = "OPEN" /\ o.pending = s.pending
        /\ o.sock = s.sock /\ o.guard = (s.guard \/ s.pending)
        /\ o.rxt = s.rxt
    BY <1>1, TimerTypes, SlotOpen
  <2> HIDE DEF o
  <2>2. v = IF t.pending \/ t.state # "SHUTDOWN_SENT" THEN o ELSE s
    BY DEF v, o
  <2> HIDE DEF v
  <2>3. CASE t.pending \/ t.state # "SHUTDOWN_SENT"
    BY <1>1, <2>1, <2>2, <2>3 DEF Same
  <2>4. CASE ~(t.pending \/ t.state # "SHUTDOWN_SENT")
    BY <1>1, <2>2, <2>4 DEF Same
  <2> QED
    BY <2>3, <2>4
<1> HIDE DEF v
<1>4. /\ b \in Tcb /\ b.state = v.state /\ b.pending = v.pending
       /\ b.sock = v.sock /\ b.guard = v.guard /\ b.rxt = v.rxt
  BY <1>3 DEF Tcb
<1> HIDE DEF b
<1>5. /\ w.state = v.state /\ w.pending = v.pending /\ w.sock = v.sock
      /\ w.guard = v.guard /\ w.rxt = v.rxt /\ w.out = 0 /\ w.acked = 0
  BY <1>4 DEF Tcb
<1>6. w \in Tcb
  <2>1. c.my \in Nat /\ c.myseq \in Nat
    BY DEF Cookie
  <2> QED
    BY <1>4, <2>1, ZeroInRange DEF Tcb
<1> HIDE DEF w
<1>7. Same(w, x) /\ x.rxt = w.rxt
  <2>1. c.peer \in Nat /\ c.peerseq \in Nat
    BY DEF Cookie
  <2> QED
    BY <1>6, <2>1, SlotInit
<1> HIDE DEF x
<1>8. u.rxt = NoSetupTimer(t.rxt)
  BY <1>1, <1>2, <1>3, <1>5, <1>7, SlotTwice
<1>9. /\ u.out = 0 /\ u.acked = 0 /\ u.pending = t.pending /\ u.sock = t.sock
      /\ u.guard = t.guard \/ u.guard = (t.guard \/ t.pending)
      /\ u.state = "OPEN" \/ (u.state = "SHUTDOWN_SENT" /\ t.state = u.state)
  BY <1>2, <1>3, <1>5, <1>7 DEF Same
<1>10. t.guard => u.guard
  BY <1>9
<1>11. /\ t.rxt \in {"INIT", "COOKIE", "NONE", "SEND"} \/ t.guard
       /\ t.state \in {"COOKIE_WAIT", "COOKIE_ECHOED", "OPEN",
                       "SHUTDOWN_SENT", "SHUTDOWN_RECEIVED"}
  BY DEF Cover, SendStates, Tcb, State, FrontState
<1>12. u.rxt = "NONE" \/ (u.guard /\ u.rxt \notin {"INIT", "COOKIE"})
  BY <1>8, <1>10, <1>11 DEF NoSetupTimer
<1> QED
  BY <1>9, <1>10, <1>11, <1>12 DEF Cover, SendStates

LEMMA CoverCookieAck ==
  ASSUME NEW t \in Tcb, Cover(t), t.state # "CLOSED"
  PROVE  Cover(sctp_handle_cookie_ack(t)) /\ Cover(ImpliedCookieAck(t))
<1> DEFINE s == sctp_stop_all_cookie_timers(t)
           v == IF t.state = "COOKIE_ECHOED" THEN MoveToOpen(s) ELSE s
           w == [v EXCEPT !.err = 0]
           a == sctp_handle_cookie_ack(t)
<1>1. s \in Tcb /\ Same(t, s) /\ s.rxt = NoSetupTimer(t.rxt)
  BY SlotStopAll
<1>2. a = sctp_toss_old_cookies(w)
  BY DEF sctp_handle_cookie_ack
<1> HIDE DEF s
<1>3. v \in Tcb
  BY <1>1, TimerTypes
<1>4. t.state # "COOKIE_ECHOED" => v = s
  OBVIOUS
<1>5. t.state = "COOKIE_ECHOED" =>
        /\ v.state = "OPEN" /\ v.pending = s.pending /\ v.sock = s.sock
        /\ v.guard = (s.guard \/ s.pending)
        /\ v.out = s.out /\ v.acked = s.acked /\ v.rxt = s.rxt
  BY <1>1, SlotOpen
<1> HIDE DEF v
<1>6. w \in Tcb /\ Same(v, w) /\ w.rxt = v.rxt
  BY <1>3 DEF Same, Tcb
<1> HIDE DEF w
<1>7. Same(w, a) /\ a.rxt = w.rxt
  BY <1>2, <1>6, SlotTimers
<1> HIDE DEF a
<1>8. Same(v, a) /\ a.rxt = v.rxt
  BY <1>6, <1>7, SameTrans
<1>9. Cover(a)
  <2>1. CASE t.state = "COOKIE_ECHOED"
    <3>1. Opened(t, a)
      BY <1>1, <1>5, <1>8, <2>1 DEF Opened, Same
    <3> QED
      BY <2>1, <3>1, CoverOpened
  <2>2. CASE t.state # "COOKIE_ECHOED"
    <3>1. Same(t, a) /\ a.rxt = NoSetupTimer(t.rxt)
      BY <1>1, <1>4, <1>8, <2>2, SameTrans
    <3> QED
      BY <2>2, <3>1, CoverStopped
  <2> QED
    BY <2>1, <2>2
<1> QED
  BY <1>9 DEF ImpliedCookieAck, a

-----------------------------------------------------------------------------
(***************************************************************************)
(* CoverInv, one lemma per group of actions.                               *)
(***************************************************************************)
LEMMA CoverGuarded ==
  ASSUME NEW t, Cover(t), NEW u, u.state = t.state, u.out = t.out,
         u.acked = t.acked, u.rxt = t.rxt, u.guard = TRUE
  PROVE  Cover(u)
  BY DEF Cover

LEMMA UserCover ==
  ASSUME TypeOK, CoverInv, NEW n \in Node, User(n) \/ SendFinish(n)
  PROVE  CoverInv'
<1> DEFINE t == tcb[n]
<1>1. t \in Tcb /\ Cover(t) /\ Armed(t)
  BY DEF TypeOK, CoverInv
<1>2. ASSUME NEW u \in Tcb, u.state = t.state, u.out = t.out,
             u.acked = t.acked, u.rxt = t.rxt, NEW done,
             u.state \in done => Cover(u), StartShutdown(n, u, done)
      PROVE  CoverInv'
  <2> DEFINE p == [u EXCEPT !.pending = TRUE]
             g == StartGuard(p)
  <2>1. p \in Tcb
    BY DEF Tcb
  <2>2. g \in Tcb
    BY <2>1, TimerTypes
  <2>3. /\ g.state = u.state /\ g.out = u.out /\ g.acked = u.acked
        /\ g.rxt = u.rxt /\ g.guard = TRUE
    BY DEF StartGuard, Tcb
  <2>4. \/ Output(n, g, {})
        \/ u.state \in done /\ Output(n, u, {})
        \/ Output(n, ToShutdownSent(u), {Shutdown_(n, ToShutdownSent(u))})
    BY <1>2 DEF StartShutdown
  <2> HIDE DEF g
  <2>5. Cover(g)
    BY <1>1, <1>2, <2>3, CoverGuarded
  <2>6. ToShutdownSent(u) \in Tcb /\ Cover(ToShutdownSent(u))
    BY <1>1, <1>2, ToShutdownTypes, CoverSent DEF Cover
  <2> QED
    BY <1>2, <2>2, <2>4, <2>5, <2>6, OutputCover
<1>3. CASE Connect(n)
  <2> DEFINE x == NewTcb(tags[n] + 1, tcbs[n] + 1)
             u == [x EXCEPT !.state = "COOKIE_WAIT"]
             v == sctp_timer_start(u, "INIT")
  <2>1. tags[n] + 1 \in Nat /\ tcbs[n] + 1 \in Nat
    BY DEF TypeOK
  <2>2. x \in Tcb
    BY <2>1, NewTcbType
  <2>3. /\ x.pending = FALSE /\ x.sock = TRUE /\ x.guard = FALSE
        /\ x.rxt = "NONE" /\ x.out = 0 /\ x.acked = 0
    BY DEF NewTcb, Closed
  <2> HIDE DEF x
  <2>4. u \in Tcb
    BY <2>2 DEF Tcb, State, FrontState
  <2>5. /\ u.state = "COOKIE_WAIT" /\ u.pending = FALSE /\ u.sock = TRUE
        /\ u.guard = FALSE /\ u.rxt = "NONE" /\ u.out = 0 /\ u.acked = 0
    BY <2>2, <2>3 DEF Tcb
  <2> HIDE DEF u
  <2>6. Same(u, v) /\ v.rxt = "INIT"
    BY <2>4, <2>5, SlotTimers
  <2> HIDE DEF v
  <2>7. Cover(v) /\ Armed(v)
    BY <2>5, <2>6 DEF Cover, Armed, Same, SendStates
  <2>8. Put(n, v, {Init_(n, v)})
    BY <1>3 DEF Connect, v, u, x
  <2> QED
    BY <2>7, <2>8, PutCover
<1>4. CASE SendStart(n)
  <2> DEFINE u == [t EXCEPT !.sending = TRUE]
  <2>1. Same(t, u) /\ u.rxt = t.rxt
    BY <1>1 DEF Same, Tcb
  <2>2. Put(n, u, {})
    BY <1>4 DEF SendStart
  <2> HIDE DEF u
  <2> QED
    BY <1>1, <2>1, <2>2, CoverSame, PutCover
<1>5. CASE SendFinish(n)
  <2> DEFINE u == [t EXCEPT !.sending = FALSE, !.out = @ + 1,
                            !.late = @ \/ t.state \in SentStates]
  <2>1. t.out + 1 \in 0 .. MaxMsgs
    BY <1>1, <1>5, Bounds DEF SendFinish, Tcb
  <2>2. u \in Tcb
    BY <1>1, <2>1 DEF Tcb
  <2>3. /\ u.state = t.state /\ u.pending = t.pending /\ u.sock = t.sock
        /\ u.guard = t.guard /\ u.rxt = t.rxt /\ u.acked = t.acked
        /\ u.out = t.out + 1
    BY <1>1 DEF Tcb
  <2>4. Output(n, u, {})
    BY <1>5 DEF SendFinish
  <2> HIDE DEF u
  <2>5. t.acked <= t.out + 1 /\ t.out + 1 # t.acked
    <3>1. t.acked \in 0 .. MaxMsgs /\ t.out \in 0 .. MaxMsgs /\ t.acked <= t.out
      BY <1>1 DEF Cover, Tcb
    <3> QED
      BY <3>1, Bounds
  <2>6. Cover(u)
    BY <1>1, <2>3, <2>5 DEF Cover
  <2> QED
    BY <2>2, <2>4, <2>6, OutputCover
<1>6. CASE UserShutdown(n)
  BY <1>1, <1>2, <1>6 DEF UserShutdown
<1>7. CASE UserClose(n)
  <2> DEFINE u == [t EXCEPT !.sock = FALSE]
  <2>1. u \in Tcb
    BY <1>1 DEF Tcb
  <2>2. /\ u.state = t.state /\ u.pending = t.pending /\ u.sock = FALSE
        /\ u.guard = t.guard /\ u.rxt = t.rxt /\ u.acked = t.acked
        /\ u.out = t.out
    BY <1>1 DEF Tcb
  <2>3. \/ sctp_free_assoc(n, {}) \/ sctp_abort_an_association(n, t)
        \/ StartShutdown(n, u, {"SHUTDOWN_SENT", "SHUTDOWN_ACK_SENT"})
    BY <1>7 DEF UserClose
  <2> HIDE DEF u
  <2>4. u.state \in {"SHUTDOWN_SENT", "SHUTDOWN_ACK_SENT"} => Cover(u)
    BY <1>1, <2>2 DEF Cover, SendStates
  <2> QED
    BY <1>2, <2>1, <2>2, <2>3, <2>4, FreeCover
<1>8. CASE UserAbort(n) \/ Reboot(n)
  BY <1>8, FreeCover DEF UserAbort, Reboot
<1> QED
  BY <1>3, <1>4, <1>5, <1>6, <1>7, <1>8 DEF User

LEMMA TimerCover ==
  ASSUME TypeOK, CoverInv, NEW n \in Node, Timer(n)
  PROVE  CoverInv'
<1> DEFINE t == tcb[n]
           e == Expired(t)
           k == Counted(t)
<1>1. t \in Tcb /\ Cover(t) /\ Armed(t)
  BY DEF TypeOK, CoverInv
<1>2. e \in Tcb /\ Same(t, e) /\ e.rxt = "NONE"
  BY <1>1, TimerTypes, SlotTimers
<1>3. k \in Tcb /\ Same(t, k) /\ k.rxt = "NONE"
  BY <1>1, CountedType, SlotTimers
<1>4. sctp_abort_an_association(n, t) => CoverInv'
  BY FreeCover
<1> HIDE DEF e, k
<1>5. ASSUME NEW max, NEW type \in RxtType, NEW ps, t.rxt = type,
             CountOrAbort(n, max, type, ps)
      PROVE  CoverInv'
  <2> DEFINE s == sctp_timer_start(k, type)
  <2>1. s \in Tcb /\ Same(k, s) /\ s.rxt = type
    BY <1>3, TimerTypes, SlotTimers
  <2>2. sctp_abort_an_association(n, t) \/ Output(n, s, ps)
    BY <1>5 DEF CountOrAbort, k
  <2> HIDE DEF s
  <2>3. Cover(s)
    BY <1>1, <1>3, <1>5, <2>1, SameTrans, CoverSame
  <2> QED
    BY <1>4, <2>1, <2>2, <2>3, OutputCover
<1>6. ASSUME t.rxt \in {"INIT", "COOKIE"}, t.state # "COOKIE_WAIT",
             t.state = "COOKIE_ECHOED" => ~t.sock, Put(n, e, {})
      PROVE  CoverInv'
  <2>1. t.state \notin SendStates
    BY <1>1, <1>6 DEF Cover
  <2>2. t.state = "COOKIE_ECHOED" => t.guard
    BY <1>1, <1>6 DEF Cover
  <2>3. t.state = "SHUTDOWN_ACK_SENT" => t.guard
    BY <1>1, <1>6 DEF Cover
  <2>4. Cover(e)
    BY <1>1, <1>2, <1>6, <2>1, <2>2, <2>3 DEF Cover, Same
  <2>5. Armed(e)
    BY <1>2, <1>6, <2>1 DEF Armed, Same
  <2> QED
    BY <1>6, <2>4, <2>5, PutCover
<1>7. CASE InitTimer(n)
  BY <1>1, <1>5, <1>6, <1>7 DEF InitTimer, RxtType, Cover, e
<1>8. CASE CookieTimer(n)
  <2>1. t.rxt = "COOKIE" /\ t.state # "COOKIE_WAIT"
    BY <1>1, <1>8 DEF CookieTimer, Cover
  <2> QED
    BY <1>4, <1>5, <1>6, <1>8, <2>1 DEF CookieTimer, RxtType, e
<1>9. CASE ShutdownTimer(n) \/ ShutdownAckTimer(n)
  BY <1>5, <1>9 DEF ShutdownTimer, ShutdownAckTimer, RxtType
<1>10. CASE T3Timer(n)
  <2>1. t.rxt = "SEND" /\ (sctp_abort_an_association(n, t) \/ Output(n, k, {}))
    BY <1>10 DEF T3Timer, k
  <2>2. Cover(k)
    BY <1>1, <1>3, <2>1 DEF Cover, Same
  <2> QED
    BY <1>3, <1>4, <2>1, <2>2, OutputCover
<1>11. CASE GuardTimer(n)
  BY <1>4, <1>11 DEF GuardTimer
<1> QED
  BY <1>7, <1>8, <1>9, <1>10, <1>11 DEF Timer

(* The identity of a TCB, by which a restart is told from other steps. *)
SameId(t, u) == u.nonce = t.nonce /\ u.my_vtag = t.my_vtag

LEMMA RestartId ==
  ASSUME NEW t \in Tcb, NEW c \in Cookie, t.state # "CLOSED"
  PROVE  CookieA(t, c).nonce = t.nonce /\ CookieA(t, c).my_vtag = c.my
<1> DEFINE b == RestartBegin(t)
<1>1. b \in Tcb /\ b.nonce = t.nonce
  BY BeginMoves
<1>2. CookieA(t, c) = RestartEnd(b, c)
  BY DEF CookieA
<1> HIDE DEF b
<1>3. RestartEnd(b, c).nonce = b.nonce /\ RestartEnd(b, c).my_vtag = c.my
  BY <1>1, EndMoves
<1> QED
  BY <1>1, <1>2, <1>3

LEMMA OutputId ==
  ASSUME TypeOK, NEW n \in Node, NEW u \in Tcb, NEW ps, Output(n, u, ps)
  PROVE  SameId(u, tcb'[n])
<1>1. tcb'[n] = sctp_chunk_output(u)
  BY DEF Output, TypeOK
<1> QED
  BY <1>1, CalmOutput DEF Calm, Keeps, SameId

(* A cookie of case A restarts the TCB, or its data aborts it at once. *)
LEMMA RestartShows ==
  ASSUME TypeOK, NEW n \in Node, NEW t \in Tcb, NEW m \in Packet,
         t.state # "CLOSED",
         m.cookie \in Cookie, CookieA(t, m.cookie) \in Tcb,
         CookieCaseA(t, m.cookie), AckCookie(n, CookieA(t, m.cookie), m)
  PROVE  \/ tcb'[n] = Closed
         \/ tcb'[n].nonce = t.nonce /\ tcb'[n].my_vtag # t.my_vtag
<1> DEFINE w == CookieA(t, m.cookie)
           u == sctp_toss_old_cookies(sctp_stop_all_cookie_timers(w))
           ack == {Chunk(n, u, "COOKIE_ACK")}
           d == sctp_process_data(u, m.seq, 1 .. m.num)
<1>1. w.nonce = t.nonce /\ w.my_vtag # t.my_vtag
  BY RestartId DEF CookieCaseA, MyTagSame
<1>2. u \in Tcb /\ SameId(w, u)
  BY KeepsToss DEF Keeps, SameId
<1>3. ReceiveData(n, u, m.seq, 1 .. m.num, ack) \/ Output(n, u, ack)
  BY DEF AckCookie
<1> HIDE DEF w, u, ack
<1>4. CASE Output(n, u, ack)
  BY <1>1, <1>2, <1>4, OutputId DEF SameId
<1>5. CASE ReceiveData(n, u, m.seq, 1 .. m.num, ack)
  <2>1. \/ sctp_abort_an_association(n, u)
        \/ Output(n, d, ack \cup sctp_sack_check(n, d))
    BY <1>5 DEF ReceiveData
  <2>2. CASE sctp_abort_an_association(n, u)
    <3>1. tcb'[n] = Closed
      BY <2>2 DEF sctp_abort_an_association, sctp_free_assoc, Put, TypeOK
    <3> QED
      BY <3>1
  <2>3. m.seq \in Nat /\ 1 .. m.num \in SUBSET (0 .. MaxMsgs)
    <3>1. m.seq \in Nat /\ m.num \in 0 .. MaxMsgs
      BY DEF Packet
    <3> QED
      BY <3>1, Bounds
  <2>4. d \in Tcb
    BY <1>2, <2>3, ProcessDataType
  <2>5. SameId(u, d)
    BY <1>2 DEF sctp_process_data, SameId, Tcb
  <2> HIDE DEF d
  <2>6. CASE Output(n, d, ack \cup sctp_sack_check(n, d))
    BY <1>1, <1>2, <2>4, <2>5, <2>6, OutputId DEF SameId
  <2> QED
    BY <2>1, <2>2, <2>6
<1> QED
  BY <1>3, <1>4, <1>5


LEMMA SetupCover ==
  ASSUME TypeOK, CoverInv, IdleRestart, NEW n \in Node, NEW m \in net,
         \/ HandleInit(n, m) \/ HandleInitAck(n, m) \/ HandleCookieEcho(n, m)
         \/ StaleCookie(n, m) \/ HandleStale(n, m) \/ HandleCookieAck(n, m)
  PROVE  CoverInv'
<1> DEFINE t == tcb[n]
           c == m.cookie
<1>1. t \in Tcb /\ m \in Packet /\ Cover(t) /\ Armed(t)
  BY DEF TypeOK, CoverInv
<1>2. /\ m.tag \in Nat /\ m.seq \in Nat /\ c \in Cookie
      /\ c.my \in Nat /\ c.peer \in Nat /\ c.myseq \in Nat /\ c.peerseq \in Nat
  BY <1>1 DEF Packet, Cookie
<1>3. \A ps : Put(n, t, ps) \/ Output(n, t, ps) => CoverInv'
  BY <1>1, PutCover, OutputCover
<1>4. sctp_free_assoc(n, {}) => CoverInv'
  BY FreeCover
<1>5. CASE HandleInit(n, m) \/ StaleCookie(n, m)
  BY <1>3, <1>5 DEF HandleInit, StaleCookie
<1>6. CASE HandleInitAck(n, m)
  <2> DEFINE s == sctp_timer_stop(t, "INIT")
             u == sctp_process_init(s, m.tag, m.seq)
             w == [u EXCEPT !.state = "COOKIE_ECHOED", !.err = 0,
                            !.cookie = m.cookie]
             v == sctp_timer_start(w, "COOKIE")
  <2>1. CASE /\ t.state = "COOKIE_WAIT"
             /\ Output(n, v, {CookieEcho(n, v, v.out)})
    <3>1. s \in Tcb /\ Same(t, s) /\ s.rxt = "NONE"
      <4>1. /\ s \in Tcb /\ Same(t, s)
            /\ s.rxt = IF t.rxt = "INIT" THEN "NONE" ELSE t.rxt
        BY <1>1, TimerTypes, SlotTimers DEF RxtType
      <4> QED
        BY <1>1, <2>1, <4>1 DEF Cover
    <3> HIDE DEF s
    <3>2. u \in Tcb /\ Same(s, u) /\ u.rxt = s.rxt
      BY <1>2, <3>1, SlotInit
    <3> HIDE DEF u
    <3>3. w \in Tcb
      BY <1>2, <3>2 DEF Tcb, State, FrontState
    <3>4. /\ w.state = "COOKIE_ECHOED" /\ w.pending = u.pending
          /\ w.sock = u.sock /\ w.guard = u.guard /\ w.out = u.out
          /\ w.acked = u.acked /\ w.rxt = u.rxt
      BY <3>2 DEF Tcb
    <3> HIDE DEF w
    <3>5. v \in Tcb /\ Same(w, v) /\ v.rxt = "COOKIE"
      BY <3>1, <3>2, <3>3, <3>4, TimerTypes, SlotTimers DEF RxtType
    <3> HIDE DEF v
    <3>6. Cover(v)
      BY <1>1, <2>1, <3>1, <3>2, <3>4, <3>5 DEF Cover, Same, SendStates
    <3> QED
      BY <2>1, <3>5, <3>6, OutputCover
  <2> QED
    BY <1>4, <1>6, <2>1 DEF HandleInitAck
<1>7. CASE HandleStale(n, m)
  <2> DEFINE u == sctp_toss_old_cookies(sctp_stop_all_cookie_timers(t))
             w == [u EXCEPT !.state = "COOKIE_WAIT", !.stale = @ + 1]
             v == sctp_timer_start(w, "INIT")
  <2>1. u \in Tcb /\ Same(t, u) /\ u.rxt = NoSetupTimer(t.rxt)
    BY <1>1, SlotAckCookie
  <2>2. t.state = "COOKIE_ECHOED" /\ (sctp_free_assoc(n, {}) \/ Put(n, v, {Init_(n, v)}))
    BY <1>7 DEF HandleStale
  <2> HIDE DEF u
  <2>3. u.rxt = "NONE"
    BY <1>1, <2>1, <2>2 DEF Cover, NoSetupTimer
  <2>4. w \in Tcb
    <3>1. u.stale + 1 \in Nat
      BY <2>1 DEF Tcb
    <3>2. "COOKIE_WAIT" \in State
      BY DEF State, FrontState
    <3> QED
      BY <2>1, <3>1, <3>2 DEF Tcb
  <2>5. /\ w.state = "COOKIE_WAIT" /\ w.pending = u.pending
        /\ w.sock = u.sock /\ w.guard = u.guard /\ w.out = u.out
        /\ w.acked = u.acked /\ w.rxt = u.rxt
    BY <2>1 DEF Tcb
  <2> HIDE DEF w
  <2>6. Same(w, v) /\ v.rxt = "INIT"
    BY <2>3, <2>4, <2>5, SlotTimers
  <2> HIDE DEF v
  <2>7. Cover(v) /\ Armed(v)
    BY <1>1, <2>1, <2>2, <2>5, <2>6 DEF Cover, Armed, Same, SendStates
  <2> QED
    BY <1>4, <2>2, <2>7, PutCover
<1>8. CASE HandleCookieAck(n, m)
  <2>1. /\ t.state # "CLOSED"
        /\ sctp_free_assoc(n, {}) \/ Output(n, sctp_handle_cookie_ack(t), {})
    BY <1>8 DEF HandleCookieAck
  <2> QED
    BY <1>1, <1>4, <2>1, CookieAckTypes, CoverCookieAck, OutputCover
<1>9. CASE HandleCookieEcho(n, m)
  <2> DEFINE k == NewTcb(c.my, tcbs[n] + 1)
             u == sctp_process_init(k, c.peer, c.peerseq)
             v == [u EXCEPT !.init_seq = c.myseq]
             w == MoveToOpen(v)
  <2>1. CASE AckCookie(n, w, m)
    <3>1. k \in Tcb
      BY <1>2, NewTcbType DEF TypeOK
    <3>2. /\ k.pending = FALSE /\ k.sock = TRUE /\ k.guard = FALSE
          /\ k.rxt = "NONE" /\ k.out = 0 /\ k.acked = 0
      BY DEF NewTcb, Closed
    <3> HIDE DEF k
    <3>3. u \in Tcb /\ Same(k, u) /\ u.rxt = k.rxt
      BY <1>2, <3>1, SlotInit
    <3> HIDE DEF u
    <3>4. v \in Tcb /\ Same(u, v) /\ v.rxt = u.rxt
      BY <1>2, <3>3 DEF Tcb, Same
    <3> HIDE DEF v
    <3>5. /\ w \in Tcb /\ w.state = "OPEN" /\ w.pending = FALSE
          /\ w.sock = TRUE /\ w.rxt = "NONE" /\ w.out = 0 /\ w.acked = 0
      <4>1. w \in Tcb
        BY <3>4, TimerTypes
      <4>2. /\ w.state = "OPEN" /\ w.pending = v.pending /\ w.sock = v.sock
            /\ w.out = v.out /\ w.acked = v.acked /\ w.rxt = v.rxt
        BY <3>4, SlotOpen
      <4> QED
        BY <3>2, <3>3, <3>4, <4>1, <4>2 DEF Same
    <3> HIDE DEF w
    <3>6. ASSUME NEW x, Same(w, x), x.rxt = NoSetupTimer(w.rxt) PROVE Cover(x)
      BY <3>5, <3>6 DEF Cover, Same, NoSetupTimer, SendStates
    <3> QED
      BY <1>1, <2>1, <3>5, <3>6, AckCookieCover
  <2>2. CASE t.state # "CLOSED" /\ sctp_process_cookie_existing(n, t, m)
    <3>1. /\ CookieD(t, c) \in Tcb /\ CookieB(t, c) \in Tcb
          /\ CookieA(t, c) \in Tcb
      BY <1>1, <1>2, CookieCaseTypes
    <3>2. CASE Output(n, t, {Chunk(n, t, "SHUTDOWN_ACK")})
      BY <1>3, <3>2
    <3>3. CASE /\ t.state # "SHUTDOWN_ACK_SENT"
               /\ AckCookie(n, CookieD(t, c), m)
      BY <1>1, <1>2, <2>2, <3>1, <3>3, CoverCookieD, AckCookieCover
    <3>4. CASE /\ t.state # "SHUTDOWN_ACK_SENT"
               /\ AckCookie(n, CookieB(t, c), m)
      BY <1>1, <1>2, <2>2, <3>1, <3>4, CoverCookieB, AckCookieCover
    <3>5. CASE /\ t.state # "SHUTDOWN_ACK_SENT" /\ CookieCaseA(t, c)
               /\ AckCookie(n, CookieA(t, c), m)
      <4>1. CASE t.rxt # "SEND" \/ t.guard
        BY <1>1, <1>2, <2>2, <3>1, <3>5, <4>1, CoverCookieA, AckCookieCover
      <4>2. CASE tcb'[n].nonce # t.nonce \/ tcb'[n].my_vtag = t.my_vtag
        <5>1. tcb'[n] = Closed
          BY <1>1, <1>2, <2>2, <3>1, <3>5, <4>2, RestartShows
        <5>2. \A i \in Node : i # n => tcb'[i] = tcb[i]
          BY <1>9, HandleCookieEchoStep DEF StepOf, Alone
        <5> QED
          BY <5>1, <5>2, CoverClosed DEF CoverInv, Cover, Armed
      <4> QED
        BY <4>1, <4>2 DEF IdleRestart
    <3> QED
      BY <2>2, <3>2, <3>3, <3>4, <3>5 DEF sctp_process_cookie_existing
  <2> QED
    BY <1>9, <2>1, <2>2 DEF HandleCookieEcho
<1> QED
  BY <1>5, <1>6, <1>7, <1>8, <1>9

LEMMA TransferCover ==
  ASSUME TypeOK, CoverInv, NEW n \in Node, NEW m \in net,
         HandleData(n, m) \/ HandleSack(n, m)
  PROVE  CoverInv'
<1> DEFINE T == tcb[n]
           t == ImpliedCookieAck(T)
<1>1. T \in Tcb /\ m \in Packet /\ Cover(T)
  BY DEF TypeOK, CoverInv
<1>2. /\ t \in Tcb
      /\ t.state = IF T.state = "COOKIE_ECHOED" THEN "OPEN" ELSE T.state
  BY <1>1, CalmImplied
<1>3. T.state # "CLOSED" => Cover(t)
  BY <1>1, CoverCookieAck
<1>4. m.seq \in Nat /\ {m.num} \in SUBSET (0 .. MaxMsgs)
  BY <1>1 DEF Packet
<1> HIDE DEF t
<1>5. CASE HandleData(n, m)
  <2>1. \/ t.state = "COOKIE_WAIT" /\ Put(n, t, {Reflect(n, m, "ABORT")})
        \/ /\ t.state \in {"OPEN", "SHUTDOWN_SENT"}
           /\ ReceiveData(n, t, m.seq, {m.num}, {})
    BY <1>5 DEF HandleData, t
  <2>2. Cover(t)
    BY <1>2, <1>3, <2>1
  <2>3. t.state = "COOKIE_WAIT" => Armed(t)
    BY DEF Armed, SendStates
  <2> QED
    BY <1>2, <1>4, <2>1, <2>2, <2>3, PutCover, ReceiveDataCover
<1>6. CASE HandleSack(n, m)
  <2> DEFINE u == sctp_express_handle_sack(t, m)
             w == ShutdownIssues(t)
  <2>1. /\ t.state # "CLOSED"
        /\ \/ Output(n, u, ShutdownPkts(n, t, u))
           \/ Output(n, w, ShutdownPkts(n, t, w))
    BY <1>6 DEF HandleSack, t
  <2>2. Cover(t)
    BY <1>2, <1>3, <2>1
  <2>3. u \in Tcb /\ w \in Tcb /\ Cover(u) /\ Cover(w)
    BY <1>1, <1>2, <2>1, <2>2, SackType, ToShutdownTypes, CoverSack, CoverIssues
  <2> HIDE DEF u, w
  <2> QED
    BY <2>1, <2>3, OutputCover
<1> QED
  BY <1>5, <1>6

(* A SACK moves the state only by sending SHUTDOWN or SHUTDOWN-ACK. *)
LEMMA SackStates ==
  ASSUME NEW t \in Tcb, NEW m \in Packet
  PROVE  sctp_express_handle_sack(t, m).state \in {t.state} \cup SentStates
<1> DEFINE a == [t EXCEPT !.acked = m.num, !.err = 0]
           v == IF Drained(a) THEN sctp_timer_stop(a, "SEND") ELSE a
           p == [v EXCEPT !.state = "SHUTDOWN_SENT", !.pending = FALSE]
           q == [v EXCEPT !.state = "SHUTDOWN_ACK_SENT", !.pending = FALSE]
           s == sctp_timer_start(p, "SHUTDOWN")
<1>1. a \in Tcb /\ a.state = t.state
  BY DEF Tcb, Packet
<1> HIDE DEF a
<1>2. v \in Tcb /\ v.state = t.state
  BY <1>1, TimerTypes, CalmTimers DEF RxtType
<1>3. \/ sctp_express_handle_sack(t, m) = ShutdownIssues(v)
      \/ sctp_express_handle_sack(t, m) = t
  BY DEF sctp_express_handle_sack, a, v
<1> HIDE DEF v
<1>4. p \in Tcb /\ q \in Tcb
  BY <1>2 DEF Tcb, State
<1>5. p.state = "SHUTDOWN_SENT" /\ q.state = "SHUTDOWN_ACK_SENT"
  BY <1>2 DEF Tcb
<1> HIDE DEF p, q
<1>6. s \in Tcb /\ s.state = p.state
  BY <1>4, TimerTypes, SlotTimers DEF RxtType, Same
<1> HIDE DEF s
<1>7. StartGuard(s).state = s.state
  BY <1>6 DEF StartGuard, Tcb
<1>8. sctp_timer_start(q, "SHUTDOWNACK").state = q.state
  BY <1>4, SlotTimers DEF Same
<1>9. ToShutdownSent(v).state = "SHUTDOWN_SENT"
  BY <1>5, <1>6, <1>7 DEF ToShutdownSent, p, s
<1>10. ToShutdownAckSent(v).state = "SHUTDOWN_ACK_SENT"
  BY <1>5, <1>8 DEF ToShutdownAckSent, q
<1>11. ShutdownIssues(v).state \in {v.state} \cup SentStates
  BY <1>9, <1>10 DEF ShutdownIssues, SentStates
<1> QED
  BY <1>2, <1>3, <1>11

LEMMA TeardownCover ==
  ASSUME TypeOK, CoverInv, NEW n \in Node, NEW m \in net,
         \/ HandleShutdown(n, m) \/ HandleShutdownAck(n, m)
         \/ HandleShutdownComplete(n, m) \/ HandleAbort(n, m)
         \/ OutOfTheBlue(n, m)
  PROVE  CoverInv'
<1> DEFINE t == tcb[n]
<1>1. t \in Tcb /\ m \in Packet /\ Cover(t) /\ Armed(t)
  BY DEF TypeOK, CoverInv
<1>2. CASE HandleShutdown(n, m)
  <2> DEFINE u == sctp_express_handle_sack(t, m)
             r == [u EXCEPT !.state = "SHUTDOWN_RECEIVED", !.pending = FALSE]
             v == IF u.sock /\ u.state = "OPEN" THEN r ELSE u
             w == IF v.state = "SHUTDOWN_SENT" THEN sctp_timer_stop(v, "SHUTDOWN")
                                               ELSE v
             x == ToShutdownAckSent(w)
  <2>1. /\ t.state \notin FrontState \cup {"CLOSED"}
        /\ \/ /\ Drained(w)
              /\ Output(n, x, ShutdownPkts(n, t, u)
                                \cup {Chunk(n, x, "SHUTDOWN_ACK")})
           \/ ~Drained(w) /\ Output(n, w, ShutdownPkts(n, t, u))
    BY <1>2 DEF HandleShutdown
  <2>2. u \in Tcb /\ Cover(u)
    BY <1>1, <2>1, SackType, CoverSack
  <2>3. u.state \in SendStates \cup SentStates
    BY <1>1, <2>1, SackStates DEF SendStates, SentStates, FrontState, State, Tcb
  <2> HIDE DEF u
  <2>4. r \in Tcb
    BY <2>2 DEF Tcb, State
  <2>5. /\ r.state = "SHUTDOWN_RECEIVED" /\ r.pending = FALSE
        /\ r.sock = u.sock /\ r.guard = u.guard /\ r.rxt = u.rxt
        /\ r.out = u.out /\ r.acked = u.acked
    BY <2>2 DEF Tcb
  <2> HIDE DEF r
  <2>6. /\ v \in Tcb /\ v.out = u.out /\ v.acked = u.acked
        /\ v.rxt = u.rxt /\ v.guard = u.guard
        /\ v.state = "SHUTDOWN_SENT" => v = u
    BY <2>2, <2>4, <2>5
  <2>7. v = u \/ (u.state = "OPEN" /\ u.sock /\ v = r)
    OBVIOUS
  <2> HIDE DEF v
  <2>8. CASE v.state # "SHUTDOWN_SENT"
    <3>1. w = v
      BY <2>8
    <3> HIDE DEF w
    <3>2. ~Drained(v) => Cover(v)
      BY <2>2, <2>5, <2>7 DEF Cover, Drained, SendStates
    <3>3. u.state # "SHUTDOWN_SENT"
      BY <2>5, <2>7, <2>8
    <3>4. Drained(v) => u.rxt \in {"NONE", "SHUTDOWNACK"} \/ u.guard
      BY <2>2, <2>3, <2>6, <3>3 DEF Cover, Drained, SendStates, SentStates
    <3>5. Drained(v) => Cover(x)
      <4>1. v.acked <= v.out /\ (v.rxt = "SEND" => v.out # v.acked \/ v.guard)
        BY <2>2, <2>6 DEF Cover
      <4> QED
        BY <2>6, <3>1, <3>4, <4>1, CoverAckSent
    <3>6. x \in Tcb
      BY <2>6, <3>1, ToShutdownTypes
    <3> HIDE DEF x
    <3> QED
      BY <2>1, <2>6, <3>1, <3>2, <3>5, <3>6, OutputCover
  <2>9. CASE v.state = "SHUTDOWN_SENT"
    <3>1. w = sctp_timer_stop(u, "SHUTDOWN")
      BY <2>6, <2>9
    <3> HIDE DEF w
    <3>2. w \in Tcb /\ Same(u, w) /\ (w.rxt = u.rxt \/ w.rxt = "NONE")
      BY <2>2, <3>1, TimerTypes, SlotTimers DEF RxtType
    <3>3. u.state = "SHUTDOWN_SENT" /\ u.guard
      BY <2>2, <2>6, <2>9 DEF Cover
    <3>4. Cover(w)
      BY <2>2, <3>2, <3>3 DEF Cover, Same, SendStates
    <3>5. w.guard /\ w.acked <= w.out
      BY <3>2, <3>3, <3>4 DEF Same, Cover
    <3>6. x \in Tcb /\ Cover(x)
      BY <3>2, <3>5, CoverAckSent, ToShutdownTypes
    <3> HIDE DEF x
    <3> QED
      BY <2>1, <3>2, <3>4, <3>6, OutputCover
  <2> QED
    BY <2>8, <2>9
<1>3. CASE HandleShutdownAck(n, m)
  BY <1>1, <1>3, PutCover, FreeCover DEF HandleShutdownAck
<1>4. CASE HandleShutdownComplete(n, m) \/ HandleAbort(n, m)
  BY <1>4, FreeCover DEF HandleShutdownComplete, HandleAbort
<1>5. CASE OutOfTheBlue(n, m)
  BY <1>1, <1>5, PutCover DEF OutOfTheBlue
<1> QED
  BY <1>2, <1>3, <1>4, <1>5

LEMMA CoverInductive ==
  ASSUME ~SlowRestart
  PROVE  (TypeOK /\ WindowInv /\ CoverInv /\ [Next]_vars /\ [IdleRestart]_vars)
           => CoverInv'
<1> SUFFICES ASSUME TypeOK, WindowInv, CoverInv, [Next]_vars, [IdleRestart]_vars
             PROVE  CoverInv'
  OBVIOUS
<1>1. CASE UNCHANGED vars
  BY <1>1 DEF CoverInv, Cover, Armed, vars
<1>2. CASE Next /\ IdleRestart
  <2>1. ASSUME NEW n \in Node, User(n) \/ SendFinish(n) PROVE CoverInv'
    BY <2>1, UserCover
  <2>2. ASSUME NEW n \in Node, Timer(n) PROVE CoverInv'
    BY <2>2, TimerCover
  <2>3. ASSUME NEW n \in Node, NEW m \in net, Receive(n, m) PROVE CoverInv'
    BY <1>2, <2>3, SetupCover, TransferCover, TeardownCover DEF Receive
  <2>4. \A n \in Node : ~RestartRelocks(n) /\ \A m \in net : ~RestartUnlocks(n, m)
    BY DEF RestartRelocks, RestartUnlocks, WindowInv, Window
  <2> QED
    BY <1>2, <2>1, <2>2, <2>3, <2>4 DEF Next
<1> QED
  BY <1>1, <1>2

(***************************************************************************)
(* Five timers share the one slot of a destination, and still nothing      *)
(* waits untimed: sctp_timer_start refuses a slot in use and               *)
(* sctp_timer_stop leaves another type alone, yet in every state what is   *)
(* waited for has its timer in the slot or the guard timer behind it, if   *)
(* no association restarts while its T3 is the only timer that runs.  The  *)
(* restart is one step here.                                               *)
(***************************************************************************)
THEOREM NothingWaitsUntimed ==
  ASSUME ~SlowRestart PROVE Spec /\ IdleRestarts => []TimersCover
<1>1. Init => CoverInv
  BY CoverClosed DEF Init, CoverInv
<1>2. CoverInv => TimersCover
  BY DEF CoverInv, Cover, Armed, TimersCover, Drained, SentStates
<1> QED
  BY <1>1, <1>2, CoverInductive, WindowAlways, TypeCorrect, PTL
     DEF Spec, IdleRestarts
=============================================================================

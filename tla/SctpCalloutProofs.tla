-------------------------- MODULE SctpCalloutProofs --------------------------
(***************************************************************************)
(* Theorems about SctpCallout for any number of timers, starts and ticks   *)
(* and any width of the clock: the queue is consistent, and the queue and  *)
(* the handler's checks implement the safety part of TimerService.         *)
(***************************************************************************)
EXTENDS SctpCallout, TLAPS

(* A timer is in a queue, and a queue holds no timer twice. *)
In(q, c) == \E i \in DOMAIN q : q[i] = c
Queue == {q \in Seq(Timers) : \A i, j \in DOMAIN q : q[i] = q[j] => i = j}

-----------------------------------------------------------------------------
(***************************************************************************)
(* The operations on queues.                                               *)
(***************************************************************************)
LEMMA IndexFound ==
  ASSUME NEW q \in Queue, NEW c, In(q, c)
  PROVE  Index(q, c) \in 1 .. Len(q) /\ q[Index(q, c)] = c
<1>1. DOMAIN q = 1 .. Len(q)
  BY DEF Queue
<1>2. Index(q, c) \in DOMAIN q /\ q[Index(q, c)] = c
  BY DEF In, Index
<1> QED
  BY <1>1, <1>2

LEMMA RemoveCorrect ==
  ASSUME NEW q \in Queue, NEW c, In(q, c)
  PROVE  /\ TAILQ_REMOVE(q, c) \in Queue
         /\ \A d : In(TAILQ_REMOVE(q, c), d) <=> In(q, d) /\ d # c
<1> DEFINE k == Index(q, c)
           r == TAILQ_REMOVE(q, c)
           n == Len(q) - 1
           at(i) == IF i < k THEN i ELSE i + 1
<1>1. q \in Seq(Timers) /\ DOMAIN q = 1 .. Len(q) /\ Len(q) \in Nat
  BY DEF Queue
<1>2. \A i, j \in 1 .. Len(q) : q[i] = q[j] => i = j
  BY <1>1 DEF Queue
<1>3. k \in 1 .. Len(q) /\ q[k] = c
  BY IndexFound
<1>4. r = [i \in 1 .. n |-> q[at(i)]]
  BY DEF TAILQ_REMOVE
<1> HIDE DEF k, r
<1>5. n \in Nat /\ \A i \in 1 .. n : at(i) \in 1 .. Len(q) /\ at(i) # k
  BY <1>1, <1>3
<1>6. \A i, j \in 1 .. n : at(i) = at(j) => i = j
  BY <1>3, <1>1
<1>7. \A i \in 1 .. Len(q) : i # k => \E j \in 1 .. n : at(j) = i
  <2> SUFFICES ASSUME NEW i \in 1 .. Len(q), i # k
               PROVE  \E j \in 1 .. n : at(j) = i
    OBVIOUS
  <2>1. CASE i < k
    <3>1. i \in 1 .. n /\ at(i) = i
      BY <2>1, <1>1, <1>3
    <3> QED
      BY <3>1
  <2>2. CASE i > k
    <3>1. i - 1 \in 1 .. n /\ at(i - 1) = i
      BY <2>2, <1>1, <1>3
    <3> QED
      BY <3>1
  <2> QED
    BY <2>1, <2>2, <1>1, <1>3
<1> HIDE DEF at, n
<1>8. r \in Seq(Timers) /\ DOMAIN r = 1 .. n
  <2>1. \A i \in 1 .. n : q[at(i)] \in Timers
    BY <1>1, <1>5
  <2> QED
    BY <2>1, <1>4, <1>5
<1>9. r \in Queue
  BY <1>2, <1>4, <1>5, <1>6, <1>8 DEF Queue
<1>10. ASSUME NEW d PROVE In(r, d) <=> In(q, d) /\ d # c
  <2>1. In(r, d) <=> \E i \in 1 .. n : q[at(i)] = d
    BY <1>4, <1>8 DEF In
  <2>2. In(q, d) <=> \E i \in 1 .. Len(q) : q[i] = d
    BY <1>1 DEF In
  <2>3. ASSUME NEW i \in 1 .. n, q[at(i)] = d PROVE In(q, d) /\ d # c
    BY <2>2, <2>3, <1>2, <1>3, <1>5
  <2>4. ASSUME NEW i \in 1 .. Len(q), q[i] = d, d # c PROVE In(r, d)
    BY <2>1, <2>4, <1>3, <1>7
  <2> QED
    BY <2>1, <2>2, <2>3, <2>4
<1> QED
  BY <1>9, <1>10 DEF r

LEMMA AppendCorrect ==
  ASSUME NEW q \in Queue, NEW c \in Timers, ~In(q, c)
  PROVE  /\ Append(q, c) \in Queue
         /\ \A d : In(Append(q, c), d) <=> In(q, d) \/ d = c
<1> DEFINE r == Append(q, c)
<1>1. q \in Seq(Timers) /\ DOMAIN q = 1 .. Len(q) /\ Len(q) \in Nat
  BY DEF Queue
<1>2. /\ r \in Seq(Timers) /\ DOMAIN r = 1 .. (Len(q) + 1)
      /\ r[Len(q) + 1] = c /\ \A i \in 1 .. Len(q) : r[i] = q[i]
  BY <1>1
<1> HIDE DEF r
<1>3. \A i \in 1 .. (Len(q) + 1) : i \in 1 .. Len(q) \/ i = Len(q) + 1
  BY <1>1
<1>4. \A i \in 1 .. Len(q) : q[i] # c
  BY <1>1 DEF In
<1>5. r \in Queue
  BY <1>1, <1>2, <1>3, <1>4 DEF Queue
<1>6. \A d : In(r, d) <=> In(q, d) \/ d = c
  <2>1. Len(q) + 1 \in 1 .. (Len(q) + 1)
        /\ \A i \in 1 .. Len(q) : i \in 1 .. (Len(q) + 1)
    BY <1>1
  <2> QED
    BY <1>1, <1>2, <1>3, <2>1 DEF In
<1> QED
  BY <1>5, <1>6 DEF r

LEMMA NextCorrect ==
  ASSUME NEW q \in Queue, NEW c, In(q, c)
  PROVE  TAILQ_NEXT(q, c) = NULL
         \/ (In(q, TAILQ_NEXT(q, c)) /\ TAILQ_NEXT(q, c) # c
             /\ TAILQ_NEXT(q, c) \in Timers)
<1> DEFINE k == Index(q, c)
<1>1. q \in Seq(Timers) /\ DOMAIN q = 1 .. Len(q) /\ Len(q) \in Nat
  BY DEF Queue
<1>2. k \in 1 .. Len(q) /\ q[k] = c
  BY IndexFound
<1>3. CASE k = Len(q)
  BY <1>3 DEF TAILQ_NEXT
<1>4. CASE k # Len(q)
  <2>1. TAILQ_NEXT(q, c) = q[k + 1]
    BY <1>4 DEF TAILQ_NEXT
  <2>2. k + 1 \in 1 .. Len(q) /\ k + 1 # k
    BY <1>1, <1>2, <1>4
  <2>3. q[k + 1] # c
    BY <1>1, <1>2, <2>2 DEF Queue
  <2> QED
    BY <2>1, <2>2, <2>3, <1>1 DEF In
<1> QED
  BY <1>3, <1>4

-----------------------------------------------------------------------------
(***************************************************************************)
(* The inductive invariant.  The flags describe the queue; the timer with  *)
(* which the walk goes on is in the queue; and while a handler is between  *)
(* its call and its checks, a timer that is active but not in the queue    *)
(* has not been started since it expired.                                  *)
(***************************************************************************)
QueueInv ==
  /\ callqueue \in Queue
  /\ pending \in [Timers -> BOOLEAN]
  /\ \A c \in Timers : pending[c] <=> In(callqueue, c)
  /\ next \in Timers \cup {NULL}
  /\ next # NULL => In(callqueue, next)

HandlerInv ==
  /\ active \in [Timers -> BOOLEAN]
  /\ gen \in [Timers -> Nat]
  /\ phase \in {"idle", "call", "lock", "done"}
  /\ phase \in {"call", "lock"} =>
       /\ run \in Timers
       /\ active[run] /\ ~In(callqueue, run) => rungen = gen[run]

CalloutInv == QueueInv /\ HandlerInv

(* The steps of the walk change the queue alike. *)
LEMMA WalkKeepsInv ==
  ASSUME CalloutInv, NEW now, NEW i \in Nat \ {0}, Walk(now, i),
         UNCHANGED <<active, gen>>
  PROVE  CalloutInv'
<1>1. CASE Due(now, i) = {} /\ UNCHANGED <<callqueue, pending, rungen>>
           /\ phase' = "idle" /\ next' = NULL
  BY <1>1 DEF CalloutInv, QueueInv, HandlerInv
<1>2. ASSUME NEW j \in Due(now, i),
             next' = TAILQ_NEXT(callqueue, callqueue[j]),
             callqueue' = TAILQ_REMOVE(callqueue, callqueue[j]),
             pending' = [pending EXCEPT ![callqueue[j]] = FALSE],
             run' = callqueue[j], phase' = "call", rungen' = gen[callqueue[j]]
      PROVE  CalloutInv'
  <2> DEFINE c == callqueue[j]
  <2>1. callqueue \in Seq(Timers) /\ Len(callqueue) \in Nat
        /\ DOMAIN callqueue = 1 .. Len(callqueue)
    BY DEF CalloutInv, QueueInv, Queue
  <2>2. j \in 1 .. Len(callqueue)
    BY <2>1 DEF Due
  <2>3. c \in Timers /\ In(callqueue, c) /\ callqueue \in Queue
    BY <2>1, <2>2 DEF In, CalloutInv, QueueInv
  <2> HIDE DEF c
  <2>4. /\ callqueue' \in Queue
        /\ \A d : In(callqueue', d) <=> In(callqueue, d) /\ d # c
    BY <1>2, <2>3, RemoveCorrect DEF c
  <2>5. next' = NULL \/ (next' \in Timers /\ In(callqueue', next'))
    BY <1>2, <2>3, <2>4, NextCorrect DEF c
  <2>6. pending' = [pending EXCEPT ![c] = FALSE] /\ run' = c /\ rungen' = gen[c]
    BY <1>2 DEF c
  <2>7. QueueInv'
    BY <2>3, <2>4, <2>5, <2>6 DEF CalloutInv, QueueInv
  <2>8. HandlerInv'
    BY <1>2, <2>3, <2>6 DEF CalloutInv, HandlerInv
  <2> QED
    BY <2>7, <2>8 DEF CalloutInv
<1> QED
  BY <1>1, <1>2 DEF Walk

(* Taking a queued timer out keeps the walk's next timer in the queue. *)
LEMMA NextWithoutCorrect ==
  ASSUME QueueInv, NEW c \in Timers, In(callqueue, c)
  PROVE  \/ NextWithout(callqueue, c) = NULL
         \/ /\ NextWithout(callqueue, c) \in Timers
            /\ NextWithout(callqueue, c) # c
            /\ In(callqueue, NextWithout(callqueue, c))
<1>1. callqueue \in Queue
  BY DEF QueueInv
<1>2. CASE c = next
  BY <1>1, <1>2, NextCorrect DEF NextWithout
<1>3. CASE c # next
  BY <1>3 DEF NextWithout, QueueInv
<1> QED
  BY <1>2, <1>3

LEMMA StartKeepsInv ==
  ASSUME CalloutInv, NEW c \in Timers, Start(c)
  PROVE  CalloutInv'
<1> DEFINE q == IF pending[c] THEN TAILQ_REMOVE(callqueue, c) ELSE callqueue
<1>1. PICK d \in 1 .. MaxDelay : sctp_os_timer_start(c, d)
  BY DEF Start
<1>2. callqueue \in Queue /\ (pending[c] <=> In(callqueue, c))
  BY DEF CalloutInv, QueueInv
<1>3. q \in Queue /\ \A e : In(q, e) <=> In(callqueue, e) /\ e # c
  BY <1>2, RemoveCorrect
<1>4. callqueue' = Append(q, c)
  BY <1>1 DEF sctp_os_timer_start
<1> HIDE DEF q
<1>5. callqueue' \in Queue /\ \A e : In(callqueue', e) <=> In(q, e) \/ e = c
  BY <1>3, <1>4, AppendCorrect
<1>6. next' = NULL \/ (next' \in Timers /\ In(callqueue', next'))
  <2>1. CASE pending[c]
    <3>1. next' = NextWithout(callqueue, c)
      BY <1>1, <2>1 DEF sctp_os_timer_start
    <3> QED
      BY <1>2, <1>3, <1>5, <2>1, <3>1, NextWithoutCorrect DEF CalloutInv
  <2>2. CASE ~pending[c]
    <3>1. next' = next
      BY <1>1, <2>2 DEF sctp_os_timer_start
    <3> QED
      BY <1>2, <1>3, <1>5, <2>2, <3>1 DEF CalloutInv, QueueInv
  <2> QED
    BY <2>1, <2>2
<1>7. pending' = [pending EXCEPT ![c] = TRUE]
      /\ active' = [active EXCEPT ![c] = TRUE]
  BY <1>1 DEF sctp_os_timer_start
<1>8. gen' = [gen EXCEPT ![c] = @ + 1] /\ UNCHANGED <<run, phase, rungen>>
  BY DEF Start
<1>9. QueueInv'
  BY <1>3, <1>5, <1>6, <1>7 DEF CalloutInv, QueueInv
<1>10. HandlerInv'
  BY <1>3, <1>5, <1>7, <1>8 DEF CalloutInv, HandlerInv
<1> QED
  BY <1>9, <1>10 DEF CalloutInv

LEMMA StopKeepsInv ==
  ASSUME CalloutInv, NEW c \in Timers, Stop(c)
  PROVE  CalloutInv'
<1>1. callqueue \in Queue /\ (pending[c] <=> In(callqueue, c))
  BY DEF CalloutInv, QueueInv
<1>2. /\ callqueue' \in Queue
      /\ \A e : In(callqueue', e) <=> In(callqueue, e) /\ e # c
  BY <1>1, RemoveCorrect DEF Stop, sctp_os_timer_stop
<1>3. next' = NULL \/ (next' \in Timers /\ In(callqueue', next'))
  <2>1. CASE pending[c]
    <3>1. next' = NextWithout(callqueue, c)
      BY <2>1 DEF Stop, sctp_os_timer_stop
    <3> QED
      BY <1>1, <1>2, <2>1, <3>1, NextWithoutCorrect DEF CalloutInv
  <2>2. CASE ~pending[c]
    <3>1. next' = next
      BY <2>2 DEF Stop, sctp_os_timer_stop
    <3> QED
      BY <1>1, <1>2, <2>2, <3>1 DEF CalloutInv, QueueInv
  <2> QED
    BY <2>1, <2>2
<1>4. pending' = [pending EXCEPT ![c] = FALSE]
      /\ active' = [active EXCEPT ![c] = FALSE]
  BY DEF Stop, sctp_os_timer_stop
<1>5. UNCHANGED <<gen, run, phase, rungen>>
  BY DEF Stop
<1>6. QueueInv'
  BY <1>2, <1>3, <1>4 DEF CalloutInv, QueueInv
<1>7. HandlerInv'
  BY <1>2, <1>4, <1>5 DEF CalloutInv, HandlerInv
<1> QED
  BY <1>6, <1>7 DEF CalloutInv

(* The invariant holds at the start and every step keeps it. *)
LEMMA InvInit == Init => CalloutInv
<1> SUFFICES ASSUME Init PROVE CalloutInv
  OBVIOUS
<1>1. <<>> \in Queue /\ \A c : ~In(<<>>, c)
  BY DEF Queue, In
<1> QED
  BY <1>1 DEF Init, CalloutInv, QueueInv, HandlerInv

LEMMA InvStep == CalloutInv /\ [Next]_vars => CalloutInv'
<1> SUFFICES ASSUME CalloutInv, [Next]_vars PROVE CalloutInv'
  OBVIOUS
<1>1. CASE sctp_handle_tick
  <2>1. Walk(ticks', 1) /\ UNCHANGED <<active, gen>>
    BY <1>1 DEF sctp_handle_tick
  <2> QED
    BY <2>1, WalkKeepsInv
<1>2. CASE HandlerEnter
  BY <1>2 DEF HandlerEnter, CalloutInv, QueueInv, HandlerInv, queueVars
<1>3. CASE HandlerServe
  <2>1. UNCHANGED <<callqueue, pending, next, run, gen, rungen>>
        /\ phase' = "done" /\ active' \in [Timers -> BOOLEAN]
    BY <1>3 DEF HandlerServe, CalloutInv, HandlerInv
  <2> QED
    BY <2>1 DEF CalloutInv, QueueInv, HandlerInv
<1>4. CASE Resume
  <2> DEFINE i == IF next = NULL THEN Len(callqueue) + 1
                                 ELSE Index(callqueue, next)
  <2>1. callqueue \in Queue /\ Len(callqueue) \in Nat
    BY DEF CalloutInv, QueueInv, Queue
  <2>2. i \in Nat \ {0}
    BY <2>1, IndexFound DEF CalloutInv, QueueInv
  <2>3. Walk(ticks, i) /\ UNCHANGED <<active, gen>>
    BY <1>4 DEF Resume
  <2> HIDE DEF i
  <2> QED
    BY <2>2, <2>3, WalkKeepsInv
<1>5. ASSUME NEW c \in Timers, Start(c) PROVE CalloutInv'
  BY <1>5, StartKeepsInv
<1>6. ASSUME NEW c \in Timers, Stop(c) PROVE CalloutInv'
  BY <1>6, StopKeepsInv
<1>7. CASE UNCHANGED vars
  BY <1>7 DEF vars, CalloutInv, QueueInv, HandlerInv
<1> QED
  BY <1>1, <1>2, <1>3, <1>4, <1>5, <1>6, <1>7 DEF Next, TickThread

LEMMA InvAlways == Spec => []CalloutInv
  BY InvInit, InvStep, PTL DEF Spec

-----------------------------------------------------------------------------
(***************************************************************************)
(* The theorems.                                                           *)
(***************************************************************************)
(* Whatever handlers and other threads do between the steps of the walk,    *)
(* the PENDING flag of a callout tells whether sctp_callout.c's queue holds *)
(* it, and the queue holds no callout twice.                                *)
THEOREM FlagsDescribeQueue == Spec => []QueueMatchesFlags
<1>1. CalloutInv => QueueMatchesFlags
  <2> SUFFICES ASSUME CalloutInv PROVE QueueMatchesFlags
    OBVIOUS
  <2>1. \A i, j \in DOMAIN callqueue : callqueue[i] = callqueue[j] => i = j
    BY DEF CalloutInv, QueueInv, Queue
  <2>2. \A c \in Timers :
          pending[c] <=> \E i \in DOMAIN callqueue : callqueue[i] = c
    BY DEF CalloutInv, QueueInv, In
  <2> QED
    BY <2>1, <2>2 DEF QueueMatchesFlags
<1> QED
  BY <1>1, InvAlways, PTL

(* sctp_os_timer_next, with which sctp_handle_tick goes on after a handler, *)
(* is in the queue at all times.                                            *)
THEOREM WalkIsSafe == Spec => []NextIsQueued
<1>1. CalloutInv => NextIsQueued
  BY DEF CalloutInv, QueueInv, NextIsQueued
<1> QED
  BY <1>1, InvAlways, PTL

(* Every step of the queue, the tick thread and the handler is a step of    *)
(* TimerService or changes none of its variables: an expiry is handled only *)
(* for the latest start of a timer that was not stopped.                    *)
THEOREM ServesLatestStart == Spec => TS!Safety
<1>1. Init => TS!Init
  BY DEF Init, TS!Init
<1>2. CalloutInv /\ [Next]_vars => [TS!Next]_(TS!svars)
  <2> SUFFICES ASSUME CalloutInv, [Next]_vars
               PROVE  TS!Next \/ UNCHANGED <<active, gen, expired>>
    BY DEF TS!svars
  <2>1. ASSUME NEW c \in Timers, Start(c) PROVE TS!Start(c)
    BY <2>1 DEF Start, sctp_os_timer_start, TS!Start
  <2>2. ASSUME NEW c \in Timers, Stop(c) PROVE TS!Stop(c)
    BY <2>2 DEF Stop, sctp_os_timer_stop, TS!Stop
  <2>3. CASE HandlerServe
    <3>1. CASE UNCHANGED <<active, expired>>
      BY <2>3, <3>1 DEF HandlerServe
    <3>2. CASE /\ ~pending[run] /\ active[run]
               /\ active' = [active EXCEPT ![run] = FALSE]
               /\ expired' = expired \cup {<<run, rungen>>}
      <4>1. run \in Timers /\ rungen = gen[run]
        BY <2>3, <3>2 DEF HandlerServe, CalloutInv, QueueInv, HandlerInv
      <4>2. UNCHANGED gen
        BY <2>3 DEF HandlerServe
      <4> QED
        BY <3>2, <4>1, <4>2 DEF TS!Next, TS!Expire
    <3> QED
      BY <2>3, <3>1, <3>2 DEF HandlerServe
  <2>4. CASE sctp_handle_tick \/ Resume \/ HandlerEnter \/ UNCHANGED vars
    BY <2>4 DEF sctp_handle_tick, Resume, HandlerEnter, vars, queueVars
  <2> QED
    BY <2>1, <2>2, <2>3, <2>4 DEF Next, TickThread, TS!Next
<1> QED
  BY <1>1, <1>2, InvAlways, PTL DEF Spec, TS!Safety
-----------------------------------------------------------------------------
(***************************************************************************)
(* The order of the queue: d is somewhere before e.                        *)
(***************************************************************************)
Before(q, d, e) == \E i, j \in DOMAIN q : i < j /\ q[i] = d /\ q[j] = e

LEMMA BeforeRemoved ==
  ASSUME NEW q \in Queue, NEW c, In(q, c), NEW d, NEW e,
         Before(TAILQ_REMOVE(q, c), d, e)
  PROVE  Before(q, d, e)
<1> DEFINE k == Index(q, c)
           r == TAILQ_REMOVE(q, c)
           n == Len(q) - 1
           at(i) == IF i < k THEN i ELSE i + 1
<1>1. q \in Seq(Timers) /\ DOMAIN q = 1 .. Len(q) /\ Len(q) \in Nat
  BY DEF Queue
<1>2. k \in 1 .. Len(q)
  BY IndexFound
<1>3. r = [i \in 1 .. n |-> q[at(i)]]
  BY DEF TAILQ_REMOVE
<1>4. PICK i \in DOMAIN r, j \in DOMAIN r : i < j /\ r[i] = d /\ r[j] = e
  BY DEF Before
<1>5. i \in 1 .. n /\ j \in 1 .. n /\ q[at(i)] = d /\ q[at(j)] = e
  BY <1>3, <1>4
<1> HIDE DEF r, k
<1>6. at(i) \in 1 .. Len(q) /\ at(j) \in 1 .. Len(q) /\ at(i) < at(j)
  BY <1>1, <1>2, <1>4, <1>5
<1> QED
  BY <1>1, <1>5, <1>6 DEF Before

LEMMA BeforeAppended ==
  ASSUME NEW q \in Queue, NEW c, ~In(q, c), NEW d, NEW e, e # c,
         Before(Append(q, c), d, e)
  PROVE  Before(q, d, e)
<1>1. q \in Seq(Timers) /\ DOMAIN q = 1 .. Len(q) /\ Len(q) \in Nat
  BY DEF Queue
<1>2. /\ DOMAIN Append(q, c) = 1 .. (Len(q) + 1)
      /\ Append(q, c)[Len(q) + 1] = c
      /\ \A i \in 1 .. Len(q) : Append(q, c)[i] = q[i]
  BY <1>1
<1>3. PICK i \in 1 .. (Len(q) + 1), j \in 1 .. (Len(q) + 1) :
        i < j /\ Append(q, c)[i] = d /\ Append(q, c)[j] = e
  BY <1>2 DEF Before
<1>4. j # Len(q) + 1
  BY <1>2, <1>3
<1>5. i \in 1 .. Len(q) /\ j \in 1 .. Len(q)
  BY <1>1, <1>3, <1>4
<1> QED
  BY <1>1, <1>2, <1>3, <1>5 DEF Before

(* What is before the timer after c is c or is before c. *)
LEMMA BeforeNext ==
  ASSUME NEW q \in Queue, NEW c, In(q, c), NEW d, d # c,
         \/ TAILQ_NEXT(q, c) = NULL /\ In(q, d)
         \/ Before(q, d, TAILQ_NEXT(q, c))
  PROVE  Before(q, d, c)
<1> DEFINE k == Index(q, c)
<1>1. q \in Seq(Timers) /\ DOMAIN q = 1 .. Len(q) /\ Len(q) \in Nat
      /\ \A i, j \in 1 .. Len(q) : q[i] = q[j] => i = j
  BY DEF Queue
<1>2. k \in 1 .. Len(q) /\ q[k] = c
  BY IndexFound
<1>3. TAILQ_NEXT(q, c) = IF k = Len(q) THEN NULL ELSE q[k + 1]
  BY DEF TAILQ_NEXT
<1> HIDE DEF k
<1>4. CASE k = Len(q)
  <2>1. PICK i \in 1 .. Len(q) : q[i] = d
    <3>1. CASE In(q, d)
      BY <1>1, <3>1 DEF In
    <3>2. CASE Before(q, d, TAILQ_NEXT(q, c))
      BY <1>1, <3>2 DEF Before
    <3> QED
      BY <3>1, <3>2
  <2>2. i < k
    BY <1>1, <1>2, <1>4, <2>1
  <2> QED
    BY <1>1, <1>2, <2>1, <2>2 DEF Before
<1>5. CASE k # Len(q)
  <2>a. TAILQ_NEXT(q, c) = q[k + 1]
    BY <1>3, <1>5
  <2>b. k + 1 \in 1 .. Len(q)
    <3>1. Len(q) \in Nat /\ k \in Nat /\ 1 <= k /\ k <= Len(q)
      BY <1>1, <1>2
    <3> QED
      BY <1>5, <3>1
  <2>1. k + 1 \in 1 .. Len(q) /\ TAILQ_NEXT(q, c) = q[k + 1]
    BY <2>a, <2>b
  <2>2. q[k + 1] \in Timers
    BY <1>1, <2>1
  <2>3. Before(q, d, q[k + 1])
    BY <2>1, <2>2, NullAssumption
  <2>4. PICK i \in 1 .. Len(q), j \in 1 .. Len(q) :
          i < j /\ q[i] = d /\ q[j] = q[k + 1]
    BY <1>1, <2>3 DEF Before
  <2>5. j = k + 1
    BY <1>1, <2>1, <2>4
  <2>6. i < k
    BY <1>2, <2>4, <2>5
  <2> QED
    BY <1>1, <1>2, <2>4, <2>6 DEF Before
<1> QED
  BY <1>4, <1>5

-----------------------------------------------------------------------------
(***************************************************************************)
(* Timers are on time as long as the clock does not wrap: h, the value at  *)
(* which the signed clock becomes negative, is beyond its bound.           *)
(*                                                                         *)
(* The inductive invariant.  left is what c_time and the clock say, and    *)
(* the walk has left nothing behind that is due: every queued timer        *)
(* between walks, and every one before the timer it goes on with while a   *)
(* handler runs, which includes those started meanwhile.                   *)
(***************************************************************************)
Passed(c) ==
  In(callqueue, c) /\ (phase = "idle" \/ next = NULL \/ Before(callqueue, c, next))

ClockInv ==
  /\ ticks \in Nat /\ ticks <= MaxTicks + Delta
  /\ c_time \in [Timers -> Nat]
  /\ left \in [Timers -> Nat]
  /\ \A c \in Timers :
       left[c] = IF c_time[c] > ticks THEN c_time[c] - ticks ELSE 0

PassedInv == \A c \in Timers : Passed(c) => c_time[c] > ticks

TimeInv == ClockInv /\ PassedInv

LEMMA ModSmall ==
  ASSUME NEW x \in Nat, NEW b \in Nat \ {0}, x < b
  PROVE  x % b = x
OBVIOUS

LEMMA WrapSmall ==
  ASSUME NEW h \in Nat, h = 2 ^ (TickBits - 1), NEW x \in Nat, x < h
  PROVE  Wrap(x) = x
<1>1. x + h \in Nat /\ 2 * h \in Nat \ {0} /\ x + h < 2 * h
  OBVIOUS
<1>2. (x + h) % (2 * h) = x + h
  BY <1>1, ModSmall
<1> QED
  BY <1>2 DEF Wrap

(* The walk: what it passes by is not due, and it ends when nothing is. *)
LEMMA WalkPasses ==
  ASSUME CalloutInv, NEW now \in Nat, NEW i \in Nat \ {0}, Walk(now, i),
         ticks' = now, UNCHANGED c_time, c_time \in [Timers -> Nat],
         \A k \in 1 .. Len(callqueue) : k < i => c_time[callqueue[k]] > now
  PROVE  PassedInv'
<1> USE DEF PassedInv
<1>1. callqueue \in Seq(Timers) /\ Len(callqueue) \in Nat
      /\ DOMAIN callqueue = 1 .. Len(callqueue) /\ callqueue \in Queue
  BY DEF CalloutInv, QueueInv, Queue
<1>2. CASE Due(now, i) = {} /\ callqueue' = callqueue
  <2> SUFFICES ASSUME NEW d \in Timers, In(callqueue, d)
               PROVE  c_time[d] > now
    BY <1>2 DEF Passed
  <2>1. PICK k \in 1 .. Len(callqueue) : callqueue[k] = d
    BY <1>1 DEF In
  <2>2. k \notin Due(now, i)
    BY <1>2
  <2>3. k < i \/ c_time[callqueue[k]] > now
    BY <1>1, <2>1, <2>2 DEF Due
  <2> QED
    BY <2>1, <2>3
<1>3. ASSUME NEW j \in Due(now, i), \A k \in Due(now, i) : j <= k,
             next' = TAILQ_NEXT(callqueue, callqueue[j]),
             callqueue' = TAILQ_REMOVE(callqueue, callqueue[j]),
             phase' = "call"
      PROVE  PassedInv'
  <2> DEFINE c == callqueue[j]
  <2>1. j \in 1 .. Len(callqueue)
    BY <1>1 DEF Due
  <2>2. In(callqueue, c) /\ next' = TAILQ_NEXT(callqueue, c)
        /\ callqueue' = TAILQ_REMOVE(callqueue, c)
    BY <1>1, <1>3, <2>1 DEF In
  <2> SUFFICES ASSUME NEW d \in Timers, Passed(d)'
               PROVE  c_time[d] > now
    OBVIOUS
  <2>3. In(callqueue', d) /\ (next' = NULL \/ Before(callqueue', d, next'))
    BY <1>3 DEF Passed
  <2>4. In(callqueue, d) /\ d # c
    BY <1>1, <2>2, <2>3, RemoveCorrect
  <2>5. next' = NULL \/ Before(callqueue, d, next')
    BY <1>1, <2>2, <2>3, BeforeRemoved
  <2>6. Before(callqueue, d, c)
    BY <1>1, <2>2, <2>4, <2>5, BeforeNext
  <2>7. PICK k \in 1 .. Len(callqueue), l \in 1 .. Len(callqueue) :
          k < l /\ callqueue[k] = d /\ callqueue[l] = c
    BY <1>1, <2>6 DEF Before
  <2>8. l = j
    BY <1>1, <2>1, <2>7 DEF Queue
  <2>9. k \notin Due(now, i)
    BY <1>3, <2>1, <2>7, <2>8
  <2>10. k < i \/ c_time[callqueue[k]] > now
    BY <1>1, <2>7, <2>9 DEF Due
  <2> QED
    BY <2>7, <2>10
<1> QED
  BY <1>2, <1>3 DEF Walk

(* What leaves the queue, wherever the walk is, uncovers nothing due. *)
LEMMA PassedWithout ==
  ASSUME CalloutInv, NEW c \in Timers, In(callqueue, c),
         NEW d \in Timers, d # c, In(callqueue, d),
         \/ phase = "idle"
         \/ NextWithout(callqueue, c) = NULL
         \/ Before(callqueue, d, NextWithout(callqueue, c))
  PROVE  Passed(d)
<1>1. callqueue \in Queue
  BY DEF CalloutInv, QueueInv
<1>2. CASE c = next
  BY <1>1, <1>2, BeforeNext DEF NextWithout, Passed
<1>3. CASE c # next
  BY <1>3 DEF NextWithout, Passed
<1> QED
  BY <1>2, <1>3

LEMMA StartKeepsTime ==
  ASSUME CalloutInv, TimeInv, NEW c \in Timers, Start(c),
         NEW h \in Nat, h = 2 ^ (TickBits - 1), MaxTicks + Delta <= h
  PROVE  TimeInv'
<1> DEFINE q == IF pending[c] THEN TAILQ_REMOVE(callqueue, c) ELSE callqueue
<1>1. PICK d \in 1 .. MaxDelay : ticks + d <= MaxTicks /\ sctp_os_timer_start(c, d)
  BY DEF Start
<1>2. /\ ticks \in Nat /\ d \in Nat \ {0} /\ ticks' = ticks /\ phase' = phase
      /\ c_time \in [Timers -> Nat] /\ left \in [Timers -> Nat]
      /\ MaxTicks \in Nat /\ Delta \in Nat \ {0}
  BY ClockAssumption DEF Start, TimeInv, ClockInv
<1>3. Wrap(ticks + d) = ticks + d
  BY <1>1, <1>2, WrapSmall
<1>4. c_time' = [c_time EXCEPT ![c] = ticks + d] /\ left' = [left EXCEPT ![c] = d]
  BY <1>1, <1>3 DEF sctp_os_timer_start
<1>5. ClockInv'
  <2>1. /\ \A e \in Timers : e # c => c_time'[e] = c_time[e] /\ left'[e] = left[e]
        /\ c_time'[c] = ticks + d /\ left'[c] = d
        /\ c_time' \in [Timers -> Nat] /\ left' \in [Timers -> Nat]
    BY <1>2, <1>4
  <2>2. \A e \in Timers :
          left'[e] = IF c_time'[e] > ticks' THEN c_time'[e] - ticks' ELSE 0
    BY <1>2, <2>1 DEF TimeInv, ClockInv
  <2> QED
    BY <1>2, <2>1, <2>2 DEF TimeInv, ClockInv
<1>6. PassedInv'
  <2> SUFFICES ASSUME NEW e \in Timers, Passed(e)'
               PROVE  c_time'[e] > ticks'
    BY DEF PassedInv
  <2>1. CASE e = c
    BY <1>2, <1>4, <2>1
  <2>2. CASE e # c
    <3>1. callqueue \in Queue /\ (pending[c] <=> In(callqueue, c))
      BY DEF CalloutInv, QueueInv
    <3>2. q \in Queue /\ \A f : In(q, f) <=> In(callqueue, f) /\ f # c
      BY <3>1, RemoveCorrect
    <3>3. callqueue' = Append(q, c)
      BY <1>1 DEF sctp_os_timer_start
    <3>4. \A f : Before(q, e, f) => Before(callqueue, e, f)
      BY <3>1, BeforeRemoved
    <3>a. next' = IF pending[c] THEN NextWithout(callqueue, c) ELSE next
      BY <1>1 DEF sctp_os_timer_start
    <3> HIDE DEF q
    <3>5. In(callqueue, e)
      BY <2>2, <3>2, <3>3, AppendCorrect DEF Passed
    <3>6. next' # c \/ next' = NULL
      BY <3>1, <3>a, NextWithoutCorrect, NullAssumption DEF CalloutInv, QueueInv
    <3>7. phase = "idle" \/ next' = NULL \/ Before(callqueue, e, next')
      BY <1>2, <3>2, <3>3, <3>4, <3>6, BeforeAppended DEF Passed
    <3>8. Passed(e)
      <4>1. CASE pending[c]
        BY <2>2, <3>1, <3>5, <3>7, <3>a, <4>1, PassedWithout
      <4>2. CASE ~pending[c]
        BY <3>5, <3>7, <3>a, <4>2 DEF Passed
      <4> QED
        BY <4>1, <4>2
    <3> QED
      BY <1>2, <1>4, <2>2, <3>8 DEF TimeInv, PassedInv
  <2> QED
    BY <2>1, <2>2
<1> QED
  BY <1>5, <1>6 DEF TimeInv

LEMMA StopKeepsTime ==
  ASSUME CalloutInv, TimeInv, NEW c \in Timers, Stop(c)
  PROVE  TimeInv'
<1>1. UNCHANGED <<ticks, c_time, left, phase>>
  BY DEF Stop, sctp_os_timer_stop
<1>2. ClockInv'
  BY <1>1 DEF TimeInv, ClockInv
<1>3. PassedInv'
  <2> SUFFICES ASSUME NEW e \in Timers, Passed(e)'
               PROVE  Passed(e)
    BY <1>1 DEF PassedInv, TimeInv
  <2>1. callqueue \in Queue /\ (pending[c] <=> In(callqueue, c))
    BY DEF CalloutInv, QueueInv
  <2>2. CASE pending[c]
    <3>1. callqueue' = TAILQ_REMOVE(callqueue, c) /\ next' = NextWithout(callqueue, c)
      BY <2>2 DEF Stop, sctp_os_timer_stop
    <3>2. In(callqueue, e) /\ e # c
      BY <2>1, <2>2, <3>1, RemoveCorrect DEF Passed
    <3>3. phase = "idle" \/ next' = NULL \/ Before(callqueue, e, next')
      BY <1>1, <2>1, <2>2, <3>1, BeforeRemoved DEF Passed
    <3> QED
      BY <2>1, <2>2, <3>1, <3>2, <3>3, PassedWithout
  <2>3. CASE ~pending[c]
    BY <1>1, <2>3 DEF Stop, sctp_os_timer_stop, Passed
  <2> QED
    BY <2>2, <2>3
<1> QED
  BY <1>2, <1>3 DEF TimeInv

LEMMA TickKeepsTime ==
  ASSUME CalloutInv, TimeInv, sctp_handle_tick,
         NEW h \in Nat, h = 2 ^ (TickBits - 1), MaxTicks + Delta <= h
  PROVE  TimeInv'
<1>1. /\ ticks \in Nat /\ MaxTicks \in Nat /\ Delta \in Nat \ {0}
      /\ c_time \in [Timers -> Nat] /\ left \in [Timers -> Nat]
      /\ ticks < MaxTicks
  BY ClockAssumption DEF TimeInv, ClockInv, sctp_handle_tick
<1>2. ticks' = ticks + Delta
  BY <1>1, WrapSmall DEF sctp_handle_tick
<1>3. UNCHANGED c_time
      /\ left' = [c \in Timers |-> IF left[c] > Delta THEN left[c] - Delta ELSE 0]
  BY DEF sctp_handle_tick
<1>4. ClockInv'
  <2>1. \A c \in Timers :
          left'[c] = IF c_time'[c] > ticks' THEN c_time'[c] - ticks' ELSE 0
    <3> SUFFICES ASSUME NEW c \in Timers
                 PROVE  left'[c] = IF c_time'[c] > ticks' THEN c_time'[c] - ticks' ELSE 0
      OBVIOUS
    <3>1. /\ c_time[c] \in Nat /\ left[c] \in Nat
          /\ left[c] = IF c_time[c] > ticks THEN c_time[c] - ticks ELSE 0
      BY <1>1 DEF TimeInv, ClockInv
    <3>2. left'[c] = IF left[c] > Delta THEN left[c] - Delta ELSE 0
      BY <1>3
    <3> QED
      BY <1>1, <1>2, <1>3, <3>1, <3>2
  <2>2. left' \in [Timers -> Nat]
    <3>1. \A c \in Timers : (IF left[c] > Delta THEN left[c] - Delta ELSE 0) \in Nat
      BY <1>1
    <3> QED
      BY <1>3, <3>1
  <2> QED
    BY <1>1, <1>2, <1>3, <2>1, <2>2 DEF ClockInv
<1>5. PassedInv'
  <2>1. Walk(ticks', 1) /\ ticks' \in Nat
    BY <1>1, <1>2 DEF sctp_handle_tick
  <2>2. \A k \in 1 .. Len(callqueue) : k < 1 => c_time[callqueue[k]] > ticks'
    OBVIOUS
  <2> QED
    BY <1>1, <1>3, <2>1, <2>2, WalkPasses
<1> QED
  BY <1>4, <1>5 DEF TimeInv

LEMMA ResumeKeepsTime ==
  ASSUME CalloutInv, TimeInv, Resume
  PROVE  TimeInv'
<1> DEFINE i == IF next = NULL THEN Len(callqueue) + 1
                               ELSE Index(callqueue, next)
<1>1. UNCHANGED <<ticks, c_time, left>> /\ Walk(ticks, i) /\ phase = "done"
  BY DEF Resume
<1>2. ClockInv'
  BY <1>1 DEF TimeInv, ClockInv
<1>3. callqueue \in Seq(Timers) /\ Len(callqueue) \in Nat
      /\ DOMAIN callqueue = 1 .. Len(callqueue) /\ callqueue \in Queue
  BY DEF CalloutInv, QueueInv, Queue
<1>4. i \in Nat \ {0}
  BY <1>3, IndexFound DEF CalloutInv, QueueInv
<1>5. ASSUME NEW k \in 1 .. Len(callqueue), k < i
      PROVE  c_time[callqueue[k]] > ticks
  <2>1. callqueue[k] \in Timers /\ In(callqueue, callqueue[k])
    BY <1>3 DEF In
  <2>2. next = NULL \/ Before(callqueue, callqueue[k], next)
    <3> SUFFICES ASSUME next # NULL PROVE Before(callqueue, callqueue[k], next)
      OBVIOUS
    <3>1. i = Index(callqueue, next) /\ In(callqueue, next)
      BY DEF CalloutInv, QueueInv
    <3>2. i \in 1 .. Len(callqueue) /\ callqueue[i] = next
      BY <1>3, <3>1, IndexFound
    <3> HIDE DEF i
    <3> QED
      BY <1>3, <1>5, <3>2 DEF Before
  <2> QED
    BY <2>1, <2>2 DEF TimeInv, PassedInv, Passed
<1> HIDE DEF i
<1>6. PassedInv'
  <2>1. ticks \in Nat /\ c_time \in [Timers -> Nat]
    BY DEF TimeInv, ClockInv
  <2> QED
    BY <1>1, <1>4, <1>5, <2>1, WalkPasses
<1> QED
  BY <1>2, <1>6 DEF TimeInv

LEMMA TimeInvInit == Init => TimeInv
<1> SUFFICES ASSUME Init PROVE TimeInv
  OBVIOUS
<1>1. MaxTicks + Delta \in Nat
  BY ClockAssumption
<1>2. \A c : ~In(callqueue, c)
  <2>1. \A c : ~In(<<>>, c)
    BY DEF In
  <2> QED
    BY <2>1 DEF Init
<1>3. /\ ticks = 0 /\ c_time = [c \in Timers |-> 0]
      /\ left = [c \in Timers |-> 0]
  BY DEF Init
<1>4. ClockInv
  <2>1. ticks \in Nat /\ ticks <= MaxTicks + Delta
    BY <1>1, <1>3
  <2>2. c_time \in [Timers -> Nat] /\ left \in [Timers -> Nat]
    BY <1>3
  <2>3. \A c \in Timers :
          left[c] = IF c_time[c] > ticks THEN c_time[c] - ticks ELSE 0
    <3>1. \A c \in Timers : c_time[c] = 0 /\ left[c] = 0
      BY <1>3
    <3>2. ~(0 > 0)
      OBVIOUS
    <3> QED
      BY <1>3, <3>1, <3>2
  <2> QED
    BY <2>1, <2>2, <2>3 DEF ClockInv
<1>5. PassedInv
  BY <1>2 DEF PassedInv, Passed
<1> QED
  BY <1>4, <1>5 DEF TimeInv

LEMMA TimeInvStep ==
  ASSUME NEW h \in Nat, h = 2 ^ (TickBits - 1), MaxTicks + Delta <= h
  PROVE  CalloutInv /\ TimeInv /\ [Next]_vars => TimeInv'
<1> SUFFICES ASSUME CalloutInv, TimeInv, [Next]_vars PROVE TimeInv'
  OBVIOUS
<1>1. CASE sctp_handle_tick
  BY <1>1, TickKeepsTime
<1>2. CASE HandlerEnter
  <2>1. UNCHANGED <<callqueue, c_time, next, ticks, left>>
        /\ phase # "idle" /\ phase' # "idle"
    BY <1>2 DEF HandlerEnter, queueVars
  <2> QED
    BY <2>1 DEF TimeInv, ClockInv, PassedInv, Passed
<1>3. CASE HandlerServe
  <2>1. UNCHANGED <<callqueue, c_time, next, ticks, left>>
        /\ phase # "idle" /\ phase' # "idle"
    BY <1>3 DEF HandlerServe
  <2> QED
    BY <2>1 DEF TimeInv, ClockInv, PassedInv, Passed
<1>4. CASE Resume
  BY <1>4, ResumeKeepsTime
<1>5. ASSUME NEW c \in Timers, Start(c) PROVE TimeInv'
  BY <1>5, StartKeepsTime
<1>6. ASSUME NEW c \in Timers, Stop(c) PROVE TimeInv'
  BY <1>6, StopKeepsTime
<1>7. CASE UNCHANGED vars
  BY <1>7 DEF vars, TimeInv, ClockInv, PassedInv, Passed
<1> QED
  BY <1>1, <1>2, <1>3, <1>4, <1>5, <1>6, <1>7 DEF Next, TickThread

(* As long as the clock stays below the value at which a signed integer of  *)
(* its width becomes negative, no timer of sctp_callout.c is late: when     *)
(* sctp_handle_tick has ended its walk, every timer in the queue still has  *)
(* to wait, whatever handlers and other threads did to the queue meanwhile. *)
THEOREM ServedOnTime ==
  ASSUME NEW h \in Nat, h = 2 ^ (TickBits - 1), MaxTicks + Delta <= h
  PROVE  Spec => []OnTime
<1>1. CalloutInv /\ TimeInv => OnTime
  <2> SUFFICES ASSUME CalloutInv, TimeInv, phase = "idle",
                      NEW c \in Timers, pending[c]
               PROVE  left[c] > 0
    BY DEF OnTime
  <2>1. In(callqueue, c)
    BY DEF CalloutInv, QueueInv
  <2>2. c_time[c] > ticks
    BY <2>1 DEF TimeInv, PassedInv, Passed
  <2>3. c_time[c] \in Nat /\ ticks \in Nat /\ left[c] = c_time[c] - ticks
    BY <2>2 DEF TimeInv, ClockInv
  <2> QED
    BY <2>2, <2>3
<1>2. CalloutInv /\ TimeInv /\ [Next]_vars => TimeInv'
  BY TimeInvStep
<1> QED
  BY <1>1, <1>2, TimeInvInit, InvAlways, PTL DEF Spec
=============================================================================

----------------------------- MODULE SctpCallout -----------------------------
(***************************************************************************)
(* The callout queue of sctp_callout.c (user space and Mac OS X): one      *)
(* thread walks the queue at every tick and calls the handlers of the      *)
(* timers that are due, without the queue lock, while other threads start  *)
(* and stop timers; and the checks with which sctp_timeout_handler finds   *)
(* out, once it has the TCB lock, that its timer was stopped or started    *)
(* again in between.                                                       *)
(*                                                                         *)
(* What holds SCTP_TIMERQ_LOCK is one step.  The clock is a signed integer *)
(* of TickBits bits.  Left out: the reference counts of endpoint and TCB,  *)
(* what the handlers do (SctpAssoc), and timers of freed TCBs.             *)
(***************************************************************************)
EXTENDS Integers, Sequences

CONSTANTS
  Timers,
  NULL,
  TickBits,   \* width of the clock
  Delta,      \* ticks per wake-up of the thread
  MaxDelay,   \* bound on to_ticks
  MaxTicks,   \* bound on the clock and on when a timer is due
  MaxStarts   \* bound on the starts of a timer

ASSUME NullAssumption == NULL \notin Timers
ASSUME ClockAssumption ==
  /\ TickBits \in Nat \ {0} /\ Delta \in Nat \ {0}
  /\ {MaxDelay, MaxTicks, MaxStarts} \subseteq Nat

VARIABLES
  callqueue,  \* SCTP_BASE_INFO(callqueue)
  active,     \* SCTP_CALLOUT_ACTIVE
  pending,    \* SCTP_CALLOUT_PENDING
  c_time,     \* when the timer is due
  ticks,      \* the clock
  next,       \* sctp_os_timer_next
  run,        \* the timer whose handler the tick thread is in
  phase,      \* how far that handler got
  gen,        \* history: number of starts of a timer
  rungen,     \* history: the start that run expired from
  left,       \* history: ticks a timer still has to wait
  expired     \* history: the <<timer, start>> pairs whose expiry was handled

queueVars == <<callqueue, active, pending, c_time, next>>
vars == <<callqueue, active, pending, c_time, ticks, next, run, phase,
          gen, rungen, left, expired>>

Wrap(x) == LET h == 2 ^ (TickBits - 1) IN ((x + h) % (2 * h)) - h

(* The queue without a timer that is in it, and the timer after it. *)
Index(q, c) == CHOOSE i \in DOMAIN q : q[i] = c
TAILQ_REMOVE(q, c) ==
  [i \in 1 .. (Len(q) - 1) |-> q[IF i < Index(q, c) THEN i ELSE i + 1]]
TAILQ_NEXT(q, c) ==
  IF Index(q, c) = Len(q) THEN NULL ELSE q[Index(q, c) + 1]
(* Mutant: the walk ends when its next timer is taken away. *)
next_forgotten(q, c) == IF c = next THEN NULL ELSE next
(* Mutant: a timer may leave the queue while it is the next one to check. *)
next_kept(q, c) == next

(* The tick thread steps over a timer that leaves the queue. *)
NextWithout(q, c) == IF c = next THEN TAILQ_NEXT(q, c) ELSE next

(* Mutant: a timer that is queued already is queued once more. *)
start_without_remove(c, to_ticks) ==
  /\ callqueue' = Append(callqueue, c)
  /\ next' = next
  /\ active' = [active EXCEPT ![c] = TRUE]
  /\ pending' = [pending EXCEPT ![c] = TRUE]
  /\ c_time' = [c_time EXCEPT ![c] = Wrap(ticks + to_ticks)]
  /\ left' = [left EXCEPT ![c] = to_ticks]

sctp_os_timer_start(c, to_ticks) ==
  /\ callqueue' = Append(IF pending[c] THEN TAILQ_REMOVE(callqueue, c)
                                       ELSE callqueue, c)
  /\ next' = IF pending[c] THEN NextWithout(callqueue, c) ELSE next
  /\ active' = [active EXCEPT ![c] = TRUE]
  /\ pending' = [pending EXCEPT ![c] = TRUE]
  /\ c_time' = [c_time EXCEPT ![c] = Wrap(ticks + to_ticks)]
  /\ left' = [left EXCEPT ![c] = to_ticks]

sctp_os_timer_stop(c) ==
  /\ active' = [active EXCEPT ![c] = FALSE]
  /\ pending' = [pending EXCEPT ![c] = FALSE]
  /\ callqueue' = IF pending[c] THEN TAILQ_REMOVE(callqueue, c) ELSE callqueue
  /\ next' = IF pending[c] THEN NextWithout(callqueue, c) ELSE next
  /\ UNCHANGED <<c_time, left>>

(* Start a timer, or reschedule one that runs as the SACK handlers do. *)
Start(c) ==
  /\ gen[c] < MaxStarts
  /\ \E d \in 1 .. MaxDelay :
       ticks + d <= MaxTicks /\ sctp_os_timer_start(c, d)
  /\ gen' = [gen EXCEPT ![c] = @ + 1]
  /\ UNCHANGED <<ticks, run, phase, rungen, expired>>

Stop(c) ==
  /\ sctp_os_timer_stop(c)
  /\ UNCHANGED <<ticks, run, phase, gen, rungen, expired>>

(***************************************************************************)
(* sctp_handle_tick.  Walk goes on at position i of the queue: the first   *)
(* timer that is due leaves the queue and its handler is called, or the    *)
(* walk ends.                                                              *)
(***************************************************************************)
Due(now, i) == {j \in i .. Len(callqueue) : c_time[callqueue[j]] <= now}

Walk(now, i) ==
  \/ /\ Due(now, i) = {}
     /\ run' = NULL /\ phase' = "idle" /\ next' = NULL
     /\ UNCHANGED <<callqueue, pending, rungen>>
  \/ \E j \in Due(now, i) :
       LET c == callqueue[j] IN
       /\ \A k \in Due(now, i) : j <= k
       /\ next' = TAILQ_NEXT(callqueue, c)
       /\ callqueue' = TAILQ_REMOVE(callqueue, c)
       /\ pending' = [pending EXCEPT ![c] = FALSE]
       /\ run' = c /\ phase' = "call" /\ rungen' = gen[c]

sctp_handle_tick ==
  /\ phase = "idle" /\ ticks < MaxTicks
  /\ ticks' = Wrap(ticks + Delta)
  /\ left' = [c \in Timers |-> IF left[c] > Delta THEN left[c] - Delta ELSE 0]
  /\ Walk(ticks', 1)
  /\ UNCHANGED <<active, c_time, gen, expired>>

(* The handler returned: the walk goes on at sctp_os_timer_next. *)
Resume ==
  /\ phase = "done"
  /\ Walk(ticks, IF next = NULL THEN Len(callqueue) + 1
                                ELSE Index(callqueue, next))
  /\ UNCHANGED <<active, c_time, ticks, gen, left, expired>>

(* sctp_timeout_handler before it has the TCB lock: a stopped timer is left *)
(* alone.                                                                   *)
HandlerEnter ==
  /\ phase = "call"
  /\ phase' = IF active[run] THEN "lock" ELSE "done"
  /\ UNCHANGED <<queueVars, ticks, run, gen, rungen, left, expired>>

(* Mutant: a timer that was started again is not looked for. *)
handler_without_pending_check ==
  /\ phase = "lock" /\ phase' = "done"
  /\ \/ /\ ~active[run]
        /\ UNCHANGED <<active, expired>>
     \/ /\ active[run]
        /\ active' = [active EXCEPT ![run] = FALSE]
        /\ expired' = expired \cup {<<run, rungen>>}
  /\ UNCHANGED <<callqueue, pending, c_time, next, ticks, run, gen, rungen, left>>

(* ... and with it: "Callout has been rescheduled" and "Not active, so no   *)
(* action" leave; otherwise the timer is deactivated and served.            *)
HandlerServe ==
  /\ phase = "lock" /\ phase' = "done"
  /\ \/ /\ pending[run] \/ ~active[run]
        /\ UNCHANGED <<active, expired>>
     \/ /\ ~pending[run] /\ active[run]
        /\ active' = [active EXCEPT ![run] = FALSE]
        /\ expired' = expired \cup {<<run, rungen>>}
  /\ UNCHANGED <<callqueue, pending, c_time, next, ticks, run, gen, rungen, left>>

Init ==
  /\ callqueue = <<>> /\ next = NULL /\ run = NULL /\ phase = "idle"
  /\ active = [c \in Timers |-> FALSE]
  /\ pending = [c \in Timers |-> FALSE]
  /\ c_time = [c \in Timers |-> 0]
  /\ ticks = 0 /\ rungen = 0 /\ expired = {}
  /\ gen = [c \in Timers |-> 0]
  /\ left = [c \in Timers |-> 0]

TickThread == sctp_handle_tick \/ HandlerEnter \/ HandlerServe \/ Resume

Next == TickThread \/ \E c \in Timers : Start(c) \/ Stop(c)

Spec == Init /\ [][Next]_vars

(* The thread wakes up for ever (user_sctp_timer_iterate), and the lock it  *)
(* waits for is released.                                                   *)
LiveSpec == Spec /\ WF_vars(TickThread)

-----------------------------------------------------------------------------
(***************************************************************************)
(* Properties.                                                             *)
(***************************************************************************)
(* The PENDING flag tells whether a timer is in the queue, and a timer is   *)
(* in it at most once, so that TAILQ_REMOVE never meets a timer that is not *)
(* there or leaves one behind.                                              *)
QueueMatchesFlags ==
  /\ \A c \in Timers : pending[c] <=> \E i \in DOMAIN callqueue : callqueue[i] = c
  /\ \A i, j \in DOMAIN callqueue : callqueue[i] = callqueue[j] => i = j

(* While a handler runs without the queue lock, the timer with which the    *)
(* walk goes on stays in the queue, whoever stops or reschedules timers.    *)
NextIsQueued == next # NULL => pending[next]

(* A walk serves everything: after it, every queued timer still has to wait *)
(* ("callout is waiting for timeout"), even if handlers and other threads   *)
(* took timers out of the queue and put them back while it was under way.   *)
OnTime ==
  phase = "idle" => \A c \in Timers : pending[c] => left[c] > 0

(* The queue and the handler's checks implement the timers the protocol     *)
(* expects: what is served is the latest start of a timer, never one that   *)
(* was stopped, and every start is served in the end.                       *)
TS == INSTANCE TimerService WITH armed <- active
ImplementsTimers == TS!Spec
=============================================================================

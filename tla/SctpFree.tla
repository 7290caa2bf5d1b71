------------------------------ MODULE SctpFree ------------------------------
(***************************************************************************)
(* The end of associations and of their endpoint: sctp_free_assoc with its *)
(* reference count and its exchange of locks, sctp_inpcb_free, the kill    *)
(* timers that try again, and the threads they compete with: input, users, *)
(* close, accept and the timer thread.  What a thread does with a TCB that *)
(* it has locked is left out.  A thread that waits for locks takes them in *)
(* the order of its want.                                                   *)
(***************************************************************************)
EXTENDS Integers, Sequences, FiniteSets

CONSTANTS
    Tcbs,           \* the associations of the endpoint
    Workers,        \* threads that bring packets and calls of the user
    MaxCalls,       \* bound: packets and calls per thread
    AcceptAborted,  \* whether the user accepts what was aborted in the queue
    LateResets,     \* whether a stream reset call gets to an association that is
                    \* about to be freed and starts its timer
    SlowClose       \* whether the endpoint's kill timer may come up while sctp_close
                    \* is still under way (SCTP_INP_KILL_TIMEOUT, 20 ms)

ASSUME FreeAssumption ==
    /\ IsFiniteSet(Tcbs) /\ IsFiniteSet(Workers) /\ MaxCalls \in Nat
    /\ AcceptAborted \in BOOLEAN /\ LateResets \in BOOLEAN /\ SlowClose \in BOOLEAN
    /\ {"tick", "close"} \cap Workers = {}
    /\ {"info", "inp", "none"} \cap Tcbs = {} /\ "none" \notin Workers

VARIABLES
    tcb,     \* TCB -> its flags, reference count and timers
    inp,     \* the endpoint: flags, reference count and kill timer
    th,      \* thread -> where it is, the locks it waits for, its variables
    owner,   \* lock -> the thread that holds it
    calls    \* worker -> packets and calls so far

vars == <<tcb, inp, th, owner, calls>>

Threads == Workers \cup {"tick", "close"}
Locks == Tcbs \cup {"info", "inp"}
Timers == {"off", "queued", "fired"}
Uses == {"kill", "strreset"}

\* stcb->asoc.state == 0 is dead, SCTP_STATE_ABOUT_TO_BE_FREED is about, and
\* SCTP_STATE_IN_ACCEPT_QUEUE is accept.  A callout is queued, or fired: off the
\* queue but active.  The kill timer and the stream reset timer are one callout,
\* asoc.strreset_timer: kill is its state, as the type it was last started with.
NewTcb(accept) ==
    [alloc |-> TRUE, dead |-> FALSE, about |-> FALSE, accept |-> accept,
     ref |-> 0, kill |-> "off", as |-> "strreset", rxt |-> "off"]

Idle == [at |-> "idle", want |-> <<>>, t |-> "none", force |-> FALSE, abort |-> FALSE,
         todo |-> {}, left |-> FALSE, ret |-> "none", timer |-> "none", ref |-> FALSE]

\* Only a one-to-one socket has an accept queue.
Init ==
    /\ tcb \in {[t \in Tcbs |-> NewTcb(q)] :
                    q \in IF Cardinality(Tcbs) = 1 THEN BOOLEAN ELSE {FALSE}}
    /\ inp = [alloc |-> TRUE, allgone |-> FALSE, gone |-> FALSE, close_ip |-> FALSE,
              ref |-> 0, kill |-> "off"]
    /\ th = [x \in Threads |-> Idle]
    /\ owner = [l \in Locks |-> "none"]
    /\ calls = [x \in Workers |-> 0]

Linked == {t \in Tcbs : ~tcb[t].dead}

At(x, label) == th[x].at = label /\ th[x].want = <<>>

\* The thread goes on at a label, where it needs the locks of want.
Goto(x, label, want) == th' = [th EXCEPT ![x].at = label, ![x].want = want]
Return(x) == th' = [th EXCEPT ![x] = Idle]

Unlock(L) == owner' = [l \in Locks |-> IF l \in L THEN "none" ELSE owner[l]]

\* pthread_mutex_lock
Acquire(x) ==
    /\ th[x].want # <<>>
    /\ owner[Head(th[x].want)] = "none"
    /\ owner' = [owner EXCEPT ![Head(th[x].want)] = x]
    /\ th' = [th EXCEPT ![x].want = Tail(@)]
    /\ UNCHANGED <<tcb, inp, calls>>

-----------------------------------------------------------------------------
(* The callout that the kill timer and the stream reset timer share: a start *)
(* is refused while it is queued, a stop of the wrong type does nothing.     *)

StartKill(r) ==
    IF r.kill = "queued" THEN r ELSE [r EXCEPT !.kill = "queued", !.as = "kill"]
StartReset(r) ==
    IF r.kill = "queued" THEN r ELSE [r EXCEPT !.kill = "queued", !.as = "strreset"]
StopReset(r) ==
    IF r.as = "kill" THEN r ELSE [r EXCEPT !.kill = "off"]

-----------------------------------------------------------------------------
(* sctp_free_assoc *)

\* Mutant: "it might be the free-asoc timer which we DON'T want to disturb".
stop_timers_spares_shared(r) == [r EXCEPT !.rxt = "off"]

\* The shared callout is stopped whatever it runs as.
StopTimers(r) == [r EXCEPT !.rxt = "off", !.kill = "off"]

\* What happens after sctp_free_assoc, which always gives up the TCB lock: a
\* loop of sctp_inpcb_free goes on and notes a TCB that is left; the timer
\* thread gives back its reference on the endpoint.
AfterFree(x, left) ==
    IF th[x].force
    THEN /\ th' = [th EXCEPT ![x].at = "loop", ![x].left = @ \/ left, ![x].force = FALSE]
         /\ UNCHANGED inp
    ELSE /\ Return(x)
         /\ inp' = [inp EXCEPT !.ref = @ - (IF th[x].ref THEN 1 ELSE 0)]

\* Mutant: an association is freed whatever its reference count is.
free_without_refcnt_check(x) ==
    LET t == th[x].t  r == tcb[t]  force == th[x].force IN
    /\ At(x, "free")
    /\ tcb' = [tcb EXCEPT ![t] =
            [StopTimers(r) EXCEPT !.about = TRUE, !.ref = IF force THEN @ ELSE @ + 1]]
    /\ IF force THEN UNCHANGED owner ELSE Unlock({t})
    /\ Goto(x, "check", IF force THEN <<>> ELSE <<"info", "inp", t>>)
    /\ UNCHANGED <<inp, calls>>

\* The state is not 0 here ("really TSNH", see FreedOnce).
FreeAssoc(x) ==
    LET t == th[x].t  r == tcb[t] IN
    /\ At(x, "free")
    /\ ~r.dead
    /\ \/ \* a reader or writer is in the way of the timer or of another abort
          /\ r.about /\ r.ref > 0 /\ ~th[x].force
          /\ tcb' = [tcb EXCEPT ![t] = StartKill(@)]
          /\ Unlock({t}) /\ AfterFree(x, TRUE)
       \/ \* someone holds a reference, or the socket is not accepted yet
          /\ ~(r.about /\ r.ref > 0 /\ ~th[x].force)
          /\ r.ref > 0 \/ r.accept
          /\ tcb' = [tcb EXCEPT ![t] =
                IF r.ref > 0 \/ inp.gone
                THEN [StartKill(StopTimers(r)) EXCEPT !.about = TRUE, !.accept = FALSE]
                ELSE [StopTimers(r) EXCEPT !.about = TRUE]]
          /\ Unlock({t}) /\ AfterFree(x, TRUE)
       \/ \* the exchange of locks, under a reference
          /\ r.ref = 0 /\ ~r.accept
          /\ tcb' = [tcb EXCEPT ![t] =
                [StopTimers(r) EXCEPT !.about = TRUE, !.ref = IF th[x].force THEN 0 ELSE 1]]
          /\ IF th[x].force
             THEN UNCHANGED owner /\ Goto(x, "check", <<>>)
             ELSE Unlock({t}) /\ Goto(x, "check", <<"info", "inp", t>>)
          /\ UNCHANGED inp
    /\ UNCHANGED calls

\* Mutants: the reference is given back though none was taken; the count is not
\* looked at again.
check_always_decrements(x) ==
    /\ At(x, "check")
    /\ tcb' = [tcb EXCEPT ![th[x].t].ref = @ - 1]
    /\ Goto(x, "kill", <<>>)
    /\ UNCHANGED <<inp, owner, calls>>

check_without_recheck(x) ==
    /\ At(x, "check")
    /\ tcb' = [tcb EXCEPT ![th[x].t].ref = @ - (IF th[x].force THEN 0 ELSE 1)]
    /\ Goto(x, "kill", <<>>)
    /\ UNCHANGED <<inp, owner, calls>>

\* With all locks: give the reference back and look again.
FreeCheck(x) ==
    LET t == th[x].t
        n == tcb[t].ref - (IF th[x].force THEN 0 ELSE 1)
    IN
    /\ At(x, "check")
    /\ IF n > 0
       THEN /\ tcb' = [tcb EXCEPT ![t] = [StartKill(@) EXCEPT !.ref = n, !.accept = FALSE]]
            /\ Unlock(IF th[x].force THEN {t} ELSE {t, "info", "inp"})
            /\ AfterFree(x, TRUE)
       ELSE /\ tcb' = [tcb EXCEPT ![t].ref = n]
            /\ Goto(x, "kill", <<>>)
            /\ UNCHANGED <<inp, owner>>
    /\ UNCHANGED calls

\* asoc->state = 0, off every list, and the timers are stopped once more.
FreeKill(x) ==
    LET t == th[x].t IN
    /\ At(x, "kill")
    /\ tcb' = [tcb EXCEPT ![t] = [StopTimers(@) EXCEPT !.dead = TRUE]]
    /\ IF th[x].force THEN UNCHANGED <<inp, owner>>
       ELSE Unlock({"inp"}) /\ inp' = [inp EXCEPT !.ref = @ + 1]
    /\ Goto(x, "destroy", <<>>)
    /\ UNCHANGED calls

\* The TCB goes back to its zone.
FreeDestroy(x) ==
    LET t == th[x].t IN
    /\ At(x, "destroy")
    /\ tcb' = [tcb EXCEPT ![t].alloc = FALSE]
    /\ IF th[x].force THEN Unlock({t}) /\ AfterFree(x, FALSE)
       ELSE /\ Unlock({t, "info"})
            /\ Goto(x, "callback", <<"inp">>)
            /\ UNCHANGED inp
    /\ UNCHANGED calls

\* Mutant: the last association does not call back.
callback_without_inpcb_free(x) ==
    /\ At(x, "callback")
    /\ Unlock({"inp"})
    /\ Return(x)
    /\ inp' = [inp EXCEPT !.ref = @ - (IF th[x].ref THEN 2 ELSE 1)]
    /\ UNCHANGED <<tcb, calls>>

\* "If its NOT the inp_free calling us AND sctp_close as been called, we call
\* back", under a reference on the endpoint.
Callback(x) ==
    /\ At(x, "callback")
    /\ Unlock({"inp"})
    /\ IF inp.gone
       THEN /\ th' = [th EXCEPT ![x].at = "inpfree", ![x].abort = FALSE, ![x].ret = "decr"]
            /\ UNCHANGED inp
       ELSE /\ Return(x)
            /\ inp' = [inp EXCEPT !.ref = @ - (IF th[x].ref THEN 2 ELSE 1)]
    /\ UNCHANGED <<tcb, calls>>

-----------------------------------------------------------------------------
(* sctp_inpcb_free *)

\* Callers that came from sctp_free_assoc give their references back.
InpReturn(x) ==
    /\ Return(x)
    /\ inp' = [inp EXCEPT !.ref = @ - (IF th[x].ret = "decr" THEN 1 ELSE 0)
                                    - (IF th[x].ref THEN 1 ELSE 0)]

\* Mutant: the locks in the other order.
inpcb_free_inp_lock_first(x) ==
    /\ At(x, "inpfree")
    /\ IF inp.allgone THEN InpReturn(x)
       ELSE Goto(x, "enter", <<"inp", "info">>) /\ UNCHANGED inp
    /\ UNCHANGED <<tcb, owner, calls>>

InpFree(x) ==
    /\ At(x, "inpfree")
    /\ IF inp.allgone THEN InpReturn(x)
       ELSE Goto(x, "enter", <<"info", "inp">>) /\ UNCHANGED inp
    /\ UNCHANGED <<tcb, owner, calls>>

InpEnter(x) ==
    /\ At(x, "enter")
    /\ inp' = [inp EXCEPT !.close_ip = @ /\ x # "close"]
    /\ th' = [th EXCEPT ![x].at = "loop", ![x].todo = Linked, ![x].left = FALSE]
    /\ UNCHANGED <<tcb, owner, calls>>

\* The loops over the associations: one at a time, under its lock.
InpNext(x) ==
    /\ At(x, "loop")
    /\ \E t \in th[x].todo :
        th' = [th EXCEPT ![x].at = "each", ![x].t = t, ![x].want = <<t>>,
                         ![x].todo = @ \ {t}]
    /\ UNCHANGED <<tcb, inp, owner, calls>>

\* Skip what is being freed, but see to its kill timer; free it, or, in a
\* graceful close, leave it to the shutdown.
InpEach(x) ==
    LET t == th[x].t  r == tcb[t] IN
    /\ At(x, "each")
    /\ \/ /\ r.about
          /\ tcb' = IF r.accept
                    THEN [tcb EXCEPT ![t] = [StartKill(@) EXCEPT !.accept = FALSE]] ELSE tcb
          /\ Unlock({t})
          /\ th' = [th EXCEPT ![x].at = "loop", ![x].left = TRUE]
       \/ /\ ~r.about
          /\ th' = [th EXCEPT ![x].at = "free", ![x].force = TRUE]
          /\ UNCHANGED <<tcb, owner>>
       \/ /\ ~r.about /\ ~th[x].abort
          /\ tcb' = [tcb EXCEPT ![t].rxt = "queued"]
          /\ Unlock({t})
          /\ th' = [th EXCEPT ![x].at = "loop", ![x].left = TRUE]
    /\ UNCHANGED <<inp, calls>>

\* After the loops: associations that are left will call again; a reference, a
\* close that has not been here starts the kill timer.  (A contended lock is
\* never seen: the macros are (0) in userland.)
InpDecide(x) ==
    /\ At(x, "loop")
    /\ th[x].todo = {}
    /\ Unlock({"info", "inp"})
    /\ \/ /\ th[x].left
          /\ Return(x)
          /\ inp' = [inp EXCEPT !.ref = @ - (IF th[x].ret = "decr" THEN 1 ELSE 0)
                                          - (IF th[x].ref THEN 1 ELSE 0),
                                !.kill = IF th[x].abort THEN "off" ELSE @]
       \/ /\ ~th[x].left
          /\ inp.ref > 0 \/ inp.close_ip
          /\ Return(x)
          /\ inp' = [inp EXCEPT !.ref = @ - (IF th[x].ret = "decr" THEN 1 ELSE 0)
                                          - (IF th[x].ref THEN 1 ELSE 0),
                                !.kill = "queued"]
       \/ /\ ~th[x].left
          /\ inp.ref = 0 /\ ~inp.close_ip
          /\ inp' = [inp EXCEPT !.allgone = TRUE]
          /\ Goto(x, "inpdestroy", <<>>)
    /\ UNCHANGED <<tcb, calls>>

\* The kill timer is stopped; SCTP_OS_TIMER_STOP_DRAIN does not wait for it.
InpDestroy(x) ==
    /\ At(x, "inpdestroy")
    /\ inp' = [inp EXCEPT !.kill = "off", !.alloc = FALSE]
    /\ Return(x)
    /\ UNCHANGED <<tcb, owner, calls>>

-----------------------------------------------------------------------------
(* Input: a packet's association is looked up and locked. *)

Call(x) == x \in Workers /\ At(x, "idle") /\ calls[x] < MaxCalls
        /\ calls' = [calls EXCEPT ![x] = @ + 1]

Packet(x) ==
    /\ Call(x)
    /\ Goto(x, "lookup", <<"info">>)
    /\ UNCHANGED <<tcb, inp, owner>>

Lookup(x) ==
    /\ At(x, "lookup")
    /\ \/ Unlock({"info"}) /\ Return(x)
       \/ \E t \in Linked :
            /\ th' = [th EXCEPT ![x].at = "found", ![x].t = t, ![x].want = <<"inp", t>>]
            /\ UNCHANGED owner
    /\ UNCHANGED <<tcb, inp, calls>>

\* sctp_findassoc_by_vtag: one that is being freed is not found.
Found(x) ==
    LET t == th[x].t IN
    /\ At(x, "found")
    /\ IF tcb[t].about THEN Unlock({"info", "inp", t}) /\ Return(x)
       ELSE Unlock({"info", "inp"}) /\ Goto(x, "locked", <<>>)
    /\ UNCHANGED <<tcb, inp, calls>>

\* The packet is processed, or it ends the association.
Input(x) ==
    LET t == th[x].t IN
    /\ At(x, "locked")
    /\ \/ /\ Unlock({t}) /\ Return(x)
          /\ \E s \in {tcb[t].rxt, "off", "queued"},
                r \in {tcb[t], StartReset(tcb[t]), StopReset(tcb[t])} :
                    tcb' = [tcb EXCEPT ![t] = [r EXCEPT !.rxt = s]]
       \/ Goto(x, "free", <<>>) /\ UNCHANGED <<tcb, owner>>
    /\ UNCHANGED <<inp, calls>>

-----------------------------------------------------------------------------
(* A send keeps a reference while it copies the user's data unlocked. *)

\* The user has the socket: it is not closed and was accepted.
Usable == ~inp.gone /\ \A t \in Tcbs : ~tcb[t].accept

Send(x) ==
    /\ Call(x)
    /\ Usable
    /\ Goto(x, "first", <<"inp">>)
    /\ UNCHANGED <<tcb, inp, owner>>

First(x) ==
    /\ At(x, "first")
    /\ \/ Linked = {} /\ Unlock({"inp"}) /\ Return(x)
       \/ \E t \in Linked :
            /\ th' = [th EXCEPT ![x].at = "refer", ![x].t = t, ![x].want = <<t>>]
            /\ UNCHANGED owner
    /\ UNCHANGED <<tcb, inp, calls>>

\* Mutant: ECONNRESET is returned without going through out_unlocked.
refer_leaks(x) ==
    LET t == th[x].t IN
    /\ At(x, "refer")
    /\ tcb' = [tcb EXCEPT ![t].ref = @ + 1]
    /\ Unlock({"inp", t})
    /\ IF tcb[t].about THEN Return(x) ELSE Goto(x, "copy", <<>>)
    /\ UNCHANGED <<inp, calls>>

Refer(x) ==
    LET t == th[x].t IN
    /\ At(x, "refer")
    /\ tcb' = [tcb EXCEPT ![t].ref = @ + 1]
    /\ Unlock({"inp", t})
    /\ Goto(x, IF tcb[t].about THEN "leave" ELSE "copy", <<>>)
    /\ UNCHANGED <<inp, calls>>

\* The copy ends: with an error, with data to queue, or to abort.
Copied(x) ==
    /\ At(x, "copy")
    /\ \/ Goto(x, "leave", <<>>)
       \/ \E label \in {"queue", "userabort"} : Goto(x, label, <<th[x].t>>)
    /\ UNCHANGED <<tcb, inp, owner, calls>>

Queue(x) ==
    LET t == th[x].t IN
    /\ At(x, "queue")
    /\ \E s \in {tcb[t].rxt} \cup (IF tcb[t].about THEN {} ELSE {"queued"}) :
        tcb' = [tcb EXCEPT ![t].rxt = s]
    /\ Unlock({t})
    /\ Goto(x, "leave", <<>>)
    /\ UNCHANGED <<inp, calls>>

Leave(x) ==
    /\ At(x, "leave")
    /\ tcb' = [tcb EXCEPT ![th[x].t].ref = @ - 1]
    /\ Return(x)
    /\ UNCHANGED <<inp, owner, calls>>

UserAbort(x) ==
    /\ At(x, "userabort")
    /\ tcb' = [tcb EXCEPT ![th[x].t].ref = @ - 1]
    /\ Goto(x, "free", <<>>)
    /\ UNCHANGED <<inp, owner, calls>>

\* SCTP_RESET_STREAMS of sctp_setopt: the association is found and locked, with no
\* look at its state on a one-to-one socket; the request starts its timer and goes out
\* with what else there is to send.
ResetStreams(x) ==
    /\ Call(x)
    /\ Usable
    /\ Goto(x, "pick", <<"inp">>)
    /\ UNCHANGED <<tcb, inp, owner>>

Pick(x) ==
    /\ At(x, "pick")
    /\ \/ Linked = {} /\ Unlock({"inp"}) /\ Return(x)
       \/ \E t \in Linked :
            /\ th' = [th EXCEPT ![x].at = "reset", ![x].t = t, ![x].want = <<t>>]
            /\ UNCHANGED owner
    /\ UNCHANGED <<tcb, inp, calls>>

ResetStart(x) ==
    LET t == th[x].t IN
    /\ At(x, "reset")
    /\ \/ UNCHANGED tcb
       \/ /\ tcb[t].about => LateResets
          /\ \E s \in {tcb[t].rxt, "queued"} :
                tcb' = [tcb EXCEPT ![t] = [StartReset(@) EXCEPT !.rxt = s]]
    /\ Unlock({"inp", t})
    /\ Return(x)
    /\ UNCHANGED <<inp, calls>>

\* sctp_accept takes the association off the queue, whatever became of it: one
\* assignment under both locks.
Accept(x) ==
    /\ Call(x)
    /\ ~inp.gone
    /\ owner["inp"] = "none"
    /\ \E t \in Linked :
        /\ tcb[t].accept
        /\ tcb[t].about => AcceptAborted
        /\ owner[t] = "none"
        /\ tcb' = [tcb EXCEPT ![t].accept = FALSE]
    /\ UNCHANGED <<inp, th, owner>>

\* sctp_close, once no call of the user is under way.
Close ==
    /\ At("close", "idle")
    /\ ~inp.gone
    /\ \A x \in Workers :
        th[x].at \notin {"first", "refer", "copy", "queue", "leave", "userabort", "pick", "reset"}
    /\ inp' = [inp EXCEPT !.gone = TRUE, !.close_ip = TRUE]
    /\ \E abort \in BOOLEAN :
        th' = [th EXCEPT !["close"].at = "inpfree", !["close"].abort = abort]
    /\ UNCHANGED <<tcb, owner, calls>>

-----------------------------------------------------------------------------
(* The timer thread: sctp_handle_tick and sctp_timeout_handler.  The state *)
(* it reads of a TCB that was freed is what the TCB was left with.          *)

Timer(k, t) ==
    IF k = "inpkill" THEN inp.kill ELSE IF k = "kill" THEN tcb[t].kill ELSE tcb[t].rxt

SetTimer(k, t, s) ==
    IF k = "inpkill" THEN inp' = [inp EXCEPT !.kill = s] /\ UNCHANGED tcb
    ELSE /\ tcb' = IF k = "kill" THEN [tcb EXCEPT ![t].kill = s]
                   ELSE [tcb EXCEPT ![t].rxt = s]
         /\ UNCHANGED inp

Fire(k, t) ==
    /\ At("tick", "idle")
    /\ (k = "inpkill") = (t = "none")
    /\ Timer(k, t) = "queued"
    /\ k = "inpkill" => SlowClose \/ At("close", "idle")
    /\ SetTimer(k, t, "fired")
    /\ th' = [th EXCEPT !["tick"].at = "called", !["tick"].timer = k, !["tick"].t = t]
    /\ UNCHANGED <<owner, calls>>

\* The type is read from the callout each time it is looked at.
Resets(k, t) == k = "kill" /\ tcb[t].as = "strreset"
Protocol(k, t) == k = "rxt" \/ Resets(k, t)

\* A protocol timer that was stopped has lost its self.
Lost(k, t) ==
    /\ k # "inpkill"
    /\ tcb[t].dead \/ (Protocol(k, t) /\ Timer(k, t) = "off")

\* References first, with no lock; a protocol timer may find that the socket is gone.
TickRefer ==
    LET k == th["tick"].timer  t == th["tick"].t IN
    /\ At("tick", "called")
    /\ \/ /\ Lost(k, t) \/ (Protocol(k, t) /\ inp.gone)
          /\ Return("tick")
          /\ UNCHANGED <<tcb, inp>>
       \/ /\ ~Lost(k, t)
          /\ inp' = [inp EXCEPT !.ref = @ + 1]
          /\ tcb' = IF t = "none" THEN tcb ELSE [tcb EXCEPT ![t].ref = @ + 1]
          /\ Goto("tick", "referred", <<>>)
    /\ UNCHANGED <<owner, calls>>

TickActive ==
    LET k == th["tick"].timer  t == th["tick"].t IN
    /\ At("tick", "referred")
    /\ IF Timer(k, t) = "off"
       THEN /\ inp' = [inp EXCEPT !.ref = @ - 1]
            /\ tcb' = IF t = "none" THEN tcb ELSE [tcb EXCEPT ![t].ref = @ - 1]
            /\ Return("tick")
       ELSE Goto("tick", "checks", IF t = "none" THEN <<>> ELSE <<t>>) /\ UNCHANGED <<tcb, inp>>
    /\ UNCHANGED <<owner, calls>>

\* Mutant: the kill timer is no exception.
wanted_like_any_timer(k, t) ==
    /\ Timer(k, t) = "fired"
    /\ t # "none" => ~tcb[t].dead /\ ~tcb[t].about

\* With the TCB lock: give its reference back, and look whether the expiry is
\* still wanted.
Wanted(k, t) ==
    /\ Timer(k, t) = "fired"
    /\ Protocol(k, t) => ~tcb[t].dead /\ ~tcb[t].about

TickDrop ==
    LET k == th["tick"].timer  t == th["tick"].t IN
    /\ At("tick", "checks")
    /\ ~Wanted(k, t)
    /\ tcb' = IF t = "none" THEN tcb ELSE [tcb EXCEPT ![t].ref = @ - 1]
    /\ inp' = [inp EXCEPT !.ref = @ - 1]
    /\ Unlock({t})
    /\ Return("tick")
    /\ UNCHANGED calls

TickServe ==
    LET k == th["tick"].timer  t == th["tick"].t IN
    /\ At("tick", "checks")
    /\ Wanted(k, t)
    /\ \/ /\ k = "kill" /\ ~Resets(k, t)
          /\ tcb' = [tcb EXCEPT ![t].ref = @ - 1, ![t].kill = "off"]
          /\ inp' = [inp EXCEPT !.ref = @ - 1]
          /\ Goto("tick", "free", <<>>)
       \/ /\ Protocol(k, t)
          /\ tcb' = IF k = "kill" THEN [tcb EXCEPT ![t].ref = @ - 1, ![t].kill = "off"]
                    ELSE [tcb EXCEPT ![t].ref = @ - 1, ![t].rxt = "off"]
          /\ th' = [th EXCEPT !["tick"].at = "expired", !["tick"].ref = TRUE]
          /\ UNCHANGED inp
       \/ /\ k = "inpkill"
          /\ inp' = [inp EXCEPT !.ref = @ - 1, !.kill = "off"]
          /\ th' = [th EXCEPT !["tick"].at = "inpfree", !["tick"].abort = TRUE]
          /\ UNCHANGED tcb
    /\ UNCHANGED <<owner, calls>>

\* A protocol timer sends and starts again, or finds its threshold exceeded; the
\* stream reset timer may find no request outstanding.
Expired ==
    LET t == th["tick"].t IN
    /\ At("tick", "expired")
    /\ \/ /\ \/ th["tick"].timer = "rxt" /\ tcb' = [tcb EXCEPT ![t].rxt = "queued"]
             \/ th["tick"].timer = "kill" /\ tcb' = [tcb EXCEPT ![t] = StartReset(@)]
             \/ th["tick"].timer = "kill" /\ UNCHANGED tcb
          /\ inp' = [inp EXCEPT !.ref = @ - 1]
          /\ Unlock({t})
          /\ Return("tick")
       \/ Goto("tick", "free", <<>>) /\ UNCHANGED <<tcb, inp, owner>>
    /\ UNCHANGED calls

-----------------------------------------------------------------------------
Free(x) ==
    \/ FreeAssoc(x) \/ FreeCheck(x) \/ FreeKill(x) \/ FreeDestroy(x) \/ Callback(x)
    \/ InpFree(x) \/ InpEnter(x) \/ InpNext(x) \/ InpEach(x) \/ InpDecide(x) \/ InpDestroy(x)

Work(x) ==
    \/ Lookup(x) \/ Found(x) \/ Input(x)
    \/ First(x) \/ Refer(x) \/ Copied(x) \/ Queue(x) \/ Leave(x) \/ UserAbort(x)
    \/ Pick(x) \/ ResetStart(x)

Tick ==
    \/ TickRefer \/ TickActive \/ TickDrop \/ TickServe \/ Expired

Fires == \E k \in {"kill", "rxt", "inpkill"}, t \in Tcbs \cup {"none"} : Fire(k, t)

Next ==
    \/ \E x \in Threads : Acquire(x) \/ Free(x)
    \/ \E x \in Workers : Packet(x) \/ Send(x) \/ ResetStreams(x) \/ Accept(x) \/ Work(x)
    \/ Close
    \/ Fires
    \/ Tick

Spec == Init /\ [][Next]_vars

\* Threads go on and get the locks they wait for; a queued callout comes up, which
\* is what SctpCallout shows.  Packets, calls and the close need not come.
Fairness ==
    /\ \A x \in Threads \ {"tick"} : SF_vars(Acquire(x)) /\ WF_vars(Free(x) \/ Work(x))
    /\ WF_vars(Acquire("tick") \/ Free("tick") \/ Tick)
    /\ \A t \in Tcbs : SF_vars(Fire("kill", t))
    /\ SF_vars(Fire("inpkill", "none"))

LiveSpec == Spec /\ Fairness

-----------------------------------------------------------------------------
(* Properties *)

Labels ==
    {"idle", "free", "check", "kill", "destroy", "callback", "inpfree", "enter", "loop",
     "each", "inpdestroy", "lookup", "found", "locked", "first", "refer", "copy", "queue",
     "leave", "userabort", "pick", "reset", "called", "referred", "checks", "expired"}

\* TypeOK: the state sctp_free_assoc, sctp_inpcb_free and their callers keep has its
\* type; reference counts do not go below zero.
TypeOK ==
    /\ tcb \in [Tcbs -> [alloc : BOOLEAN, dead : BOOLEAN, about : BOOLEAN, accept : BOOLEAN,
                         ref : Nat, kill : Timers, as : Uses, rxt : Timers]]
    /\ inp \in [alloc : BOOLEAN, allgone : BOOLEAN, gone : BOOLEAN, close_ip : BOOLEAN,
                ref : Nat, kill : Timers]
    /\ th \in [Threads -> [at : Labels, want : {<<>>} \cup [{1} -> Locks]
                                              \cup [1..2 -> Locks] \cup [1..3 -> Locks],
                           t : Tcbs \cup {"none"}, force : BOOLEAN, abort : BOOLEAN,
                           todo : SUBSET Tcbs, left : BOOLEAN, ret : {"none", "decr"},
                           timer : {"none", "kill", "rxt", "inpkill"}, ref : BOOLEAN]]
    /\ owner \in [Locks -> Threads \cup {"none"}]
    /\ calls \in [Workers -> 0..MaxCalls]

Freeing(t) == {x \in Threads : th[x].t = t /\ th[x].at \in {"check", "kill", "destroy"}}

\* FreedOnce: at most one thread is past the decision to free an association, though
\* the TCB lock is dropped there ("assuring us that we hold exclusive killing of the
\* asoc", sctp_pcb.c:5634), and nobody starts to free what is freed.
FreedOnce ==
    \A t \in Tcbs :
        /\ Cardinality(Freeing(t)) <= 1
        /\ \A x \in Threads : th[x].t = t =>
            /\ th[x].at \in {"free", "check", "kill"} => ~tcb[t].dead
            /\ th[x].at = "destroy" => tcb[t].alloc

\* Protected: a thread that uses a TCB or the endpoint, with a lock, a reference or
\* by its place on a list that is locked, never does so after it was freed.  The
\* timer thread before it holds the TCB lock is left out: see the README.
Protected ==
    \A x \in Threads :
        /\ th[x].at \in {"free", "check", "kill", "destroy", "each", "found", "locked", "refer",
                        "copy", "queue", "leave", "userabort", "reset", "expired"}
              => tcb[th[x].t].alloc
        /\ th[x].at \notin {"idle", "lookup", "called", "referred", "checks"}
              => inp.alloc

Bit(b) == IF b THEN 1 ELSE 0

\* RefExact: the reference counts are what the threads hold: no early return of
\* sctp_lower_sosend, sctp_timeout_handler or sctp_free_assoc leaks one or gives
\* one back twice.
RefExact ==
    /\ \A t \in {u \in Tcbs : tcb[u].alloc} : tcb[t].ref = Cardinality({x \in Threads :
            /\ th[x].t = t
            /\ \/ th[x].at \in {"copy", "queue", "leave", "userabort", "referred", "checks"}
               \/ th[x].at = "check" /\ ~th[x].force})
    /\ inp.alloc => inp.ref =
            Cardinality({x \in Threads : th[x].ref})
            + Cardinality({x \in Threads : th[x].ret = "decr" \/ th[x].at = "callback"
                                \/ (th[x].at = "destroy" /\ ~th[x].force)})
            + Bit(th["tick"].at \in {"referred", "checks"} /\ ~th["tick"].ref)

\* KillTimerRuns: what is about to be freed is in the hands of a thread that frees it,
\* has a kill timer, not a stream reset timer, that will try again, or waits in the
\* accept queue of an open socket; otherwise nothing would ever free it.
KillTimerRuns ==
    \A t \in Tcbs : tcb[t].about /\ ~tcb[t].dead =>
        \/ Freeing(t) # {} \/ (\E x \in Threads : th[x].t = t /\ th[x].at = "free")
        \/ tcb[t].kill # "off" /\ tcb[t].as = "kill"
        \/ tcb[t].accept /\ (~inp.gone \/ \E x \in Threads :
                th[x].at \in {"inpfree", "enter"} \/ t \in th[x].todo
                \/ (th[x].at = "each" /\ th[x].t = t))

\* Freed: an association that was aborted or ended is freed in the end, once it is
\* not in the accept queue of an open socket.
Freed ==
    \A t \in Tcbs : tcb[t].about /\ (~tcb[t].accept \/ inp.gone) ~> ~tcb[t].alloc

\* CallsReturn: every call of the user, every packet's processing and the close come
\* to an end: the threads that free take their locks in an order in which nobody
\* waits for ever.
CallsReturn == \A x \in Threads \ {"tick"} : []<>(th[x].at = "idle")

\* EndpointFreed: a closed endpoint with no association left is freed in the end.
EndpointFreed == inp.gone /\ Linked = {} ~> ~inp.alloc
=============================================================================

# A TLA+ verification project for sctp-refimpl

This project models the SCTP stack in `src/KERN/netinet` (the reference
implementation that is also the stack of FreeBSD, of the Darwin NKE and of
usrsctp): the association state machine, the timers that drive it, the mapping
arrays of the receive side, the sent queue and its accounting, stream reset and
stream addition, and the freeing of associations and endpoints. The modules are translated from the C code; line
numbers are in `PROJECT.json` under `map`.

    tlc -workers 2 -config AssocShutdown.cfg MCSctpAssoc      # any run
    tlapm SctpAssocProofs.tla                                 # any proof module

## 1. The system

### Components, their state and operations

| Component | Files (`src/KERN/netinet`) | State | Operations | Modelled in |
|---|---|---|---|---|
| Association state machine | `sctp_input.c`, `sctp_output.c`, `sctp_usrreq.c`, `sctp_pcb.c`, `sctputil.c` | `struct sctp_tcb`: state and flags, verification tags, tie-tag nonces, TSN counters, the queued COOKIE-ECHO, error count | connect, send, shutdown, close, abort; one handler per chunk type | `SctpAssoc` |
| Retransmission, set-up and shutdown timers | `sctp_timer.c`, `sctputil.c` | `net->rxt_timer` (one slot per destination for five timer types), `shut_guard_timer` | `sctp_timer_start`, `sctp_timer_stop`, `sctp_timeout_handler` and a handler per type | `SctpAssoc` |
| Callout queue | `sctp_callout.c`, head of `sctp_timeout_handler` | the queue, ACTIVE and PENDING, the clock, `sctp_os_timer_next` | start, stop, tick | `SctpCallout`, `TimerService` |
| Receive side | `sctp_indata.c` | mapping arrays, cumulative TSN, reassembly and stream queues, window | process DATA, slide, SACK, FORWARD-TSN | `SctpTsnMap`, `ReceivedSet` (arrays and SACKs); ordered delivery in `SctpStrReset`; a set in `SctpAssoc`; window left open |
| Send side | `sctp_output.c`, `sctp_indata.c` | stream, send and sent queues, flight size, peer's window | send, chunk output, SACK handling, T3, fast retransmit | `SctpSender`; drained or not in `SctpAssoc` |
| Freeing of TCBs and endpoints | `sctp_pcb.c` | reference counts, ABOUT_TO_BE_FREED, IN_ACCEPT_QUEUE, endpoint flags, the kill timers | `sctp_free_assoc`, `sctp_inpcb_free`, their callers | `SctpFree` |
| Stream reset, stream addition | `sctp_input.c`, `sctp_output.c`, `sctp_indata.c` | request and response sequence numbers, the last two results, the outstanding request, pending resets | SCTP_RESET_STREAMS, SCTP_ADD_STREAMS, RE-CONFIG handlers, strreset timer | `SctpStrReset` |
| ASCONF | `sctp_asconf.c` | serial numbers, cached ASCONF-ACKs, address states | ASCONF, ASCONF-ACK, address add and delete | planned |
| AUTH | `sctp_auth.c` | shared keys with reference counts, active key | add, activate, deactivate, delete key | planned (keys); HMACs are pure data |
| Stream schedulers | `sctp_ss_functions.c` | scheduling lists | add, remove, select, scheduled | planned |
| Congestion control | `sctp_cc_functions.c` | cwnd, ssthresh, RTT history | per-SACK and per-timeout updates | planned as bounds only |
| Path management | `sctp_timer.c`, `sctp_pcb.c` | destination states, error counts, primary | heartbeat, potentially failed, failover | not modelled; `SctpSender` lets T3 move chunks to any destination |
| Addresses, iterator | `sctp_bsd_addr.c`, `sctp_pcb.c` | interface tables, work queue | add, delete, iterate | not modelled |
| Socket API | `sctp_usrreq.c`, `sctp_peeloff.c` | socket options | setsockopt, receive, peel-off | connect, send, shutdown, close, abort in `SctpAssoc`; accept, close, abort in `SctpFree`; stream options in `SctpStrReset` |
| Checksums, hashes, sysctl | `sctp_crc32.c`, `sctp_sha1.c`, ... | none | pure functions | not modelled |
| `KERN/usrsctp`, `KERN/netinet6`, OS ports, `APPS`, `rserpool` | - | - | - | not modelled: glue, users and other protocols |

How they interact. Packets, system calls and callouts enter with the TCB lock
held, change the TCB, and nearly always end in `sctp_chunk_output`. Four paths
give the lock up in the middle: a send copies user data without it; a restart
gives it up between clearing the mapping arrays and taking over the new tags
(`sctp_input.c:1968`); the tick thread calls handlers without the queue lock, and
a handler takes the TCB lock only after it was taken off the queue;
`sctp_free_assoc` exchanges locks. (A fifth is left out: for a one-to-one socket
the handler of COOKIE-ECHO unlocks around `sonewconn`.) The two endpoints share only the network, which loses, repeats and reorders.

Where it is hard: crossing set-ups and restarts with cookies that carry state
outside the TCB; packets of earlier incarnations; five timer types in one slot
that refuses a second start; a shutdown that may be continued by whichever of
four handlers finds the queues empty; expiries that were already under way when
the timer was stopped; TSNs that wrap inside arrays that slide and grow; SACKs
that arrive out of order and take acknowledgements back; flight sizes kept by
increments in a dozen places; stream sequence numbers that start again while
data of both ages is under way; an association that several threads try to free. `PROJECT.json` lists each under `hazards` at its line.

## 2. Modules

### SctpAssoc: two endpoints and a network

| Variable | Code |
|---|---|
| `tcb[n].state`, `pending`, `sock` | `asoc.state`, `SCTP_STATE_SHUTDOWN_PENDING`, the socket is not gone |
| `my_vtag`, `peer_vtag`, `nonce` | verification tags; `my_vtag_nonce` and `peer_vtag_nonce` (tie tags), one number since they are drawn together |
| `init_seq`, `out`, `acked` | `init_seq_number`; chunks queued so far; `last_acked_seq`, relative to it |
| `peer_seq`, `map`, `rcum` | the peer's initial TSN, mapping arrays, `cumulative_tsn` |
| `cookie` | the COOKIE-ECHO on `control_send_queue` |
| `rxt`, `guard`, `err`, `stale` | type in `net->rxt_timer` while it is armed, `shut_guard_timer`, `overall_error_count`, `stale_cookie_count` |
| `sending`, `late` | a send is in its unlocked copy; it queued data after a shutdown began |
| `waiting` | the COOKIE-ECHO whose restart gave the TCB lock up and waits to have it back |
| `net` | every packet sent. A packet stays in the set, so it may arrive late, twice or never |
| `tags`, `tcbs`, `key` | random numbers drawn for tags and nonces (fresh numbers), the cookie secret (a reboot draws a new one) |
| `dlv`, `ended` | history: chunks handed to the application, associations ended by the handshake |

A TSN is a pair of an initial TSN and an offset: two spaces never overlap, so
serial wrap and a collision of random numbers are outside the model. A cookie
is a record with the fields of `struct sctp_state_cookie` that later code reads,
signed with the maker's secret. Each handler of `sctp_process_control`, each
expiry and each system call is one action and contains everything the code does
under the TCB lock, the trailing `sctp_chunk_output` included (`Output`; `Put`
where the code returns without it). `sctp_process_cookie_existing` is split into
the cases of the code: D (same tags), B (only ours), A (restart, by tie tags),
and the rest, which the code ignores. A send is two actions, `SendStart` (the
state check) and `SendFinish` (queue and output).

A restart is one action (`CookieA`, which is `RestartEnd` after `RestartBegin`),
or two if `SlowRestart`: `RestartUnlocks` sets the state, clears the mapping
arrays and gives the lock up; `RestartRelocks` takes over tags and TSNs and looks
at nothing again. In between `HandleData` may run, on a socket that is open and if
`GapData`: the
arrays are clear, but tags and cumulative TSN are still the old ones. Nothing
else is let in there (no SACK, call, timer or free; `Unlocked` in every other
action). The code resets `init_seq_number`, `sending_seq` and `last_acked_seq`
before the unlock (`sctp_input.c:1950-1959`), the model with the queues after it,
because the chunks still queued keep their old numbers. For a one-to-one socket
`sctp_handle_cookie_echo` unlocks the TCB around `sonewconn`
(`sctp_input.c:2841-2867`, `2961-2962`); `HandleCookieEcho` is atomic. `UserClose`
either shuts down or aborts: unread data (`sctp_pcb.c:3986-4005`) and messages
sent in part (`4009-4010`, `4046-4076`) are not in the state, so both are possible.

Left out: multi-homing, NAT variants, HEARTBEAT, ASCONF, AUTH, stream reset,
ECN, PR-SCTP, streams and ordering within a stream, fragmentation, the receive
window, autoclose, memory exhaustion. Gap acks and the delayed-SACK timer are
left to the two modules that follow (here a SACK is sent at once).

### TimerService, SctpCallout

`TimerService` says what the protocol takes for granted of a timer: it expires
once per start, unless stopped or started again. `SctpCallout` is
`sctp_callout.c` with the checks at the head of `sctp_timeout_handler`:

| Variable | Code |
|---|---|
| `callqueue`, `next` | `SCTP_BASE_INFO(callqueue)`, `sctp_os_timer_next` |
| `active`, `pending`, `c_time` | the flags and the time of a callout |
| `ticks` | the clock, a signed integer of `TickBits` bits |
| `run`, `phase` | the handler the tick thread is in: called, waiting for the TCB lock, done |
| `gen`, `rungen`, `left`, `expired` | history: starts, the start that expired, ticks still to wait, expiries served |

What holds `SCTP_TIMERQ_LOCK` is one step; start and stop of other threads fall
between the steps of the handler. `SctpCallout` implements `TimerService` with
`armed <- active`, and `TimerService` is what the timer slots of `SctpAssoc`
rest on: an armed timer that nobody stops fires (the weak fairness of
`SctpAssoc`), and an expiry that lost a race with a stop does nothing (an
expiry of `SctpAssoc` finds its timer armed).

### ReceivedSet, SctpTsnMap

`ReceivedSet` says what the rest of the stack, and the sender at the other end,
take for granted of a receiver: TSNs are a set that accepts each one once, a
SACK reports the end of the unbroken run, the run never shrinks, and only TSNs
beyond a hole that are not kept may be given up. `SctpTsnMap` implements it on
the mapping arrays of `sctp_indata.c`:

| Variable | Code |
|---|---|
| `m.base`, `cum`, `hi`, `nhi` | `mapping_array_base_tsn`, `cumulative_tsn`, `highest_tsn_inside_map`, `highest_tsn_inside_nr_map`, numbers modulo 2^w |
| `m.r`, `m.nr`, `m.size` | the bits set in `mapping_array` and `nr_mapping_array`, their size in bytes |
| `do_drain`, `delayed_ack` | sysctl `sctp_do_drain`; `asoc.delayed_ack` is not 0 (a socket option can set it, nothing clears it) |
| `pkt` | the packet under way: had DATA, had FORWARD-TSN, `was_a_gap` |
| `started`, `send_sack`, `dack` | `last_data_chunk_from` is set; `send_sack` (or duplicates to report); `dack_timer` |
| `acked` | history: the cumulative TSN of the last SACK, counted from the first TSN |

One action per outcome of `sctp_process_a_data_chunk` (duplicate, dropped,
delivered at once, queued), the end of a packet (`sctp_sack_check`),
FORWARD-TSN, the delayed-ack timer, the SACK bundled by `sctp_chunk_output`
(`PiggyBack`), the window update of a reader, the option that delays SACKs, and
`sctp_drain_mbufs`. A SACK has room for some number of gap blocks, 1 to
`MaxBlocks`: the scan stops as soon as the last one is written, which then ends
with its byte (`Fit`), and the non-renegable blocks of an NR-SACK get the room
the others leave. Duplicates stay recorded when gap blocks took their room. A
SACK for which there is no memory starts the timer where SACKs are delayed, and
is noted as due (`send_sack`) where they are not; the two callers that stop the
timer after `sctp_send_sack` have their own operator, `SendSackNoTimer`. CMT is
off, so the delayed acks of its DAC variant (`sctp_indata.c:2201-2221`) are not
modelled. Streams, reassembly and the window are open: any chunks that
wait may become deliverable when one arrives, and any chunk may find no memory.

### SctpSender: the sent queue

| Variable | Code |
|---|---|
| `a.sent`, `whoTo`, `queued` | `chk->sent`, `chk->whoTo`; chunks handed to the stack |
| `a.flight`, `total`, `retran` | `net->flight_size`, `total_flight`, `sent_queue_retran_cnt`, in chunks |
| `a.timer`, `timers_up`, `young` | T3 runs for a destination, `num_send_timers_up`, chunks sent after their timer started |
| `a.revoked`, `probe`, `window_probe` | `chunk_was_revoked`, `chk->window_probe`, `net->window_probe` |
| `a.last`, `saw_frags`, `saw_nr_frags` | `last_acked_seq`, `saw_sack_with_frags`, `saw_sack_with_nr_frags` |
| `at`, `ctx` | the thread that holds the TCB lock: looking after timers, in `sctp_chunk_output`, returning; its local variables |
| `wire`, `sacks`, `shuts` | chunks, SACKs and SHUTDOWNs under way |
| `got`, `kept`, `due` | a peer that behaves as `ReceivedSet` |
| `closing` | a SHUTDOWN was received: new data is refused |

A handler of a SACK is a step for each part that the code finishes before the
next begins: the acknowledgement, then each destination of the timer loop
(`Service`), the recount when no destination had anything ("huh, this should not
happen"), then each packet of `sctp_chunk_output`, each of which may fail.
Every chunk is a message of its own with the same book size; CMT, PR-SCTP and
ECN are off. If `PeerShuts`, the peer sends SHUTDOWNs at any time (one that reneged
only if `FickleShuts`). Their
cumulative TSN enters `sctp_express_handle_sack` through `sctp_update_acked`
(`sctp_indata.c:4927-4937`), without the look at `saw_sack_with_frags` that guards
the way of a SACK there (`Shutdown`). The SHUTDOWN-ACK that follows once the
queues are empty is the matter of `SctpAssoc`. Windows, numbers of strikes and ages are open: any prefix may fit
the window, any strikable chunk may have had enough strikes, and a timeout marks
all chunks older than its timer and any others.

### SctpFree: the end of associations and endpoints

| Variable | Code |
|---|---|
| `tcb[t].alloc`, `dead`, `about`, `accept` | not yet back in its zone; `asoc.state == 0`; ABOUT_TO_BE_FREED; IN_ACCEPT_QUEUE |
| `tcb[t].ref`, `rxt` | `asoc.refcnt`; any other timer of the protocol |
| `tcb[t].kill`, `as` | the callout of `asoc.strreset_timer`, which ASOCKILL and STRRESET share; the type it was last started with |
| `inp` | the endpoint: SOCKET_ALLGONE, SOCKET_GONE, CLOSE_IP, `refcount`, the INPKILL timer |
| `owner` | the holders of the INP-INFO, INP and TCB locks |
| `th` | every thread's place, the locks it is about to take, its local variables |

`sctp_free_assoc` is five steps around its exchange of locks and the callback
into `sctp_inpcb_free`; that function's loops take one association at a time.
They compete with packets (look-up, then the TCB lock), sends and user aborts
(a reference during the unlocked copy), stream reset calls, accept, close, and
the timer thread, whose expiry passes the phases of `SctpCallout` before it holds
the TCB lock. A start of the shared callout is refused while it is queued, a stop
of the wrong type does nothing, and an expiry reads the type each time it looks.
The locks are those of the userland build: the CONTENDED macros are `(0)` and
`SCTP_OS_TIMER_STOP_DRAIN` is a plain stop. Simplified: `InpFree` leaves out the
ITERATOR and ASOC_CREATE locks (`sctp_pcb.c:3907`, `3920`), which no other modelled
path takes; `TickRefer` counts the reference in the step that checks the state
and has the return for a missing socket only once the endpoint's socket is gone
(`sctputil.c:1590-1621`); the endpoint's kill timer shares its callout with the
NEWCOOKIE timer, which is left out since every path stops it first
(`sctp_pcb.c:3933`, `4150`, `4169`).

### SctpStrReset: stream reset and addition between two endpoints

| Variable | Code |
|---|---|
| `as[e].seqOut`, `seqIn`, `actions` | `str_reset_seq_out`, `str_reset_seq_in`, `last_reset_action` |
| `outstanding`, `outIs`, `strReset`, `timer` | `stream_reset_outstanding`, `stream_reset_out_is_outstanding`, the parameters of `str_reset`, `strreset_timer` |
| `outcnt`, `incnt`, `adding` | `streamoutcnt`, `streamincnt`, `strm_pending_add_size` |
| `tsn`, `next` | `sending_seq`, `next_sequence_send` of each stream |
| `cum`, `got`, `last`, `inqueue` | `cumulative_tsn`, the mapping arrays, `last_sequence_delivered` and `inqueue` of each stream |
| `resetHead`, `pending` | resets that wait for a TSN, `pending_reply_queue` |
| `read`, `did`, `took` | history: chunks handed to the reader, the resets done for an answer, and those accepted |
| `reply`, `more`, `bad` | local to a handler: the answer, a request of its own, the association has to be aborted |
| `use`, `wire`, `faults`, `over` | what the users do, chunks under way, RE-CONFIG chunks lost or repeated, how it ended |

`HandleParams` is `sctp_handle_stream_reset` with one operator per parameter
type; `ProcessData` is the path of an ordered, unfragmented message through
`sctp_process_a_data_chunk`, in its order: checks, placement, cumulative TSN,
the waiting reset, slide. A user may change `local_strreset_support` at any
time, so an endpoint in `deny` may allow or deny each request. DATA is neither
lost nor repeated here, only reordered: what the mapping arrays and
retransmission make of loss is the matter of `SctpTsnMap` and `SctpSender`.

## 3. Runs

| Run | Question |
|---|---|
| `assoc_shutdown` | Data from both sides, shutdown() at both and close() at one. `GracefulMeansDelivered`: an association that ends by the handshake had all its data delivered. `QueuesEmptyAtShutdown`, `TimersCover`: no state waits without its timer. `SetupEnds`, `TeardownEnds`, `DataResolved`: even if every packet is lost |
| `assoc_collision` | Both sides connect and listen, so that their set-ups cross, with DATA bundled with COOKIE-ECHO; close and abort meanwhile. `TsnAgreement`, `InitTimerRuns`, `AckedIsDelivered`, `NoRedelivery` |
| `assoc_restart` | One side reboots with data under way, cookies go stale, and a restart gives its lock up half way (`SlowRestart`). `RestartIsGenuine`: the identity changes only for a peer that lost its state; `CookieTimerHasCookie`; `MapIsDelivered`, where no DATA is taken in the gap (`GapData = FALSE`) |
| `callout` | Three timers, two starts each, stopped and started while the tick thread is inside a handler. `QueueMatchesFlags`, `NextIsQueued`, `OnTime`, `ImplementsTimers` (with its liveness) |
| `tsn_map` | Five TSNs across the wrap of the TSN space, in any order, with duplicates, FORWARD-TSN, failing allocations and reneging; SACKs with room for one or two gap blocks, delayed or not. `ImplementsReceivedSet`, `SlideAssertions` (the panics of the slide are unreachable), `SackComplete` (what is reported is exactly what arrived, or the lowest part of it that the blocks hold; but for the two cases of wrapping TSNs below), `AckPending` (what is not acknowledged has the timer, or goes with the next packet; but for the timer stopped after lack of memory, below) |
| `sender_paths` | Two destinations, two SACKs under way in any order, a peer that reneges, strikes and timeouts that move chunks. `FlightExact`, `RetranExact`, `HeadOutstanding` |
| `sender_live` | One destination; a chunk, a SACK or a send fails, and the peer reneges or shuts down, not both (`FickleShuts = FALSE`); SHUTDOWNs come early, late or never. `SomeTimer`, `Resolved` |
| `free` | Packets, sends, stream reset calls, user aborts, accept, close, protocol and kill timers compete. `FreedOnce`, `Protected`, `RefExact`, `KillTimerRuns`; `Freed`, `EndpointFreed`, `CallsReturn` |
| `strreset` | Five pairs of users: resets of all three kinds and additions that the peer may deny, twice in a row; requests that cross; a reset at the peer's wish between messages; two resets between four messages that arrive in any order. One RE-CONFIG chunk is lost or repeated, and the timer repeats at will. `InOrder`, `PerformedAtPeer`, `ResetEnds` |

Bounds. `SctpAssoc`: one TCB allocation and one or two tags per side are a
complete set-up with one retry; two TCBs and three tags a reboot with a second
set-up while packets of the first are still in the network; `assoc_restart` has
two tags, and holds with three in 983,781 states if its restarts are in one step
and, `MapIsDelivered` apart, in 369,159 if nothing goes stale and DATA is taken in
the gap. One message shows a
send at every point of the shutdown. A threshold of one gives every timer a
retransmission and then the abort; 0 where retransmissions add no new packet
(the network keeps every packet anyway). `SctpCallout`: two ticks of delay and
three timers let the walk meet a due timer, one that is not, and the one it
saved as next; a timer may be stopped and started again in each phase. The clock
stops before it wraps. `SctpTsnMap`: a TSN space of 32, bytes of two bits and
arrays of one to two bytes, which five TSNs from 30 on fill, overflow, slide
through and grow; the TSN space is more than twice what is in use, as 2^32 is
for arrays of at most 512 bytes. `SctpSender`: two chunks are a hole and a chunk
beyond it, two SACKs a reordering, one renege a revocation, one fault a loss or a
failed send; where two destinations are there, no fault is (a timeout may come
at any time anyway). `SctpFree`: one association, two workers with one call
each, the closing thread and the timer thread; the code compares no two
associations except in the loop of `sctp_inpcb_free`. With two calls each the
invariants hold in 249,656 states, with two associations besides in 4,891,901; the
liveness properties, with two associations and one worker that makes two calls, in
125,066. `HeadOutstanding` and `SomeTimer` hold in 1,293,121 states of three chunks
to a peer that shuts down and does not renege: a SHUTDOWN then acknowledges the
first while the third is gap-acked and the second missing.

`SctpStrReset`: two requests in a row are what the two remembered results are
for, four messages put one before, between and after two resets and one more
that overtakes them; two of up to three streams, so that a reset may be of
another stream than the data and one addition fits, a second not.

`CHECK_DEADLOCK FALSE`: two closed endpoints whose applications have made their
calls, a peer that acknowledged everything, users that made their requests and an endpoint that
is freed have nothing left to do, and the clock of `callout` is bounded.

Fairness.

* `SctpAssoc`: weak fairness of each timer expiry (a callout that is armed
  fires: `callout`), of the end of a send's copy and of a restart that waits for
  its lock; none for the network, which
  may lose everything, and none for user calls. `FiniteCookieAcks` says that the
  network does not deliver COOKIE-ACKs for ever: a COOKIE-ACK clears the error
  count in any state (`sctp_input.c:5400`), so a network that repeated one
  endlessly could keep an unanswered shutdown going; only finitely many are ever
  sent.
* `SctpCallout`: weak fairness of the tick thread, which loops for ever
  (`user_sctp_timer_iterate`) and waits only for locks that are released.
* `SctpSender`: a handler runs to its end. Expiries, arrivals and the peer's
  SACKs are strongly fair, because each handler that takes the lock disables
  them for a while. Losses, failed sends and reneges are bounded, so `Resolved`
  says: once they cease, everything is acknowledged. SHUTDOWNs need not arrive.
* `SctpStrReset`: the timer thread serves the STRRESET timer (`callout`), and a
  request or an answer that stays on the wire arrives; losses are bounded. Users
  need not ask and DATA need not arrive.
* `SctpFree`: threads go on, and a thread that waits for a mutex that is free
  again and again gets it; a queued kill timer comes up again and again between
  other callouts (`callout`). Packets, calls and the close need not come.

`RestartIsGenuine` is checked for one reboot. The nonces compared by case A are
drawn with the TCB and not again by the restart itself, so after a second
restart within the lifetime of a cookie the check cannot tell the two apart,
and a delayed COOKIE-ECHO of the first restart brings its tags back. The TSN
space comes back with them, so that what was delivered from it would be
delivered again: `NoRedelivery` holds as long as that does not happen
(`FreshSpaces` in section 4).

### Violations: where the code and its comments or assertions differ

| Run | What happens |
|---|---|
| `assoc_send_race` | A send passes its state check, unlocks, and queues data after SHUTDOWN went out; `sctp_handle_shutdown_ack` asserts empty queues |
| `assoc_reaccept` | A case B cookie moves the TCB to another TSN space without clearing the mapping arrays, so chunks never received count as received |
| `free_accept` | An association is aborted in the accept queue and then accepted: no kill timer, and nobody to start one |

The passing runs exclude these triggers by a constant or by the calls their
applications make, not by changing an action: `TimersCover` runs without a
reboot, `MapIsDelivered` without a peer that aborts and connects again,
`InitTimerRuns` without stale cookies, `FlightExact` with `ProbeFails = FALSE`,
`KillTimerRuns` with `AcceptAborted = FALSE` and `LateResets = FALSE`, `Protected`
with `SlowClose = FALSE`; `MapIsDelivered` with `GapData = FALSE`; `SomeTimer` and
`Resolved` with `FickleShuts = FALSE` (`HeadOutstanding` with a peer that reneges and
does not shut down). `AckPending` excepts a timer stopped after lack of memory; `QueuesEmptyAtShutdown` excepts data marked `late`;
`InOrder` runs with one data stream and `PerformedAtPeer` with users that do not
ask for an incoming reset and incoming streams in a row, and where an endpoint
that may deny requests makes none.

Other differences met while modelling, which the modules contain and no run
shows. Where constants are named, a run with them gives the trace.

* A restart clears the mapping arrays and unlocks (`sctp_input.c:1968`). DATA of
  the old space, under the old tag, that another thread takes before the restart
  has its lock back leaves a bit that stands for a chunk of the new space that
  never came; the cumulative TSN moves over it ("things up to the cum-ack are
  always deliverable", `sctp_indata.c:1990`). `AssocRestart.cfg` with
  `GapData = TRUE`: `MapIsDelivered` fails in 15 steps.
* The cumulative TSN of a SHUTDOWN is handled by `sctp_express_handle_sack`
  although gaps were reported (`sctp_indata.c:4937`). If the peer gap-acked a chunk,
  dropped it and then shuts down, the SHUTDOWN frees what lies before it and revokes
  nothing: an acked chunk is at the head of the sent queue and nothing is in
  flight, which is the branch "huh, this should not happen unless all packets are
  PR-SCTP and marked to skip" (`sctp_indata.c:3896`); T3 is stopped (`3882`), and
  the chunk is sent again only if a later SACK takes it back. `SenderLive.cfg` with
  `SPECIFICATION Spec`, `FickleShuts = TRUE` and `MaxFaults = 0`: `LoopFindsData` fails in 20 steps,
  `HeadOutstanding` in 23, `SomeTimer` in 25.
* ASOCKILL and STRRESET are one callout (`sctputil.c:2148`, `2210`), and
  SCTP_RESET_STREAMS does not look at the state of the association it finds
  (`sctp_usrreq.c:5432`). If it reaches one that is about to be freed, in the lock
  exchange of `sctp_free_assoc` or while the kill timer is being served, the kill
  timer is refused (`sctputil.c:2259`) or overwritten; the STRRESET expiry is dropped
  (`1641`) and nobody frees the association ("it might be the free-asoc timer
  which we DON'T want to disturb", `sctp_pcb.c:5528`). `Free.cfg` with
  `LateResets = TRUE`: `KillTimerRuns` fails in 20 steps.
* A SACK for which there is no memory sets the delayed-ack timer ("No memory so we
  drop the idea, and set a timer", `sctp_output.c:10911`), but `sctp_chunk_output`
  (`10409`) and `sctp_user_rcvd` (`sctputil.c:5677`) stop it. `AckPending` without
  the case "stopped" fails in 6 steps.

* A repeated COOKIE-ACK stops the INIT timer in COOKIE_WAIT
  (`sctp_input.c:3035`); shutdown() in SHUTDOWN_ACK_SENT falls back to
  SHUTDOWN_SENT (`sctp_usrreq.c:1440`); T3 survives a restart and keeps the
  SHUTDOWN-ACK timer out of its slot (`sctputil.c:2259`).
* With `ProbeFails = TRUE`, `FlightExact` fails: `sctp_chunk_retransmission` marks
  a chunk as a window probe before it is sent and leaves the mark when the send
  fails (`sctp_output.c:10019`); probe recovery then takes a chunk out of the
  flight size that is not in it (`sctp_indata.c:3484`).
* Stream reset, each with the shortest trace TLC gives:
  - Chunks that wait for a reset go to the stream of the chunk that closed the
    gap, `strm`, not to their own (`sctp_indata.c:1907`, "3: distribute any chunks
    in pending_reply_queue"). With `DataStreams = {0, 1}` `InOrder` fails after 8
    steps.
  - Waiting chunks that the cumulative TSN has passed meanwhile are taken for a
    protocol violation and the association is aborted (`sctp_indata.c:556`); the
    run reaches `over = "protocol"` although both ends keep to the protocol.
  - `sctp_handle_str_reset_request_in` checks only for an outstanding outgoing
    reset. While an addition is outstanding, it reuses the number of that one and
    overwrites `str_reset` (`sctp_input.c:3888`; `sctp_output.c:12465`: "Already
    one pending, must get ACK back to clear the flag."). A user that asks for
    incoming streams and then for an incoming reset breaks `PerformedAtPeer` in 7
    steps.
  - The outgoing reset sent at the peer's wish travels in the answer, whose
    destination is not set yet, so `sctp_timer_start` returns (`sctputil.c:2202`)
    and a lost one is never repeated: its sender sends no data any more.
    `ResetEnds` excepts it.
  - The response number in an outgoing reset counts as success for the
    request it names (`sctp_input.c:4299`), whatever the answer was. An endpoint
    that denies a reset and then asks for one of its own breaks
    `PerformedAtPeer` in 4 steps, if its request overtakes the denial.
  - A stream addition walks the queued messages of a stream through `next`
    instead of `next_instrm` (`sctp_input.c:4097`), a null link: with a message
    queued, `over = "crash"` is reached.
  - A denied or failed TSN reset does not decrement `stream_reset_outstanding`
    (`sctp_input.c:3835`); that request is not modelled.
* A callout that spans the wrap of the signed clock is not served in time
  (`sctp_callout.c:148`).
* A FORWARD-TSN that comes before the first DATA is answered by no SACK, since
  `sctp_send_sack` returns when `last_data_chunk_from` is not set
  (`sctp_output.c:10885`; `sctp_indata.c:5097`: "5) Send a sack to report where
  we are.").
* A plain SACK reports no complete gap blocks while the highest TSN is
  numerically below the base (`sctp_output.c:11030`): the number of bytes to
  scan is computed from the highest TSN instead of the base. An NR-SACK misses
  the highest TSN when TSNs wrap below it and it begins a byte, since the
  wrapped branches (`:11039`, `:11120`) lack the `+ 1` of the others (`:11037`,
  `:11118`). `SackComplete` excepts both.
* With `SlowClose = TRUE`, `Protected` fails after 33 steps: an association freed
  by another thread between close's SOCKET_GONE flag and its `sctp_inpcb_free`
  queues the INPKILL timer; the timer comes up, drops its reference and waits in
  `sctp_inpcb_free` for the locks while close destroys the endpoint. ALLGONE is
  checked before the locks are taken and not after, and the drain that the
  comment at `sctp_pcb.c:4188` relies on does not wait in userland
  (`sctp_callout.h:91`). It needs a close that takes longer than
  SCTP_INP_KILL_TIMEOUT, 20 ms (`sctp_constants.h:646`).
* Between the dequeue of a callout and the increment of `refcnt` in
  `sctp_timeout_handler` nothing keeps the TCB. `Protected` leaves the timer
  thread out until it holds the TCB lock; the model goes on with memory as it
  was left.
* Nothing in the stack calls `soisdisconnected` on a socket in the accept queue,
  so the test for SS_ISDISCONNECTED in `sctp_accept` does not find such a socket.

## 4. Proofs

`SctpAssocProofs` (any bounds, any listeners, any calls of the applications):

* `TypeCorrect`: `Spec => []TypeOK`. One lemma per helper on the TCB record
  (timers, shutdown transitions, SACK, DATA, cookie cases), one per action.
* `ShutdownAfterDrain`: `Spec => []QueuesEmptyAtShutdown`, and
  `CookieTimerServed`: `Spec => []CookieTimerHasCookie`. Neither is inductive.
  The first needs that a set-up state holds a tag of its own (a cookie with tag
  0 would pass for case B), the second that every INIT-ACK in the network
  carries a cookie, because `HandleInitAck` starts the COOKIE timer with
  whatever it got. `WindowInv` says what a restart that waits for its lock can rely on: its state
  and the tags that made it case A are as it left them. `SoundInv` is the conjunction, a predicate `Sound` on a TCB
  and `HasCookie` on the network, so a helper's lemma reads
  `Sound(t) => Sound(helper(t))`.

`SctpCalloutProofs` (any number of timers and starts, any clock):

* `FlagsDescribeQueue`, `WalkIsSafe`: the lemmas on queues say what
  TAILQ_REMOVE, TAILQ_NEXT and Append do to a sequence without repetition; the
  invariant `QueueInv` follows action by action.
* `ServesLatestStart`: `Spec => TS!Safety`, the refinement. It needs
  `HandlerInv`: a handler between call and checks whose timer is active and not
  queued was not restarted since it expired, since every start queues the timer.
* `ServedOnTime`: `Spec => []OnTime` for a clock that does not wrap (it does not
  hold across the wrap). `TimeInv` relates the time each callout has left to the
  clock, and says of the callouts the walk has passed that none was due.

`SctpSenderProofs` (any destinations, chunks, SACKs and faults; `ProbeFails` is
FALSE, since TLC refutes the theorems without it):

* `SendSideTyped`: `Spec => []TypeOK`, `FlightSizeExact`: `Spec => []FlightExact`
  and `RetranCountExact`: `Spec => []RetranExact`, all from `SenderInv`. The sizes
  are not inductive: a window probe that were not in flight would be taken out of
  the flight size by its recovery, so `Booked` adds that probes are in flight; a
  chunk on the sent queue has a destination, or the safeguard of
  `sctp_timeout_handler` would start a timer for none. In the middle of a handler
  the books and the chunks differ, so the lemmas on operators say what they do to
  the books `Booked(x, F, R)` for arbitrary sets F in flight and R to be sent
  again, and the lemmas on the parts of a handler put both together again.

`SctpSenderQueueProofs` (the same instances):

* `HeadCanBeResent`: `Spec => []HeadOutstanding`, for a peer that reneges or
  shuts down, not both (`~FickleShuts`; it fails otherwise, section 3). `QueueInv` adds the peer and
  the network to the queue: every SACK under way is one the peer could have
  sent, what the peer promised to keep it keeps, and a chunk acknowledged as
  non-renegable is never the next one missing. Without `saw_sack_with_frags` in
  the invariant a revocation could be overlooked.
* `TimerAlwaysRuns`: `Spec => []SomeTimer`, and `LoopAlwaysFindsData`:
  `Spec => []LoopFindsData`, if moreover no send of a window probe fails.
  Inside a handler no timer need run, so `TimerInv` says at each place of the
  handler what will start one; it uses that the books are exact
  (`FlightSizeExact`), because the timer loop goes by `flight_size`.

`SctpTsnMapProofs` (any width of the TSN space, byte width, array size and first
TSN, with fewer TSNs in use than half of the space):

* `MapTypes`, `SlidesInside` (the panics of `sctp_slide_mapping_arrays` are
  unreachable), `SacksAreComplete`, `AcksAreNotForgotten`, and
  `MapImplementsSet`: `Spec => ImplementsReceivedSet`, the refinement. `Nth`
  unwraps TSNs into numbers, and the macros on TSNs are shown to do on the
  numbers what they say. `MapInv` is then a statement on numbers (`Good`): the
  cumulative TSN ends an unbroken run from the base, the highest TSNs bound the
  bits and lie in the arrays. The lemmas on the receive path say what TSNs an
  operation adds, keeps or drops; a slide neither adds nor drops any.
  `SacksAreComplete` holds for every number of gap blocks that fit: the lemmas on
  `Fit` say that what is left out lies above what is reported, and that nothing
  is left out while there is room. `AcksAreNotForgotten` is proved for delayed and
  undelayed SACKs alike.

`SctpFreeProofs` (any number of associations, workers and calls):

* `FreeTypes`, `FreesOnce`, `RefsExact`; `UseProtected` for `~SlowClose` and
  `KillTimersRun` for `~AcceptAborted` and `~LateResets`, since TLC refutes them
  otherwise (section 3). All follow from `FreeInv`, the last with `SlotInv`: the
  shared callout of an association about to be freed runs as its kill timer.
  `FreeInv`'s parts say of each label of a
  thread which locks it holds or waits for (`Shape`, `LocksHeld`), how many
  references the threads at it account for (`TcbRefs`, `InpRefs`), what state it
  leaves an association and the endpoint in (`TcbStates`, `InpStates`,
  `AllPlaced`), and that only one thread is on the way to free an association
  (`Alone`) and the endpoint (`OneDestroyer`).

`SctpAssocNetProofs` (any bounds, listeners and calls; everything that relates
the endpoints through the network). `StepOf(n)` says once what a step of endpoint
`n` may do to its TCB and which packets it may send; a lemma per action shows
that the action is such a step, and most invariants are proved from `StepOf`.

* `TagsNameTsnSpaces`: `Spec => []TsnAgreement`, without a hypothesis. `AgreeInv`
  pairs tag and TSN in every TCB, cookie, INIT and INIT-ACK.
* `BitsAreChunks` (`MapIsDelivered`), `AcksAreTrue` (`AckedIsDelivered`),
  `GracefulLosesNothing` (`GracefulMeansDelivered`). `DeliveryInv` adds that the
  cumulative TSN covers delivered chunks only (`TrueCum`, which does not mention
  the arrays, since a restart clears them before it moves the cumulative TSN),
  that every SACK and SHUTDOWN ever sent tells the truth, and that a set-up starts
  with empty arrays. They hold under `ReacceptsClean`, the peer's tag changes under
  a kept own tag only while no bit is set, and `RestartsClean`, a restart that
  waited for its lock finds the arrays as empty as it left them.
  `assoc_reaccept` and section 3 show what happens otherwise.
  `RestartsClean` holds by itself where `SlowRestart` or `GapData` is FALSE; crossing set-ups,
  restarts, reboots and stale cookies are all allowed.
* `DeliversOnce` (`NoRedelivery`) for `~SlowRestart` and under `FreshSpaces`: a TCB is not taken back to
  a TSN space it received from before (a second restart can do that, section 3).
  `OnceInv` needs that the nonces of TCBs are never drawn twice.
* `WaitsUnderItsTimer` (`InitTimerRuns`) where no cookie is found stale: after a
  stale cookie the old tag is in use again, and a late COOKIE-ACK stops the INIT
  timer (section 3). `TagInv` says which endpoint drew a tag that a packet
  carries, `WaitInv` that no packet answers a tag still waiting for its INIT-ACK.
* `NothingWaitsUntimed` (`TimersCover`) for `~SlowRestart` and under `IdleRestarts`: no association
  restarts while T3 runs without the guard (section 3). `Cover` says for each
  state which timers may be in the shared slot and when the guard must run,
  `Armed` that T3 is there for unacknowledged data. `Cover` alone survives each
  operator of a handler; `Armed` is restored by `sctp_chunk_output` at its end.

`SctpStrResetProofs` (any users, numbers, streams, messages and losses):

* `LinkHolds`: `Spec /\ []Alone /\ [][NamesNoDenied]_vars => []LinkInv`, and from it
  `PerformedSafe` (`PerformedAtPeer`). `PerformedAtPeer` is not inductive: an old
  answer must not be taken for a newer one. `Dir` therefore relates, for each
  direction, what the requester waits for, the two results the responder
  remembers, and every request and answer still under way: requests that are not
  old are those in `str_reset`, answers that still count are what is remembered,
  and what is remembered as performed was done. A RE-CONFIG chunk may be handled
  any number of times, so the lemmas speak of the set of all parameters sent.
* `OrdHolds` and `InOrderSafe` (`InOrder`), under the same hypotheses and for data
  on one stream (`OneStream`). Between two resets the SSN of a chunk is its TSN
  less that of the first one, its base. `Sends` says that the sender numbers from
  its last reset and that its peer took no other one; `Keeps` says of the receiver
  that what was read are the first TSNs, that every chunk under way, queued or
  behind a reset carries the number its base gives it, that the waiting resets
  are in the order of their TSNs, and that the SSN expected next counts from the
  last base that is not waiting. That last part fails once the cumulative TSN has
  passed a waiting reset (`Doomed`): then the next chunks that are released end
  the association (section 3), and only the order (`Ord`) has to be kept.
* `PlainHolds`: users that ask for outgoing resets and outgoing streams only,
  where nothing is denied or only one of the two asks (`PlainUsers`), never leave
  `Alone` and `NamesNoDenied`. For them `OutgoingPerformed`: `Spec =>
  []PerformedAtPeer` and `OutgoingInOrder`: `Spec => []InOrder` need no hypothesis
  on the behaviour. `PlainInv` says that no answer carries a request, that nothing
  is denied or that one endpoint has nothing outstanding.

`Alone` says that an answer with an outgoing reset (`sctp_input.c:3888`) is the
only thing its sender waits for and uses no number twice; `NamesNoDenied` that an
outgoing reset does not name a denied request its peer still waits for
(`sctp_input.c:4299`). Without them TLC refutes `PerformedAtPeer` (section 3), and
with two data streams `InOrder`, since what waits for a reset goes to the stream
of the chunk just processed (`sctp_indata.c:1907`). All users of the run
`strreset` keep to all three, so its states are among those of the theorems.

The hypotheses on behaviours (`ReacceptsClean`, `RestartsClean`, `FreshSpaces`,
`IdleRestarts`, `NamesNoDenied`) are action formulas: they exclude a step and assume nothing of
the states; `Alone` is a predicate on states that excludes the answers of one
handler. Each is there because the property fails after the step it excludes.

The assumptions are the named ASSUMEs of the modules: A and B differ, bounds are
natural numbers, NULL is no timer, there is a destination, there are finitely
many of them and of threads and associations, the names of locks and threads
differ, and fewer TSNs are in use than half of their space. TLC evaluates them
in the runs.

Only model-checked: all liveness (out of the prover's reach); `RestartIsGenuine`,
which is false after a second restart (section 3); the liveness part of the
refinement of `TimerService`. Every other invariant and action property of the
passing runs is stated by a theorem, on the conditions given.

## 5. Not modelled, and the plan

Not modelled for good: checksums, hashes and tables (pure data), the ports to
operating systems, older copies of the stack under `KERN`, applications, test
tools and `rserpool` (other programs), congestion windows and RTT estimates
(`SctpSender` allows whatever they may say).

Next:

1. `SctpAsconf`: serials with cached answers, against an abstract at-most-once
   specification that `SctpStrReset` can share; the TSN reset in `SctpStrReset`.
2. `SctpAuthKeys`, `SctpSched`: key reference counts; round robin as fairness.
3. PR-SCTP in `SctpSender` (abandoned chunks leave the retransmission count as it
   was, `sctp_output.c` and `sctputil.c`), with FORWARD-TSN to `SctpTsnMap`.

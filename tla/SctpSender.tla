----------------------------- MODULE SctpSender -----------------------------
(***************************************************************************)
(* The sent queue of an association and its accounting: what is in flight  *)
(* to each destination, what is marked for retransmission, which T3 timers *)
(* run, and which acknowledgements were revoked, as SACKs arrive late, out *)
(* of order or not at all, timers expire and sends fail.  Every chunk has  *)
(* the same book size and belongs to a reliable message sent to the        *)
(* address the association selects; CMT is off.  How far the windows of    *)
(* peer and destination reach, which chunks had enough strikes and which   *)
(* were out long enough is open.  The peer is ReceivedSet; it may shut     *)
(* down, and its SHUTDOWNs acknowledge chunks as well.                     *)
(***************************************************************************)
EXTENDS Integers, FiniteSets

CONSTANTS
    Nets,        \* destination addresses of the peer
    MaxTsn,      \* bound: chunks the user sends
    MaxSacks,    \* bound: SACKs under way
    MaxFaults,   \* bound: chunks and SACKs lost, sends that fail
    MaxReneges,  \* bound: times the peer drops chunks it has gap-acked
    PeerShuts,   \* whether the peer shuts down
    FickleShuts, \* whether a peer that takes gap acks back shuts down as well
    ProbeFails   \* whether the send of a window probe may fail as well

ASSUME SenderAssumption ==
    /\ Nets # {} /\ IsFiniteSet(Nets) /\ "none" \notin Nets
    /\ MaxTsn \in Nat /\ MaxSacks \in Nat /\ MaxFaults \in Nat /\ MaxReneges \in Nat
    /\ PeerShuts \in BOOLEAN /\ FickleShuts \in BOOLEAN /\ ProbeFails \in BOOLEAN

VARIABLES
    a,           \* the association's send side
    at,          \* where the thread that holds the TCB lock is, if one does
    ctx,         \* its local variables
    wire,        \* DATA under way
    got, kept,   \* the peer: received, and no longer revokable
    due,         \* the peer owes a SACK
    sacks,       \* SACKs under way
    shuts,       \* cumulative TSNs of the SHUTDOWNs under way
    closing,     \* a SHUTDOWN was received: new data is refused
    faults, reneges

vars == <<a, at, ctx, wire, got, kept, due, sacks, shuts, closing, faults, reneges>>

Tsns == 1..MaxTsn

-----------------------------------------------------------------------------
(* The sent queue. *)

Floor(n) == IF n < 0 THEN 0 ELSE n

InFlight(x) == {t \in Tsns : x.sent[t] = "sent"}
Resend(x) == {t \in Tsns : x.sent[t] = "resend"}
SentQueue(x) == {t \in Tsns : x.sent[t] \in {"sent", "resend", "acked", "marked", "nracked"}}
SendQueue(x) == {t \in 1..x.queued : x.sent[t] = "unsent"}
IsFirst(t, S) == t \in S /\ \A u \in S : t <= u

\* Chunks of S that count for destination n.
Of(x, S, n) == {t \in S : x.whoTo[t] = n}

\* sctp_flight_size_decrease and sctp_total_flight_decrease for each chunk of S
FlightDecrease(x, S) ==
    [x EXCEPT !.flight = [n \in Nets |-> Floor(@[n] - Cardinality(Of(x, S, n)))],
              !.total = Floor(@ - Cardinality(S)),
              !.probe = @ \ S]
FlightIncrease(x, S) ==
    [x EXCEPT !.flight = [n \in Nets |-> @[n] + Cardinality(Of(x, S, n))],
              !.total = @ + Cardinality(S)]

\* sctp_ucount_decr of sent_queue_retran_cnt, k times
RetranDecrease(x, k) == [x EXCEPT !.retran = Floor(@ - k)]
RetranIncrease(x, k) == [x EXCEPT !.retran = @ + k]

Mark(x, S, status) ==
    [x EXCEPT !.sent = [t \in Tsns |-> IF t \in S THEN status ELSE @[t]]]

\* sctp_free_a_chunk: nothing is left of a chunk.
Free(x, S) ==
    [Mark(x, S, "freed") EXCEPT
        !.whoTo = [t \in Tsns |-> IF t \in S THEN "none" ELSE @[t]],
        !.probe = @ \ S, !.young = @ \ S]

\* chunk_was_revoked, and with it the congestion window that it inflates
Deflate(x, S) == [x EXCEPT !.revoked = @ \ S]
Inflate(x, S) == [x EXCEPT !.revoked = @ \cup S]

NothingInFlight(x) == [x EXCEPT !.flight = [n \in Nets |-> 0], !.total = 0]

\* The audits that count everything again.
Recount(x) == FlightIncrease(NothingInFlight(x), InFlight(x))

-----------------------------------------------------------------------------
(* T3 timers.  A chunk is young while it went out after its timer started. *)

Aged(x, N) == [x EXCEPT !.young = {t \in @ : x.whoTo[t] \notin N}]

\* sctp_timer_start(SCTP_TIMER_TYPE_SEND)
TimerStart(x, n) ==
    IF n \in x.timer THEN x
    ELSE Aged([x EXCEPT !.timer = @ \cup {n}, !.timers_up = @ + 1], {n})

\* SCTP_OS_TIMER_START, which the express path calls itself: not counted
OsTimerStart(x, n) == Aged([x EXCEPT !.timer = @ \cup {n}], {n})

\* sctp_timer_stop, counted whether or not the timer runs
TimerStop(x, N) ==
    [x EXCEPT !.timer = @ \ N, !.timers_up = Floor(@ - Cardinality(N))]

\* sctp_timer_validation: n is the primary or alternate destination
TimerValidation(x, n) == IF x.timer = {} THEN TimerStart(x, n) ELSE x

-----------------------------------------------------------------------------
(* A SACK s: its cumulative TSN and the TSNs of its gap-ack blocks, and of *)
(* its non-renegable ones.                                                 *)

\* The SACKs that go to sctp_express_handle_sack: nothing but a cumulative TSN,
\* when no gap was reported before.  A SHUTDOWN goes there whatever was reported.
IsExpress(x, s) ==
    /\ s.seg = {} /\ s.nr = {}
    /\ s.cum >= x.last
    /\ ~x.saw_frags /\ ~x.saw_nr_frags
    /\ SentQueue(x) # {}

\* Mutant: the retransmission count is forgotten.
leave_without_ucount_decr(x, S) == Deflate(FlightDecrease(x, S \cap InFlight(x)), S)

\* Chunks that leave flight or the retransmission count because they are acked.
Leave(x, S) ==
    Deflate(RetranDecrease(FlightDecrease(x, S \cap InFlight(x)),
                           Cardinality(S \cap Resend(x))), S)

\* The cumulative TSN of a SACK or a SHUTDOWN frees its chunks; nothing is
\* revoked.
ExpressAck(x, cum) ==
    LET S == {t \in SentQueue(x) : t <= cum}
        y == [Free(Leave(x, S), S) EXCEPT !.last = cum]
    IN IF SentQueue(y) = {} THEN NothingInFlight(y) ELSE y

\* sctp_handle_sack up to the freeing of what the cumulative TSN covers
CumAck(x, s) ==
    LET S == {t \in SentQueue(x) : t <= s.cum}
    IN Mark(Leave(x, S), {t \in S : x.sent[t] # "nracked"}, "acked")

\* sctp_handle_segments
Segments(x, s) ==
    LET seg == s.seg \cap SentQueue(x)
        nr == s.nr \cap SentQueue(x)
    IN Mark(Mark(Leave(x, seg \cup nr),
                 {t \in seg : x.sent[t] # "nracked"}, "marked"), nr, "nracked")

FreeAcked(x, s) ==
    LET moved == \E t \in SentQueue(x) : t <= s.cum
        y == IF moved THEN TimerStop(x, Nets) ELSE x
        z == [Free(y, {t \in SentQueue(y) : t <= s.cum}) EXCEPT !.last = s.cum]
    IN IF SentQueue(z) = {} THEN [z EXCEPT !.total = 0] ELSE z

\* The largest TSN that s reports.
Reaches(s, t) == t <= s.cum \/ \E u \in s.seg \cup s.nr : t <= u

Revoke(x, S) == Inflate(FlightIncrease(Mark(x, S, "sent"), S), S)

\* Mutants: marked chunks are not turned into acked ones; nothing is done when
\* gap reports cease.
revoked_leaves_marked(x, s) ==
    LET gone == {t \in Tsns : x.sent[t] = "acked" /\ (s.seg = {} \/ Reaches(s, t))}
        y == IF s.seg # {} \/ x.saw_frags THEN Revoke(x, gone) ELSE x
        w == [y EXCEPT !.saw_frags = s.seg # {}, !.saw_nr_frags = s.nr # {}]
    IN IF SentQueue(w) = {} THEN NothingInFlight(TimerStop(w, Nets)) ELSE w

revoked_only_by_gaps(x, s) ==
    LET gone == {t \in Tsns : x.sent[t] = "acked" /\ Reaches(s, t)}
        y == IF s.seg # {} THEN Revoke(x, gone) ELSE x
        z == Mark(y, {t \in Tsns : y.sent[t] = "marked"}, "acked")
        w == [z EXCEPT !.saw_frags = s.seg # {}, !.saw_nr_frags = s.nr # {}]
    IN IF SentQueue(w) = {} THEN NothingInFlight(TimerStop(w, Nets)) ELSE w

\* sctp_check_for_revoked, and what is done when gap reports cease
CheckForRevoked(x, s) ==
    LET gone == {t \in Tsns : x.sent[t] = "acked" /\ (s.seg = {} \/ Reaches(s, t))}
        y == IF s.seg # {} \/ x.saw_frags THEN Revoke(x, gone) ELSE x
        z == Mark(y, {t \in Tsns : s.seg # {} /\ y.sent[t] = "marked"}, "acked")
        w == [z EXCEPT !.saw_frags = s.seg # {}, !.saw_nr_frags = s.nr # {}]
    IN IF SentQueue(w) = {} THEN NothingInFlight(TimerStop(w, Nets)) ELSE w

\* Chunks that sctp_strike_gap_ack_chunks may strike: one sent later to the same
\* destination is newly acknowledged.  x is the association before the SACK.
Strikable(x, y, s) ==
    LET newly == (s.seg \cup s.nr) \cap InFlight(x)
        peers(t) == {u \in newly : x.whoTo[u] = x.whoTo[t]}
    IN {t \in InFlight(y) : /\ \E u \in peers(t) : u > t
                            /\ \E u \in peers(t) : u \notin x.revoked}

\* Enough strikes: the chunk is marked for retransmission.
Strike(x, S) == RetranIncrease(FlightDecrease(Mark(x, S, "resend"), S), Cardinality(S))

\* sctp_handle_sack before its strikes
SlowAck(x, s) ==
    CheckForRevoked(FreeAcked(Segments(CumAck(x, s), s), s), s)

\* Nothing is queued at all: only timers and counters are cleared.
NothingQueued(x) ==
    [NothingInFlight(TimerStop(x, Nets)) EXCEPT !.retran = 0]

-----------------------------------------------------------------------------
NoCtx == [t3 |-> "none", todo |-> {}, express |-> FALSE,
          recovery |-> FALSE, recovered |-> FALSE, j |-> FALSE, done |-> FALSE]

\* A handler ends up in sctp_chunk_output; t3 is the destination whose timer
\* expired, if one did.
GoOutput(t3) == at' = "output" /\ ctx' = [NoCtx EXCEPT !.t3 = t3]

\* A SACK handler goes through the destinations first.
GoService(express, recovery) ==
    /\ at' = "service"
    /\ ctx' = [NoCtx EXCEPT !.todo = Nets, !.express = express, !.recovery = recovery]

Init ==
    /\ a = [sent |-> [t \in Tsns |-> "unsent"],
            whoTo |-> [t \in Tsns |-> "none"],
            queued |-> 0, last |-> 0,
            flight |-> [n \in Nets |-> 0], total |-> 0, retran |-> 0,
            timer |-> {}, timers_up |-> 0, young |-> {},
            revoked |-> {},
            probe |-> {}, window_probe |-> {},
            saw_frags |-> FALSE, saw_nr_frags |-> FALSE]
    /\ at = "idle" /\ ctx = NoCtx
    /\ wire = {} /\ got = {} /\ kept = {} /\ due = FALSE /\ sacks = {}
    /\ shuts = {} /\ closing = FALSE
    /\ faults = 0 /\ reneges = 0

\* What only the peer and its SHUTDOWNs change
peer == <<got, kept, due, reneges, shuts, closing>>

Fault == faults < MaxFaults /\ faults' = faults + 1

\* A SACK arrives.  grew says that it opens the peer's receive window.
Sack(s, grew) ==
    /\ at = "idle"
    /\ sacks' = sacks \ {s}
    /\ \/ /\ IsExpress(a, s)
          /\ IF s.cum > a.last
             THEN a' = ExpressAck(a, s.cum) /\ GoService(TRUE, grew)
             ELSE UNCHANGED a /\ IF grew THEN GoService(TRUE, FALSE) ELSE GoOutput("none")
       \/ /\ ~IsExpress(a, s)
          /\ s.cum < a.last
          /\ UNCHANGED a
          /\ GoOutput("none")
       \/ /\ ~IsExpress(a, s)
          /\ s.cum >= a.last
          /\ SentQueue(a) \cup SendQueue(a) = {}
          /\ a' = NothingQueued(a)
          /\ GoOutput("none")
       \/ /\ ~IsExpress(a, s)
          /\ s.cum >= a.last
          /\ SentQueue(a) \cup SendQueue(a) # {}
          /\ LET y == SlowAck(a, s) IN
             \E S \in SUBSET Strikable(a, y, s) : a' = Strike(y, S)
          /\ GoService(FALSE, grew)
    /\ UNCHANGED <<wire, faults>> /\ UNCHANGED peer

\* Mutant: the timers are stopped before the queue is empty.
shutdown_stops_timers(c, grew) ==
    /\ at = "idle"
    /\ shuts' = shuts \ {c}
    /\ closing' = TRUE
    /\ a' = TimerStop(IF c > a.last THEN ExpressAck(a, c) ELSE a, Nets)
    /\ GoOutput("none")
    /\ UNCHANGED <<wire, sacks, got, kept, due, faults, reneges>>

\* A SHUTDOWN arrives.  Its cumulative TSN is handled as an express SACK that
\* opens no window by itself, without asking what SACKs reported before; then
\* new data is refused and the rest of the queue is pushed out.
Shutdown(c, grew) ==
    /\ at = "idle"
    /\ shuts' = shuts \ {c}
    /\ closing' = TRUE
    /\ IF c > a.last
       THEN a' = ExpressAck(a, c) /\ GoService(TRUE, grew)
       ELSE UNCHANGED a /\ GoOutput("none")
    /\ UNCHANGED <<wire, sacks, got, kept, due, faults, reneges>>

\* sctp_window_probe_recovery of the first chunk that was sent as a probe
ProbeRecovery(x) ==
    IF x.probe \cap SentQueue(x) = {} THEN x
    ELSE LET t == CHOOSE u \in Tsns : IsFirst(u, x.probe \cap SentQueue(x))
             y == [x EXCEPT !.probe = @ \ {t}]
         IN IF x.sent[t] \in {"sent", "resend"}
            THEN RetranIncrease(Mark(FlightDecrease(y, {t}), {t}, "resend"), 1)
            ELSE y

\* One destination of the loop that assures a timer where data is out.
Service(n) ==
    LET recover == ctx.recovery /\ n \in a.window_probe
        x == IF recover THEN ProbeRecovery(a) ELSE a
        start == IF ctx.express THEN OsTimerStart(x, n) ELSE TimerStart(x, n)
        assured == IF n \in x.timer THEN x ELSE start
    IN
    /\ at = "service"
    /\ n \in ctx.todo
    /\ UNCHANGED at
    /\ ctx' = [ctx EXCEPT !.todo = @ \ {n}, !.recovered = @ \/ recover,
                          !.j = @ \/ x.flight[n] > 0]
    /\ \/ x.flight[n] > 0 /\ a' = [start EXCEPT !.window_probe = @ \ {n}]
       \/ /\ x.flight[n] = 0
          /\ n \in x.window_probe
          /\ a' = IF ctx.express THEN [assured EXCEPT !.window_probe = @ \ {n}]
                  ELSE assured
       \/ /\ x.flight[n] = 0
          /\ n \notin x.window_probe
          /\ a' = IF n \in x.timer THEN TimerStop(x, {n}) ELSE x
    /\ UNCHANGED <<wire, sacks, faults>> /\ UNCHANGED peer

\* After the loop: "huh, this should not happen", or on to the output.
ServiceDone ==
    LET again == /\ ~ctx.j /\ ~ctx.recovered /\ ~ctx.done
                 /\ SentQueue(a) # {}
                 /\ a.retran = 0
    IN
    /\ at = "service"
    /\ ctx.todo = {}
    /\ IF again
       THEN /\ a' = IF InFlight(a) = {} THEN a
                    ELSE [Recount(a) EXCEPT !.retran = Cardinality(Resend(a))]
            /\ UNCHANGED at
            /\ ctx' = [ctx EXCEPT !.todo = Nets, !.done = TRUE]
       ELSE UNCHANGED a /\ GoOutput("none")
    /\ UNCHANGED <<wire, sacks, faults>> /\ UNCHANGED peer

-----------------------------------------------------------------------------
(* sctp_chunk_output: retransmissions first, then new chunks. *)

\* S can be one packet of retransmissions to n: the first chunks marked for n,
\* where every earlier marked chunk waits for the window of its destination.
Bundle(x, S, n) ==
    /\ S # {} /\ S \subseteq Of(x, Resend(x), n)
    /\ \A t \in Resend(x) \ S :
        (\E u \in S : t < u) => x.whoTo[t] # n /\ x.flight[x.whoTo[t]] > 0

\* A marked chunk that is alone with nothing in flight may be a window probe.
MayProbe(x, S) == x.total = 0 /\ Cardinality(S) = 1

Probed(x, S, n) == [x EXCEPT !.probe = @ \cup S, !.window_probe = @ \cup {n}]

Sent(x, S, n) ==
    LET y == FlightIncrease(Mark(x, S, "sent"), S)
    IN [y EXCEPT !.young = IF n \in x.timer THEN @ \cup S ELSE @ \ S]

\* sctp_chunk_retransmission that sends one packet
Resent(x, S, n) ==
    LET y == RetranDecrease(Deflate(Sent(x, S, n), S), Cardinality(S))
    IN TimerStart(y, n)

\* After a timeout only one packet is sent.
AfterPacket(last) ==
    at' = (IF last \/ ctx.t3 # "none" THEN "end" ELSE "output") /\ UNCHANGED ctx

Retransmit(S, n, probe) ==
    /\ at = "output"
    /\ a.retran > 0
    /\ Bundle(a, S, n)
    /\ probe => MayProbe(a, S)
    /\ a' = Resent(IF probe THEN Probed(a, S, n) ELSE a, S, n)
    /\ wire' = wire \cup S
    /\ AfterPacket(probe)
    /\ UNCHANGED <<sacks, faults>> /\ UNCHANGED peer

\* The packet cannot be sent: its timer is started nevertheless, unless there
\* was no memory to build it.
RetransmitFails(S, n, probe, v) ==
    LET x == IF probe THEN Probed(a, S, n) ELSE a IN
    /\ at = "output"
    /\ a.retran > 0
    /\ Bundle(a, S, n)
    /\ probe => ProbeFails /\ MayProbe(a, S)
    /\ Fault
    /\ \/ a' = TimerStart(x, n)
       \/ a' = TimerValidation(x, v)
    /\ at' = "end"
    /\ UNCHANGED ctx
    /\ UNCHANGED <<wire, sacks>> /\ UNCHANGED peer

\* No retransmission is left, or the rest waits for destinations' windows.
RetransmissionsDone ==
    \/ a.retran = 0
    \/ ctx.t3 = "none" /\ \A t \in Resend(a) : a.flight[a.whoTo[t]] > 0

\* sctp_med_chunk_output and sctp_clean_up_datalist: the next new chunk
Transmit(t, n, probe) ==
    LET x == [a EXCEPT !.whoTo[t] = n, !.probe = @ \ {t}, !.revoked = @ \ {t}] IN
    /\ at = "output"
    /\ RetransmissionsDone
    /\ IsFirst(t, SendQueue(a))
    /\ probe => a.total = 0
    /\ a' = TimerStart(Sent(IF probe THEN Probed(x, {t}, n) ELSE x, {t}, n), n)
    /\ wire' = wire \cup {t}
    /\ at' = IF probe THEN "end" ELSE "output"
    /\ UNCHANGED ctx
    /\ UNCHANGED <<sacks, faults>> /\ UNCHANGED peer

\* The chunk stays on the send queue; its destination has a timer.
TransmitFails(n, probe) ==
    /\ at = "output"
    /\ RetransmissionsDone
    /\ SendQueue(a) # {}
    /\ probe => a.total = 0
    /\ Fault
    /\ a' = TimerStart(IF probe THEN [a EXCEPT !.window_probe = @ \cup {n}] ELSE a, n)
    /\ at' = "end"
    /\ UNCHANGED ctx
    /\ UNCHANGED <<wire, sacks>> /\ UNCHANGED peer

\* Output stops when nothing is left to send, or when a window is used up, which
\* it is not while nothing is in flight.
StopOutput(v) ==
    /\ at = "output"
    /\ a.total > 0 \/ Resend(a) \cup SendQueue(a) = {}
    /\ a' = a \/ a' = TimerValidation(a, v)
    /\ at' = "end"
    /\ UNCHANGED ctx
    /\ UNCHANGED <<wire, sacks, faults>> /\ UNCHANGED peer

\* The handler returns.  After a timeout: the safeguard of sctp_timeout_handler.
Return ==
    /\ at = "end"
    /\ IF ctx.t3 # "none" /\ a.timers_up = 0 /\ SentQueue(a) # {}
       THEN a' = TimerStart(a, a.whoTo[CHOOSE t \in Tsns : IsFirst(t, SentQueue(a))])
       ELSE UNCHANGED a
    /\ at' = "idle"
    /\ ctx' = NoCtx
    /\ UNCHANGED <<wire, sacks, faults>> /\ UNCHANGED peer

\* A user message of one chunk
UserSend ==
    /\ at = "idle"
    /\ ~closing
    /\ a.queued < MaxTsn
    /\ a' = [a EXCEPT !.queued = @ + 1]
    /\ GoOutput("none")
    /\ UNCHANGED <<wire, sacks, faults>> /\ UNCHANGED peer

-----------------------------------------------------------------------------
(* sctp_t3rxt_timer: chunks outstanding to n for long enough are marked and *)
(* move to destination alt; every one of them for a window probe.           *)

\* Mutants: the marked chunks stay in the flight size; nothing is marked.
mark_without_flight(x, M, n, alt) ==
    LET y == Deflate(x, M \cap InFlight(x))
        z == [Mark(y, M, "resend") EXCEPT
                !.whoTo = [t \in Tsns |-> IF t \in M THEN alt ELSE @[t]]]
    IN [z EXCEPT !.retran = Cardinality(Resend(z))]

mark_nothing(x, M, n, alt) == x

MarkForResend(x, M, n, alt) ==
    LET out == M \cap InFlight(x)
        y == FlightDecrease(Deflate(x, out), out)
        z == [Mark(y, M, "resend") EXCEPT
                !.whoTo = [t \in Tsns |-> IF t \in M THEN alt ELSE @[t]]]
        w == [z EXCEPT !.retran = Cardinality(Resend(z))]
    IN IF x.flight[n] - y.flight[n] = x.total - y.total THEN w ELSE Recount(w)

T3Timeout(n, M, alt) ==
    LET outstanding == Of(a, InFlight(a) \cup Resend(a), n) IN
    /\ at = "idle"
    /\ n \in a.timer
    /\ M \subseteq outstanding
    /\ outstanding \ a.young \subseteq M
    /\ a' = MarkForResend([a EXCEPT !.timer = @ \ {n}, !.timers_up = Floor(@ - 1)],
                          M, n, alt)
    /\ GoOutput(n)
    /\ UNCHANGED <<wire, sacks, faults>> /\ UNCHANGED peer

-----------------------------------------------------------------------------
(* The network and the peer.  A handler, which holds the lock throughout,  *)
(* neither sees nor affects what they do meanwhile, so they wait for it.   *)

Cum(S) == CHOOSE n \in 0..MaxTsn : 1..n \subseteq S /\ n + 1 \notin S

sender == <<a, at, ctx>>

\* A chunk arrives; any chunks received may become undroppable.
Arrive(t) ==
    /\ at = "idle"
    /\ t \in wire
    /\ wire' = wire \ {t}
    /\ got' = got \cup {t}
    /\ \E D \in SUBSET got' : kept' = kept \cup 1..Cum(got') \cup D
    /\ due' = TRUE
    /\ UNCHANGED <<sacks, shuts, closing, faults, reneges>> /\ UNCHANGED sender

SackOf(S, K) ==
    LET gaps == {t \in S : t > Cum(S)}
    IN [cum |-> Cum(S), seg |-> gaps \ K, nr |-> gaps \cap K]

\* The peer may send a SACK at any time (a window update), and must when due.
PeerSack ==
    /\ at = "idle"
    /\ Cardinality(sacks) < MaxSacks
    /\ sacks' = sacks \cup {SackOf(got, kept)}
    /\ due' = FALSE
    /\ UNCHANGED <<wire, got, kept, shuts, closing, faults, reneges>> /\ UNCHANGED sender

\* The peer shuts down, and repeats its SHUTDOWN as chunks arrive and when its
\* T2 timer expires; one that never arrives is lost.
PeerShutdown ==
    /\ at = "idle"
    /\ PeerShuts /\ (FickleShuts \/ reneges = 0)
    /\ Cardinality(shuts) < MaxSacks
    /\ shuts' = shuts \cup {Cum(got)}
    /\ UNCHANGED <<wire, got, kept, due, sacks, closing, faults, reneges>>
    /\ UNCHANGED sender

\* Memory pressure at the peer: droppable chunks beyond a hole are dropped.
Renege ==
    /\ at = "idle"
    /\ reneges < MaxReneges
    /\ FickleShuts \/ (shuts = {} /\ ~closing)
    /\ \E D \in SUBSET {t \in got \ kept : t > Cum(got) + 1} :
        D # {} /\ got' = got \ D
    /\ due' = TRUE
    /\ reneges' = reneges + 1
    /\ UNCHANGED <<wire, kept, sacks, shuts, closing, faults>> /\ UNCHANGED sender

LoseData(t) ==
    /\ at = "idle"
    /\ t \in wire
    /\ Fault
    /\ wire' = wire \ {t}
    /\ UNCHANGED sacks /\ UNCHANGED sender /\ UNCHANGED peer

LoseSack(s) ==
    /\ at = "idle"
    /\ Fault
    /\ sacks' = sacks \ {s}
    /\ UNCHANGED wire /\ UNCHANGED sender /\ UNCHANGED peer

ReceiveSack == \E s \in sacks, grew \in BOOLEAN : Sack(s, grew)

ReceiveShutdown == \E c \in shuts, grew \in BOOLEAN : Shutdown(c, grew)

Expire(n) ==
    \E M \in SUBSET Tsns, alt \in Nets : T3Timeout(n, M, alt)

Outputs ==
    \E n \in Nets, probe \in BOOLEAN :
        \/ \E S \in SUBSET Resend(a) : Retransmit(S, n, probe)
        \/ \E S \in SUBSET Resend(a), v \in Nets : RetransmitFails(S, n, probe, v)
        \/ \E t \in SendQueue(a) : Transmit(t, n, probe)
        \/ TransmitFails(n, probe)
        \/ StopOutput(n)

Handler == (\E n \in Nets : Service(n)) \/ ServiceDone \/ Outputs \/ Return

Next ==
    \/ UserSend
    \/ ReceiveSack
    \/ ReceiveShutdown
    \/ \E n \in Nets : Expire(n)
    \/ Handler
    \/ \E t \in wire : Arrive(t) \/ LoseData(t)
    \/ PeerSack
    \/ PeerShutdown
    \/ Renege
    \/ \E s \in sacks : LoseSack(s)

Spec == Init /\ [][Next]_vars

\* Handlers run to their end, timers expire, what is under way and not lost
\* arrives, and the peer acknowledges what it received.
Fairness ==
    /\ WF_at(at # "idle" /\ at' \in {"service", "output", "end", "idle"})
    /\ \A n \in Nets : SF_at(at = "idle" /\ n \in a.timer /\ GoOutput(n))
    /\ \A t \in Tsns :
        SF_wire(at = "idle" /\ t \in wire /\ wire' = wire \ {t} /\ UNCHANGED faults)
    /\ SF_due(at = "idle" /\ Cardinality(sacks) < MaxSacks /\ due /\ due' = FALSE)
    /\ SF_sacks(at = "idle" /\ \E s \in sacks : sacks' = sacks \ {s} /\ UNCHANGED faults)

LiveSpec == Spec /\ Fairness

-----------------------------------------------------------------------------
(* Properties. *)

Statuses == {"unsent", "sent", "resend", "acked", "nracked", "freed"}

\* The send side has its type; no chunk is left SCTP_DATAGRAM_MARKED when a SACK
\* has been handled.
TypeOK ==
    /\ a.sent \in [Tsns -> Statuses]
    /\ a.whoTo \in [Tsns -> Nets \cup {"none"}]
    /\ a.queued \in 0..MaxTsn /\ a.last \in 0..MaxTsn
    /\ a.flight \in [Nets -> Nat] /\ a.total \in Nat /\ a.retran \in Nat
    /\ a.timer \subseteq Nets /\ a.timers_up \in Nat
    /\ a.revoked \subseteq Tsns /\ a.probe \subseteq Tsns /\ a.young \subseteq Tsns
    /\ a.window_probe \subseteq Nets
    /\ a.saw_frags \in BOOLEAN /\ a.saw_nr_frags \in BOOLEAN
    /\ kept \subseteq got /\ got \subseteq Tsns /\ shuts \subseteq 0..MaxTsn

\* The chunks of F are what the flight sizes count.
Counts(x, F) ==
    /\ x.total = Cardinality(F)
    /\ \A n \in Nets : x.flight[n] = Cardinality(Of(x, F, n))

\* flight_size and total_flight count exactly the chunks in flight, whatever
\* SACKs, strikes, revocations, timeouts and probes did to them: a size that is
\* too small lets the sender overrun the windows, one too large stops it.
FlightExact == Counts(a, InFlight(a))

\* sent_queue_retran_cnt is the number of chunks marked for retransmission, so
\* that sctp_chunk_output neither passes over one nor looks for one in vain.
RetranExact == a.retran = Cardinality(Resend(a))

\* Between handlers the first chunk of the sent queue is one that T3 can mark:
\* an acknowledgement that the peer took back is noticed however SACKs were
\* lost or reordered, for a chunk that counts as acked is never sent again.  (A
\* SHUTDOWN that follows an acknowledgement taken back is the exception: see
\* LoopFindsData.)
HeadOutstanding ==
    at = "idle" =>
        \A t \in Tsns : IsFirst(t, SentQueue(a)) => a.sent[t] \in {"sent", "resend"}

\* Between handlers a T3 timer runs while anything waits to be sent or acked.
SomeTimer ==
    at = "idle" /\ SentQueue(a) \cup SendQueue(a) # {} => a.timer # {}

\* The loop over the destinations finds data in flight, or else a retransmission
\* is due, as long as the sent queue is not empty ("huh, this should not happen
\* unless all packets are PR-SCTP and marked to skip"): chunks that only count
\* as acked have nothing left that would resend them.
LoopFindsData ==
    at = "service" /\ ctx.todo = {} /\ SentQueue(a) # {} =>
        ctx.j \/ ctx.recovered \/ a.retran > 0

\* Every chunk is acknowledged in the end, once losses, failed sends and
\* reneging cease.
Resolved == \A t \in Tsns : t <= a.queued ~> a.sent[t] = "freed"
=============================================================================

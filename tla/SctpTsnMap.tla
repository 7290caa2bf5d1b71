----------------------------- MODULE SctpTsnMap -----------------------------
(***************************************************************************)
(* The mapping arrays of an association's receive side: which TSNs arrived *)
(* as bits relative to a base TSN, one array for chunks that may still be  *)
(* dropped and one for chunks that may not, serial arithmetic on TSNs that *)
(* wrap, byte-wise sliding, growth, and the SACK computed from them.       *)
(* Streams are left to the environment: any queued chunks may become       *)
(* deliverable when a chunk arrives.                                        *)
(***************************************************************************)
EXTENDS Integers, FiniteSets

CONSTANTS
    HalfTsn,     \* 2^31: half of the TSN space
    ByteBits,    \* 8
    MaxBytes,    \* SCTP_MAPPING_ARRAY
    InitBytes,   \* SCTP_INITIAL_MAPPING_ARRAY
    IncrBytes,   \* SCTP_MAPPING_ARRAY_INCR
    InitialTsn,  \* the peer's initial TSN
    MaxSent,     \* bound: TSNs the peer uses
    MaxBlocks    \* bound: gap blocks that fit into a SACK

ASSUME WidthAssumption ==
    /\ HalfTsn \in Nat /\ ByteBits \in Nat \ {0}
    /\ MaxBytes \in Nat /\ InitBytes \in Nat \ {0} /\ IncrBytes \in Nat
    /\ MaxSent \in Nat /\ MaxSent < HalfTsn
    /\ MaxBlocks \in Nat \ {0}
    /\ ByteBits <= HalfTsn
    /\ InitialTsn \in 0..(2 * HalfTsn - 1)

VARIABLES
    m,           \* base, cumulative and highest TSNs, the two arrays, their size
    do_drain,    \* sysctl sctp_do_drain
    delayed_ack, \* SACKs may be delayed: asoc.delayed_ack is not 0
    pkt,         \* the packet being processed under the TCB lock
    started,     \* last_data_chunk_from is set
    send_sack,   \* a SACK is due at once (send_sack or recorded duplicates)
    dack,        \* the delayed-ack timer: off, on, or stopped although no SACK was sent
    acked        \* cumulative TSN of the last SACK, as the n-th TSN used

vars == <<m, do_drain, delayed_ack, pkt, started, send_sack, dack, acked>>

-----------------------------------------------------------------------------
(* Serial arithmetic. *)

TsnSpace == 2 * HalfTsn
Tsns == 0..(TsnSpace - 1)

\* Mutant: on more than 32 bits.
add_no_wrap(t, k) == t + k

\* t + k on 32 bits, for |k| < 2^32
Add(t, k) ==
    IF t + k >= TsnSpace THEN t + k - TsnSpace
    ELSE IF t + k < 0 THEN t + k + TsnSpace ELSE t + k

TsnGt(a, b) == \/ a < b /\ b - a > HalfTsn
               \/ a > b /\ a - b < HalfTsn
TsnGe(a, b) == TsnGt(a, b) \/ a = b

\* SCTP_CALC_TSN_TO_GAP
Gap(t, base) == IF t >= base THEN t - base ELSE ((TsnSpace - 1) - base) + t + 1

\* The number of a TSN among those the peer uses, from 1; 0 is the one before.
Nth(t) == Gap(t, Add(InitialTsn, -1))
NthTsn(n) == Add(InitialTsn, n - 1)

-----------------------------------------------------------------------------
(* The arrays. *)

EmptyMap ==
    [base |-> InitialTsn, cum |-> Add(InitialTsn, -1),
     hi |-> Add(InitialTsn, -1), nhi |-> Add(InitialTsn, -1),
     r |-> {}, nr |-> {}, size |-> InitBytes]

Bits(x) == x.r \cup x.nr
Highest(x) == IF TsnGt(x.nhi, x.hi) THEN x.nhi ELSE x.hi

\* Mutant: the highest TSN does not follow.
set_nr_keeps_highest(x, t) == [x EXCEPT !.nr = @ \cup {Gap(t, x.base)}]

\* SCTP_SET_TSN_PRESENT in one array, and its highest TSN follows.
SetNr(x, t) ==
    [x EXCEPT !.nr = @ \cup {Gap(t, x.base)}, !.nhi = IF TsnGt(t, @) THEN t ELSE @]
SetR(x, t) ==
    [x EXCEPT !.r = @ \cup {Gap(t, x.base)}, !.hi = IF TsnGt(t, @) THEN t ELSE @]

\* sctp_expand_mapping_array
Grow(x, gap) ==
    [x EXCEPT !.size = @ + (gap + ByteBits - 1) \div ByteBits + IncrBytes]

\* Back down to the highest TSN left in the revokable array.
BackDown(x, from) ==
    LET left == {g \in x.r : TsnGe(from, Add(x.base, g))}
    IN [x EXCEPT !.hi =
            IF left = {} THEN Add(x.base, -1)
            ELSE Add(x.base, CHOOSE g \in left : \A h \in left : h <= g)]

\* sctp_mark_non_revokable for the chunks D that are being delivered.
MarkNonRevokable(x, D) ==
    LET above == {t \in D : do_drain /\ ~TsnGt(Add(x.cum, 1), t)}
        gaps == {Gap(t, x.base) : t \in above}
        top == {t \in above : \A u \in above : TsnGe(t, u)}
        moved == [x EXCEPT
                    !.r = @ \ gaps,
                    !.nr = @ \cup gaps,
                    !.nhi = IF \E t \in top : TsnGt(t, @)
                            THEN CHOOSE t \in top : TRUE ELSE @]
    IN IF x.hi \in above THEN BackDown(moved, Add(x.hi, -1)) ELSE moved

\* The number of leading one bits: the first clear bit, or all of them.
FirstClear(x) ==
    CHOOSE g \in 0..(x.size * ByteBits) :
        /\ g = x.size * ByteBits \/ g \notin Bits(x)
        /\ 0..(g - 1) \subseteq Bits(x)

\* The array moved down by k bits.
Shift(S, k, end) == {g - k : g \in {h \in S : h >= k /\ h < end}}

\* sctp_slide_mapping_arrays
SlideBytes(x) == FirstClear(x) \div ByteBits
SlideEnd(x) == Gap(Highest(x), x.base) \div ByteBits
SlideCum(x) == [x EXCEPT !.cum = Add(x.base, FirstClear(x) - 1)]
CumPassesHighest(x) == TsnGt(x.cum, x.hi) /\ TsnGt(x.cum, x.nhi)

ClearArrays(x, bytes) ==
    [x EXCEPT !.r = {g \in @ : g >= bytes * ByteBits},
              !.nr = {g \in @ : g >= bytes * ByteBits},
              !.base = Add(x.cum, 1), !.hi = x.cum, !.nhi = x.cum]

SlideArrays(x, k, end) ==
    [x EXCEPT !.r = Shift(@, k, end), !.nr = Shift(@, k, end),
              !.hi = IF Add(@, 1) = x.base THEN Add(@, k) ELSE @,
              !.nhi = IF Add(@, 1) = x.base THEN Add(@, k) ELSE @,
              !.base = Add(@, k)]

Slide(x) ==
    LET at == FirstClear(x)
        c == SlideCum(x)
        y == IF CumPassesHighest(c) THEN [c EXCEPT !.hi = c.cum, !.nhi = c.cum] ELSE c
        from == SlideBytes(x)
        end == SlideEnd(y)
    IN IF y.cum = Highest(y) /\ at >= ByteBits
       THEN ClearArrays(y, (at + ByteBits - 1) \div ByteBits)
       ELSE IF at >= ByteBits /\ from <= end /\ end < y.size
       THEN SlideArrays(y, from * ByteBits, (end + 1) * ByteBits)
       ELSE y

-----------------------------------------------------------------------------
(* The SACK that sctp_send_sack builds from slid arrays: an NR-SACK, where *)
(* nrsack says that one was negotiated, or a plain SACK.                   *)

\* Mutant: one bit short.
scan_bytes_short(x, h, nrsack) == ((h - x.base) + ByteBits - 1) \div ByteBits

\* Bytes scanned for a highest TSN h; the second branch is what is computed
\* when h is not numerically above the base.
ScanBytes(x, h, nrsack) ==
    IF h > x.base THEN ((h - x.base) + 1 + ByteBits - 1) \div ByteBits
    ELSE ((((TsnSpace - 1) - (IF nrsack THEN x.base ELSE h)) + 1 + h + ByteBits - 1)
            % TsnSpace) \div ByteBits

\* The bits of S that are scanned: bits up to the cumulative TSN are masked out
\* of the first byte.
Scanned(x, S, h, nrsack) ==
    {b \in S : /\ TsnGt(h, x.cum)
               /\ b < ScanBytes(x, h, nrsack) * ByteBits
               /\ b >= ByteBits \/ TsnGt(Add(x.base, b), x.cum)}

\* The first bits of the blocks of B.
Starts(B) == {b \in B : b - 1 \notin B}

\* What of B goes into k blocks.  The scan stops as soon as the k-th block is
\* written: that block ends with the byte it begins in.
Fit(B, k) ==
    {b \in B : /\ Cardinality({s \in Starts(B) : s <= b}) <= k
               /\ Cardinality({s \in Starts(B) : s \div ByteBits < b \div ByteBits}) < k}

\* TSNs reported of S in k blocks at most.
Reported(x, S, h, nrsack, k) ==
    {Add(x.base, g) : g \in Fit(Scanned(x, S, h, nrsack), k)}

\* The gap blocks of a SACK with room for k of them, and the two kinds of an
\* NR-SACK: the non-revokable ones get what room is left.
SackGaps(x, k) == Reported(x, Bits(x), Highest(x), FALSE, k)
RevokableGaps(x, k) == Reported(x, x.r, x.hi, TRUE, k)
NrGaps(x, k) ==
    Reported(x, x.nr, x.nhi, TRUE,
             k - Cardinality(Starts(Fit(Scanned(x, x.r, x.hi, TRUE), k))))

-----------------------------------------------------------------------------
Idle == [open |-> FALSE, data |-> FALSE, fwd |-> FALSE, was_a_gap |-> FALSE]

Init ==
    /\ m = EmptyMap
    /\ do_drain \in BOOLEAN
    /\ delayed_ack \in BOOLEAN
    /\ pkt = Idle
    /\ started = FALSE
    /\ send_sack = TRUE
    /\ dack = "off"
    /\ acked = 0

IsAGap(x) == TsnGt(Highest(x), x.cum)

\* Mutant: no memory, and no timer either.
sack_deferred_no_timer(x) ==
    started /\ m' = Slide(x) /\ dack' = "off" /\ UNCHANGED acked

\* sctp_send_sack on arrays x, with the delayed-ack timer stopped: nothing
\* before the first data; otherwise a slide, and then the SACK, or no memory for
\* one and the timer, if SACKs may be delayed.
NoSack(x) == ~started /\ m' = x /\ dack' = "off" /\ UNCHANGED acked
SackSent(x) ==
    started /\ m' = Slide(x) /\ dack' = "off" /\ acked' = Nth(Slide(x).cum)
SackDeferred(x) ==
    /\ started /\ m' = Slide(x) /\ UNCHANGED acked
    /\ dack' = IF delayed_ack THEN "on" ELSE "off"

\* Duplicates stay recorded when the gap blocks filled the SACK.
DupsStay(x) == send_sack /\ IsAGap(Slide(x))

\* The same with the note that a SACK is due: without memory it is taken where
\* SACKs are not delayed.
SendSack(x) ==
    \/ NoSack(x) /\ UNCHANGED send_sack
    \/ SackSent(x) /\ send_sack' \in {FALSE, DupsStay(x)}
    \/ SackDeferred(x) /\ send_sack' = (send_sack \/ ~delayed_ack)

\* sctp_process_data, on entry
OpenData ==
    /\ pkt' = [pkt EXCEPT !.open = TRUE, !.data = TRUE,
                          !.was_a_gap = IF pkt.data THEN @ ELSE IsAGap(m)]
    /\ started' = TRUE
    /\ UNCHANGED <<do_drain, delayed_ack, dack, acked>>

\* The chunk wants its SACK at once, or the association is in SHUTDOWN-SENT.
MayAskSack == send_sack' \in {send_sack, TRUE}

Duplicate(t) ==
    \/ TsnGe(m.cum, t)
    \/ Gap(t, m.base) < m.size * ByteBits /\ Gap(t, m.base) \in Bits(m)

\* A chunk that is behind the cumulative TSN or has its bit set.
DuplicateData(n) ==
    LET t == NthTsn(n) IN
    /\ Duplicate(t)
    /\ send_sack' = TRUE
    /\ UNCHANGED m
    /\ OpenData

\* Arrays that can hold the bit of t.
Fitted(t) ==
    LET gap == Gap(t, m.base)
    IN IF gap >= m.size * ByteBits THEN Grow(m, gap) ELSE m

\* A chunk dropped: beyond the largest array, no memory for a larger one or for
\* the chunk itself, or no room in the receive window for a new highest TSN.
DropData(n) ==
    LET t == NthTsn(n) IN
    /\ ~Duplicate(t)
    /\ \/ UNCHANGED m
       \/ Gap(t, m.base) < MaxBytes * ByteBits /\ m' = Fitted(t)
    /\ MayAskSack
    /\ OpenData

\* Mutant: the cumulative TSN follows any chunk.
follow_highest(x, t) == [x EXCEPT !.cum = t]

\* The cumulative TSN follows a chunk that is the next one.
Follow(x, t) == [x EXCEPT !.cum = IF t = Add(@, 1) THEN t ELSE @]

\* TSNs in the revokable array: chunks that wait in a stream or for reassembly.
Waiting(x) == {Add(x.base, g) : g \in x.r}

\* A chunk for an invalid stream, or delivered at once, is not revokable.
ExpressData(n) ==
    LET t == NthTsn(n) IN
    /\ ~Duplicate(t)
    /\ Gap(t, m.base) < MaxBytes * ByteBits
    /\ m' = Follow(SetNr(Fitted(t), t), t)
    /\ MayAskSack
    /\ OpenData

\* Any other chunk is queued; it and others may become deliverable.
QueueData(n) ==
    LET t == NthTsn(n)
        q == IF do_drain THEN SetR(Fitted(t), t) ELSE SetNr(Fitted(t), t)
    IN
    /\ ~Duplicate(t)
    /\ Gap(t, m.base) < MaxBytes * ByteBits
    /\ \E D \in SUBSET Waiting(q) : m' = Follow(MarkNonRevokable(q, D), t)
    /\ MayAskSack
    /\ OpenData

\* The end of a packet: sctp_sack_check sends a SACK when one is due (or every
\* so many packets, or where SACKs are not delayed), or sees that the delayed-ack
\* timer runs.  A FORWARD-TSN makes one due, at once when the packet has no data.
EndPacket ==
    LET asked == send_sack \/ ~pkt.data
        later == pkt.data /\ pkt.fwd
    IN
    /\ pkt.open
    /\ \/ NoSack(m) /\ send_sack' = (asked \/ pkt.fwd)
       \/ SackSent(m) /\ send_sack' \in {later, later \/ DupsStay(m)}
       \/ SackDeferred(m) /\ send_sack' = (asked \/ pkt.fwd \/ ~delayed_ack)
       \/ /\ delayed_ack
          /\ ~(asked \/ pkt.was_a_gap \/ IsAGap(m))
          /\ dack' = "on"
          /\ send_sack' = pkt.fwd
          /\ UNCHANGED <<m, acked>>
    /\ pkt' = Idle
    /\ UNCHANGED <<do_drain, delayed_ack, started>>

\* sctp_handle_forward_tsn on the arrays: a new cumulative TSN beyond them
\* empties them, one inside fills the holes before it.
Forward(x, t) ==
    LET gap == Gap(t, x.base)
        holes == 0..gap \ Bits(x)
        tops == {Add(x.base, g) : g \in {h \in holes : \A k \in holes : k <= h}}
    IN IF gap >= x.size * ByteBits
       THEN [x EXCEPT !.r = {}, !.nr = {}, !.cum = t, !.hi = t, !.nhi = t,
                      !.base = Add(t, 1)]
       ELSE [x EXCEPT !.nr = @ \cup holes, !.cum = t,
                      !.nhi = IF \E u \in tops : TsnGt(u, @)
                              THEN CHOOSE u \in tops : TRUE ELSE @]

\* FORWARD-TSN comes before any data of its packet.  Chunks that waited behind
\* the abandoned ones are delivered, then the arrays slide.
ForwardTsn(n) ==
    LET t == NthTsn(n) IN
    /\ ~pkt.data
    /\ IF TsnGe(m.cum, t) THEN UNCHANGED m
       ELSE LET x == Forward(m, t) IN
            \E D \in SUBSET Waiting(x) : m' = Slide(MarkNonRevokable(x, D))
    /\ pkt' = [pkt EXCEPT !.open = TRUE, !.fwd = TRUE]
    /\ UNCHANGED <<do_drain, delayed_ack, started, send_sack, dack, acked>>

\* The delayed-ack timer.
SackTimer ==
    /\ ~pkt.open
    /\ dack = "on"
    /\ SendSack(m)
    /\ UNCHANGED <<do_drain, delayed_ack, pkt, started>>

\* sctp_send_sack by a caller that stops the delayed-ack timer afterwards, the
\* one too that it has just set for lack of memory.
SendSackNoTimer ==
    \/ ~started /\ dack' = "off" /\ UNCHANGED <<m, send_sack, acked>>
    \/ SackSent(m) /\ send_sack' \in {FALSE, DupsStay(m)}
    \/ /\ started /\ m' = Slide(m) /\ dack' = "stopped" /\ UNCHANGED acked
       /\ send_sack' = (send_sack \/ ~delayed_ack)

\* sctp_chunk_output has something to send and bundles the delayed SACK.
PiggyBack ==
    /\ ~pkt.open
    /\ dack = "on"
    /\ SendSackNoTimer
    /\ UNCHANGED <<do_drain, delayed_ack, pkt, started>>

\* The reader made room (sctp_user_rcvd): a SACK, and no timer afterwards.
WindowUpdate ==
    /\ ~pkt.open
    /\ SendSackNoTimer
    /\ UNCHANGED <<do_drain, delayed_ack, pkt, started>>

\* setsockopt SCTP_DELAYED_SACK: it can only set a delay, not remove it.
SetDelayedAck ==
    /\ ~pkt.open
    /\ delayed_ack' = TRUE
    /\ UNCHANGED <<m, do_drain, pkt, started, send_sack, dack, acked>>

\* sctp_drain_mbufs: waiting chunks beyond the next expected TSN are dropped,
\* the highest TSN backs down and a SACK takes them back.  Chunks held for a
\* stream reset (pending_reply_queue) stay, so any of them may be dropped.
DrainMap(x, D) ==
    BackDown([x EXCEPT !.r = @ \ {Gap(t, x.base) : t \in D}], x.hi)

Drain ==
    /\ ~pkt.open
    /\ do_drain
    /\ m.cum # m.hi
    /\ \E D \in SUBSET {t \in Waiting(m) : TsnGt(t, Add(m.cum, 1))} :
        /\ D # {}
        /\ SendSack(DrainMap(m, D))
    /\ UNCHANGED <<do_drain, delayed_ack, pkt, started>>

Data(n) == DuplicateData(n) \/ DropData(n) \/ ExpressData(n) \/ QueueData(n)

Next ==
    \/ \E n \in 1..MaxSent : Data(n) \/ ForwardTsn(n)
    \/ EndPacket
    \/ SackTimer
    \/ PiggyBack
    \/ WindowUpdate
    \/ SetDelayedAck
    \/ Drain

Spec == Init /\ [][Next]_vars

-----------------------------------------------------------------------------
(* Properties. *)

\* The state of the receive side has its type: in particular every TSN that
\* sctp_slide_mapping_arrays and its callers compute stays in its width.
TypeOK ==
    /\ m \in [base : Tsns, cum : Tsns, hi : Tsns, nhi : Tsns,
              r : SUBSET Nat, nr : SUBSET Nat, size : Nat]
    /\ do_drain \in BOOLEAN /\ delayed_ack \in BOOLEAN
    /\ pkt \in [open : BOOLEAN, data : BOOLEAN, fwd : BOOLEAN, was_a_gap : BOOLEAN]
    /\ started \in BOOLEAN /\ send_sack \in BOOLEAN
    /\ dack \in {"off", "on", "stopped"}
    /\ acked \in Nat

\* The TSNs the arrays stand for, numbered from the first one of the peer.
Got == 1..(Nth(m.base) - 1) \cup {Nth(m.base) + g : g \in Bits(m)}
Kept == 1..Nth(m.cum) \cup 1..(Nth(m.base) - 1) \cup {Nth(m.base) + g : g \in m.nr}

\* The arrays behave as a set of TSNs: a chunk is taken once and only once, a
\* SACK's cumulative TSN is exact and never goes back, sliding, growing and
\* wrapping lose nothing, and only revokable chunks beyond the next expected
\* one are ever given up.
RS == INSTANCE ReceivedSet WITH got <- Got, kept <- Kept, acked <- acked
ImplementsReceivedSet == RS!Safety

\* The assertions of sctp_slide_mapping_arrays hold whenever it may be called:
\* the cumulative TSN is not beyond the highest one, nothing is left above a
\* cleared array, and a slide starts and ends inside the array.
SlideAssertions ==
    LET c == SlideCum(m) at == FirstClear(m) IN
    /\ ~CumPassesHighest(c)
    /\ c.cum = Highest(c) => \A g \in Bits(m) : g < at
    /\ c.cum # Highest(c) /\ at >= ByteBits =>
            SlideBytes(m) <= SlideEnd(c) /\ SlideEnd(c) < m.size

\* The TSNs wrap between the base and the TSN h beyond a gap.
Wraps(x, h) == TsnGt(h, x.cum) /\ h < x.base

\* R is what goes into k blocks of the set A of TSN numbers: nothing else, all
\* of it while there is room for another block, and what does not fit is on top.
FitsIn(R, A, k) ==
    /\ R \subseteq A
    /\ Cardinality(Starts(R)) <= k
    /\ Cardinality(Starts(R)) < k => R = A
    /\ \A i \in R, j \in A \ R : i < j

\* A SACK sent now reports, as far as its blocks go, exactly the TSNs received
\* above its cumulative TSN; an NR-SACK reports the revokable ones first.  Where
\* TSNs wrap between the base and a highest TSN that is not so for a plain SACK,
\* nor for an NR-SACK when that TSN begins a byte.
SackComplete ==
    LET x == Slide(m)
        beyond(S) == {n \in {Nth(x.base) + g : g \in S} : n > Nth(x.cum)}
        all == {n \in Got : n > Nth(x.cum)}
        nth(S) == {Nth(t) : t \in S}
    IN
    \A k \in 1..MaxBlocks :
        /\ ~Wraps(x, Highest(x)) => FitsIn(nth(SackGaps(x, k)), all, k)
        /\ (\A h \in {x.hi, x.nhi} : Wraps(x, h) => Gap(h, x.base) % ByteBits # 0) =>
              LET first == nth(RevokableGaps(x, k)) IN
              /\ beyond(x.r) \cup beyond(x.nr) = all
              /\ FitsIn(first, beyond(x.r), k)
              /\ FitsIn(nth(NrGaps(x, k)), beyond(x.nr), k - Cardinality(Starts(first)))

\* Nothing received waits for its acknowledgement without a timer: between
\* packets the last SACK has the current cumulative TSN, or the delayed-ack
\* timer runs, or a SACK goes out with the next packet, or there was no memory
\* for one and the caller of sctp_send_sack stopped the timer.
AckPending ==
    started /\ ~pkt.open =>
        acked = Nth(m.cum) \/ dack \in {"on", "stopped"} \/ send_sack
=============================================================================

---------------------------- MODULE SctpStrReset ----------------------------
(***************************************************************************)
(* Stream reset and stream addition between two established endpoints: the *)
(* requests a user makes, the RE-CONFIG chunk that carries them and is     *)
(* sent again by the STRRESET timer, the answers with their two remembered *)
(* results, the outgoing reset a peer may ask for, and the receiver's part *)
(* in ordered delivery: a reset waits until every TSN sent before it has   *)
(* arrived, and what was sent after it waits for the reset.                *)
(*                                                                         *)
(* Messages are ordered and fit one chunk, every packet carries one chunk, *)
(* and no allocation fails.  A DATA chunk is under way until it arrives    *)
(* (SctpSender and SctpTsnMap are about how); RE-CONFIG chunks are lost,   *)
(* repeated and reordered.  The SSN 0xffff, the one before 0, is -1: no    *)
(* stream carries enough messages to wrap.  The request that resets the    *)
(* TSNs as well is not modelled.                                           *)
(***************************************************************************)
EXTENDS Integers, Sequences, FiniteSets

CONSTANTS
    Ends,          \* the two endpoints
    Senders,       \* endpoints that send data
    DataStreams,   \* streams the data is sent on
    Profiles,      \* what the users of the endpoints do, see Profile
    InitSeq,       \* each endpoint's first request number
    Lists,         \* stream lists of reset requests; {} stands for all streams
    InitStreams,   \* streams each way at the start
    MaxInbound,    \* max_inbound_streams
    MaxTsn,        \* bound: DATA chunks of an endpoint
    MaxFaults      \* bound: RE-CONFIG chunks lost or repeated by the network

VARIABLES
    use,       \* the profile, fixed
    as,        \* the association at each endpoint
    wire,      \* chunks under way
    faults,    \* RE-CONFIG chunks lost or repeated so far
    over       \* "no", or why it ended: "protocol", "threshold" (aborts), "crash"

vars == <<use, as, wire, faults, over>>

Other(e) == CHOOSE f \in Ends : f # e
Streams == 0..MaxInbound

\* For each endpoint the stream resets and additions its user asks for (of the
\* outgoing direction, the incoming one or both at once), and the endpoints
\* whose user forbids requests at times; reqs and msgs
\* bound the requests and the messages of a user.
Ways == {"out", "in", "both"}
Profile == [resets : [Ends -> SUBSET Ways], adds : [Ends -> SUBSET Ways],
            deny : SUBSET Ends, reqs : [Ends -> Nat], msgs : 0..MaxTsn]

ASSUME StrResetAssumption ==
    /\ IsFiniteSet(Ends) /\ Cardinality(Ends) = 2
    /\ Senders \subseteq Ends
    /\ InitSeq \in [Ends -> Nat] /\ InitStreams \in 1..MaxInbound
    /\ Profiles \subseteq Profile
    /\ DataStreams \subseteq Nat /\ Lists \subseteq SUBSET Nat
    /\ MaxInbound \in Nat /\ MaxTsn \in Nat /\ MaxFaults \in Nat

MaxParams == 2          \* SCTP_MAX_RESET_PARAMS

-----------------------------------------------------------------------------
(* Parameters of a RE-CONFIG chunk.  seq is the request number, or for a   *)
(* response the number of the request it answers: sctp_find_stream_reset   *)
(* reads both at the same place.                                           *)

OutReq(n, resp, tsn, list) ==
    [type |-> "OUT", seq |-> n, resp |-> resp, tsn |-> tsn, list |-> list]
InReq(n, list) == [type |-> "IN", seq |-> n, list |-> list]
AddOut(n, num) == [type |-> "ADDO", seq |-> n, num |-> num]
AddIn(n, num) == [type |-> "ADDI", seq |-> n, num |-> num]
Response(n, result) == [type |-> "RESP", seq |-> n, result |-> result]

Reconf(e, ps) == [to |-> Other(e), params |-> ps]
Data(e, t, s, n) == [to |-> Other(e), tsn |-> t, strm |-> s, ssn |-> n]
IsData(m) == "tsn" \in DOMAIN m

\* Streams an endpoint with cnt of them resets for a list.
Listed(list, cnt) == IF list = {} THEN 0..(cnt - 1) ELSE list \cap 0..(cnt - 1)

ResetInStream(a, list) ==
    [a EXCEPT !.last = [s \in Streams |-> IF s \in Listed(list, a.incnt) THEN -1 ELSE @[s]]]
ResetOutStreams(a, list) ==
    [a EXCEPT !.next = [s \in Streams |-> IF s \in Listed(list, a.outcnt) THEN 0 ELSE @[s]]]

-----------------------------------------------------------------------------
(* The requester: sctp_send_str_reset_req and the responses. *)

\* Mutant: the chunk is queued and no timer started.
send_without_timer(a, ps) ==
    [a EXCEPT !.outstanding = Len(ps), !.strReset = ps,
              !.outIs = @ \/ \E i \in 1..Len(ps) : ps[i].type = "OUT"]

\* The chunk with the parameters ps becomes str_reset and the timer starts.
SendRequest(a, ps) ==
    [a EXCEPT !.outstanding = Len(ps), !.strReset = ps, !.timer = TRUE,
              !.outIs = @ \/ \E i \in 1..Len(ps) : ps[i].type = "OUT",
              !.adding = IF \E i \in 1..Len(ps) : ps[i].type = "ADDO"
                         THEN LET i == CHOOSE j \in 1..Len(ps) : ps[j].type = "ADDO"
                              IN ps[i].num
                         ELSE @]

\* Positions of str_reset that hold the number n; only two are looked at.
Found(a, n) == {i \in 1..Len(a.strReset) : i <= MaxParams /\ a.strReset[i].seq = n}
FirstFound(a, n) == a.strReset[CHOOSE i \in Found(a, n) : \A k \in Found(a, n) : i <= k]

CleanUp(a) ==
    IF a.outstanding = 0 THEN [a EXCEPT !.strReset = <<>>, !.timer = FALSE] ELSE a

\* What the response does for the request p once the numbers fit.
Answered(a, p, result) ==
    LET b == [a EXCEPT !.seqOut = @ + 1,
                       !.outstanding = IF p.type = "RESP" THEN @ ELSE @ - 1]
    IN CASE p.type = "OUT" ->
              LET c == [b EXCEPT !.outIs = FALSE]
              IN IF result = "performed"
                 THEN [ResetOutStreams(c, p.list) EXCEPT !.did = @ \cup {p}]
                 ELSE c
         [] p.type = "ADDO" ->
              [b EXCEPT !.adding = 0,
                        !.outcnt = IF result = "performed" THEN @ + a.adding ELSE @]
         [] OTHER -> b

HandleResponse(a, n, result) ==
    IF a.outstanding = 0 \/ n # a.seqOut THEN a
    ELSE IF a.strReset = <<>> THEN [a EXCEPT !.outstanding = 0]
    ELSE IF Found(a, n) = {} THEN a
    ELSE CleanUp(Answered(a, FirstFound(a, n), result))

-----------------------------------------------------------------------------
(* The responder.  ok says whether local_strreset_support, which the user  *)
(* may change at any time, allows the request.  reply collects the answer, *)
(* more is a request of its own that a handler sends.                      *)

Reply(a, ps) == [a EXCEPT !.reply = @ \o ps]

\* The request is new: remember its result and answer.
Result(a, p, result) ==
    Reply([a EXCEPT !.actions = <<result, @[1]>>, !.seqIn = @ + 1],
          <<Response(p.seq, result)>>)

\* Mutant: the two remembered results the wrong way round.
repeat_older_result(a, p) ==
    Reply(a, <<Response(p.seq, IF p.seq = a.seqIn - 1 THEN a.actions[2] ELSE a.actions[1])>>)

\* The request is not new: the result of the last two is still known.
KnownResult(a, n) == CASE n = a.seqIn - 1 -> a.actions[1]
                       [] n = a.seqIn - 2 -> a.actions[2]
                       [] OTHER -> "badseq"
Repeat(a, p) == Reply(a, <<Response(p.seq, KnownResult(a, p.seq))>>)

\* Mutant: the reset does not wait for the TSNs sent before it.
reset_at_once(a, p, ok) ==
    IF ~ok THEN Result(a, p, "denied")
    ELSE Result([ResetInStream(a, p.list) EXCEPT !.took = @ \cup {p}], p, "performed")

RequestOut(a, p, ok) ==
    IF ~ok THEN Result(a, p, "denied")
    ELSE LET b == [a EXCEPT !.took = @ \cup {p}]
         IN Result(IF a.cum >= p.tsn THEN ResetInStream(b, p.list)
                   ELSE [b EXCEPT !.resetHead = Append(@, [tsn |-> p.tsn, list |-> p.list])],
                   p, "performed")

\* The outgoing reset the peer asks for travels in the answer, which becomes
\* str_reset.  The answer has no destination yet, so sctp_timer_start does
\* nothing.  An incoming request is the last parameter of its chunk.
RequestIn(a, p, ok) ==
    IF ~ok THEN Result(a, p, "denied")
    ELSE IF a.outIs THEN Result(a, p, "inprogress")
    ELSE LET b == Result(Reply(a, <<OutReq(a.seqOut, p.seq, a.tsn - 1, p.list)>>),
                         p, "performed")
         IN [b EXCEPT !.outIs = TRUE, !.strReset = b.reply, !.outstanding = @ + 1]

\* The queues of the streams are moved to the larger array through the wrong
\* link, which for a message queued on a stream is null.
RequestAddOut(a, p, ok) ==
    IF ~ok \/ a.incnt + p.num > MaxInbound THEN Result(a, p, "denied")
    ELSE IF \E s \in Streams : a.inqueue[s] # {} THEN [a EXCEPT !.bad = TRUE]
    ELSE Result([a EXCEPT !.incnt = @ + p.num], p, "performed")

RequestAddIn(a, p, ok) ==
    IF ~ok THEN Result(a, p, "denied")
    ELSE IF a.outstanding > 0 THEN Result(a, p, "inprogress")
    ELSE LET req == <<AddOut(a.seqOut, p.num)>>
         IN Result([SendRequest(a, req) EXCEPT !.more = req], p, "performed")

\* An OUT request names the incoming request that made the peer send it.
ImplicitAck(a, p) ==
    IF a.outstanding > 0 /\ p.resp = a.seqOut THEN HandleResponse(a, p.resp, "performed") ELSE a

HandleParam(a, p, ok) ==
    CASE p.type = "RESP" -> HandleResponse(a, p.seq, p.result)
      [] p.type = "OUT" ->
           LET b == ImplicitAck(a, p)
           IN IF p.seq = b.seqIn THEN RequestOut(b, p, ok) ELSE Repeat(b, p)
      [] p.type = "IN" -> IF p.seq = a.seqIn THEN RequestIn(a, p, ok) ELSE Repeat(a, p)
      [] p.type = "ADDO" -> IF p.seq = a.seqIn THEN RequestAddOut(a, p, ok) ELSE Repeat(a, p)
      [] p.type = "ADDI" -> IF p.seq = a.seqIn THEN RequestAddIn(a, p, ok) ELSE Repeat(a, p)

\* sctp_handle_stream_reset: the parameters in order, two at most.
HandleParams(a, ps, ok) ==
    LET b == HandleParam(a, ps[1], ok)
    IN IF Len(ps) = 1 \/ b.bad THEN b ELSE HandleParam(b, ps[2], ok)

-----------------------------------------------------------------------------
(* The receiver of data. *)

\* SSNs from n on that are queued on stream s without a gap.
Ready(a, s, n) ==
    {k \in 0..MaxTsn :
        \A j \in 0..(k - 1) : \E c \in a.inqueue[s] : c.ssn = n + j}
RunLength(a, s, n) == CHOOSE k \in Ready(a, s, n) : \A j \in Ready(a, s, n) : j <= k

\* sctp_queue_data_to_stream: chunk c to the queue of stream s.
QueueToStream(a, s, c) ==
    IF a.bad THEN a
    ELSE IF a.last[s] >= c.ssn \/ a.cum >= c.tsn THEN [a EXCEPT !.bad = TRUE]
    ELSE IF a.last[s] + 1 = c.ssn
    THEN LET k == RunLength(a, s, c.ssn + 1)
             run == [i \in 1..k |-> CHOOSE d \in a.inqueue[s] : d.ssn = c.ssn + i]
         IN [a EXCEPT !.last[s] = c.ssn + k,
                      !.inqueue[s] = {d \in @ : d.ssn \notin (c.ssn + 1)..(c.ssn + k)},
                      !.read = @ \o <<c>> \o run]
    ELSE IF \E d \in a.inqueue[s] : d.ssn = c.ssn THEN a
    ELSE [a EXCEPT !.inqueue[s] = @ \cup {c}]

\* The chunks of S one by one in the order of their TSNs.
QueueAll(a, s, S) ==
    LET upTo[t \in 0..MaxTsn] ==
            IF t = 0 THEN a
            ELSE IF \E c \in S : c.tsn = t
                 THEN QueueToStream(upTo[t - 1], s, CHOOSE c \in S : c.tsn = t)
                 ELSE upTo[t - 1]
    IN upTo[MaxTsn]

\* The first waiting reset takes place once all before it arrived; what waited
\* for it goes to the stream of the chunk that was just processed, as far as it
\* is not beyond the next reset.  (sctp_deliver_reasm_check, which follows, finds
\* nothing: no queue ever holds the SSN that is next.)
ServeReset(a, s) ==
    IF a.bad \/ a.resetHead = <<>> \/ a.cum < a.resetHead[1].tsn THEN a
    ELSE LET b == [ResetInStream(a, a.resetHead[1].list) EXCEPT !.resetHead = Tail(@)]
             free == {c \in b.pending : b.resetHead = <<>> \/ c.tsn <= b.resetHead[1].tsn}
         IN QueueAll([b EXCEPT !.pending = @ \ free], s, free)

\* sctp_slide_mapping_arrays: the highest TSN up to which all arrived
Slide(a) ==
    LET full == {t \in a.cum..MaxTsn : \A u \in (a.cum + 1)..t : u \in a.got}
    IN [a EXCEPT !.cum = CHOOSE t \in full : \A u \in full : u <= t]

\* The chunk goes to its stream, or behind the first waiting reset.
Place(a, c) ==
    IF \/ \E d \in a.inqueue[c.strm] : d.ssn = c.ssn /\ d.strm = c.strm
       \/ a.resetHead = <<>> /\ a.last[c.strm] >= c.ssn
    THEN [a EXCEPT !.bad = TRUE]
    ELSE LET b == [a EXCEPT !.got = @ \cup {c.tsn}]
         IN IF a.resetHead # <<>> /\ c.tsn > a.resetHead[1].tsn
            THEN [b EXCEPT !.pending = @ \cup {c}]
            ELSE QueueToStream(b, c.strm, c)

CumStep(a, c) == IF c.tsn = a.cum + 1 THEN [a EXCEPT !.cum = c.tsn] ELSE a

ProcessData(a, c) ==
    IF c.strm >= a.incnt THEN Slide([a EXCEPT !.got = @ \cup {c.tsn}])
    ELSE Slide(ServeReset(CumStep(Place(a, c), c), c.strm))

-----------------------------------------------------------------------------
(* Steps. *)

Idle(e) == over = "no" /\ as[e].outstanding = 0

\* The user sends a message and it goes out; nothing is sent, and no TSN
\* given, while a request is outstanding.
SendData(e, s) ==
    /\ Idle(e) /\ s < as[e].outcnt /\ as[e].tsn <= use.msgs
    /\ as' = [as EXCEPT ![e].tsn = @ + 1, ![e].next[s] = @ + 1]
    /\ wire' = wire \cup {Data(e, as[e].tsn, s, as[e].next[s])}
    /\ UNCHANGED <<use, faults, over>>

Ask(e, ps) ==
    /\ Idle(e) /\ as[e].seqOut + Len(ps) <= InitSeq[e] + use.reqs[e]
    /\ as' = [as EXCEPT ![e] = SendRequest(@, ps)]
    /\ wire' = wire \cup {Reconf(e, ps)}
    /\ UNCHANGED <<use, faults, over>>

\* setsockopt(SCTP_RESET_STREAMS)
ResetStreams(e, way, list) ==
    LET a == as[e]
        out == OutReq(a.seqOut, a.seqIn - 1, a.tsn - 1, list)
    IN /\ \A s \in list : /\ way # "out" => s <= a.incnt
                          /\ way # "in" => s <= a.outcnt
       /\ Ask(e, CASE way = "out" -> <<out>>
                   [] way = "in" -> <<InReq(a.seqOut, list)>>
                   [] way = "both" -> <<out, InReq(a.seqOut + 1, list)>>)

\* setsockopt(SCTP_ADD_STREAMS), one stream each way
AddStreams(e, way) ==
    LET a == as[e]
    IN /\ way # "out" => a.incnt + 1 <= MaxInbound
       /\ Ask(e, CASE way = "out" -> <<AddOut(a.seqOut, 1)>>
                   [] way = "in" -> <<AddIn(a.seqOut, 1)>>
                   [] way = "both" -> <<AddOut(a.seqOut, 1), AddIn(a.seqOut + 1, 1)>>)

\* A RE-CONFIG chunk arrives, and again later if keep.
RecvReconf(e, m, ok, keep) ==
    LET b == HandleParams(as[e], m.params, ok)
    IN /\ over = "no" /\ ~IsData(m) /\ m.to = e /\ (ok \/ e \in use.deny)
       /\ as' = [as EXCEPT ![e] = [b EXCEPT !.reply = <<>>, !.more = <<>>]]
       /\ wire' = (IF keep THEN wire ELSE wire \ {m})
                    \cup (IF b.reply = <<>> THEN {} ELSE {Reconf(e, b.reply)})
                    \cup (IF b.more = <<>> THEN {} ELSE {Reconf(e, b.more)})
       /\ keep => faults < MaxFaults
       /\ faults' = IF keep THEN faults + 1 ELSE faults
       /\ over' = IF b.bad THEN "crash" ELSE "no"
       /\ UNCHANGED use

RecvData(e, m) ==
    LET b == ProcessData(as[e], m)
    IN /\ over = "no" /\ IsData(m) /\ m.to = e
       /\ as' = [as EXCEPT ![e] = b]
       /\ wire' = wire \ {m}
       /\ over' = IF b.bad THEN "protocol" ELSE "no"
       /\ UNCHANGED <<use, faults>>

\* sctp_strreset_timer.  The error count is shared with all other timers and
\* cleared by any answer of the peer, so an expiry may be the last one.
TimerExpires(e) ==
    /\ over = "no" /\ as[e].timer
    /\ IF as[e].outstanding = 0 \/ as[e].strReset = <<>>
       THEN /\ as' = [as EXCEPT ![e].timer = FALSE, ![e].outstanding = 0]
            /\ UNCHANGED <<wire, over>>
       ELSE /\ \/ over' = "threshold" /\ UNCHANGED wire
               \/ wire' = wire \cup {Reconf(e, as[e].strReset)} /\ UNCHANGED over
            /\ UNCHANGED as
    /\ UNCHANGED <<use, faults>>

Lose(m) ==
    /\ over = "no" /\ ~IsData(m) /\ faults < MaxFaults
    /\ wire' = wire \ {m} /\ faults' = faults + 1
    /\ UNCHANGED <<use, as, over>>

Init ==
    /\ use \in Profiles
    /\ as = [e \in Ends |->
               [seqOut |-> InitSeq[e], seqIn |-> InitSeq[Other(e)],
                actions |-> <<"none", "none">>, outstanding |-> 0, outIs |-> FALSE,
                strReset |-> <<>>, timer |-> FALSE, adding |-> 0,
                outcnt |-> InitStreams, incnt |-> InitStreams,
                tsn |-> 1, next |-> [s \in Streams |-> 0],
                cum |-> 0, got |-> {}, last |-> [s \in Streams |-> -1],
                inqueue |-> [s \in Streams |-> {}], resetHead |-> <<>>, pending |-> {},
                read |-> <<>>, bad |-> FALSE, did |-> {}, took |-> {},
                reply |-> <<>>, more |-> <<>>]]
    /\ wire = {} /\ faults = 0 /\ over = "no"

Next ==
    \/ \E e \in Senders, s \in DataStreams : SendData(e, s)
    \/ \E e \in Ends : \E way \in use.resets[e], list \in Lists : ResetStreams(e, way, list)
    \/ \E e \in Ends : \E way \in use.adds[e] : AddStreams(e, way)
    \/ \E m \in wire, ok, keep \in BOOLEAN : RecvReconf(m.to, m, ok, keep)
    \/ \E m \in wire : RecvData(m.to, m)
    \/ \E e \in Ends : TimerExpires(e)
    \/ \E m \in wire : Lose(m)

Spec == Init /\ [][Next]_vars

\* The peer's request, as it is repeated, arrives at e.
RequestArrives(e) ==
    \E m \in wire, ok \in BOOLEAN :
        m = Reconf(Other(e), as[Other(e)].strReset) /\ RecvReconf(e, m, ok, FALSE)

\* An answer to the request e waits for arrives.
AnswerArrives(e) ==
    \E m \in wire, ok \in BOOLEAN :
        /\ ~IsData(m) /\ \E i \in 1..Len(m.params) :
               m.params[i].type = "RESP" /\ m.params[i].seq = as[e].seqOut
        /\ RecvReconf(e, m, ok, FALSE)

\* The timer thread serves what expires, and the network delivers in the end
\* what is sent again and again.
Fairness ==
    \A e \in Ends : /\ WF_vars(TimerExpires(e))
                    /\ WF_vars(RequestArrives(e))
                    /\ WF_vars(AnswerArrives(e))

LiveSpec == Spec /\ Fairness

-----------------------------------------------------------------------------
(* Properties. *)

Waiting(e) ==
    {m \in wire : IsData(m) /\ m.to = e} \cup as[e].pending
        \cup UNION {as[e].inqueue[s] : s \in Streams}

\* A stream is delivered in the order it was sent in, across resets: although
\* SSNs start again and chunks arrive in any order, the TSNs a reader gets from
\* a stream increase, and none that is still on its way, queued or behind a
\* reset was sent before one already read (sctp_queue_data_to_stream,
\* resetHead and pending_reply_queue).
InOrder ==
    \A e \in Ends : \A i \in 1..Len(as[e].read) :
        LET c == as[e].read[i]
        IN /\ \A j \in 1..(i - 1) :
                 as[e].read[j].strm = c.strm => as[e].read[j].tsn < c.tsn
           /\ \A d \in Waiting(e) : d.strm = c.strm => d.tsn > c.tsn

\* What an endpoint takes for done, its peer did, however often requests and
\* answers were lost, repeated or overtaken: an outgoing reset that starts the
\* SSNs again was accepted as it was asked for, and no endpoint may send on a
\* stream that its peer has not opened (sctp_handle_stream_reset_response and
\* the results remembered in last_reset_action).
PerformedAtPeer ==
    \A e \in Ends : /\ as[e].did \subseteq as[Other(e)].took
                    /\ as[e].outcnt <= as[Other(e)].incnt

\* A request, which stops all sending of data, is answered in the end or the
\* association given up, even if chunks are lost (the STRRESET timer).  An
\* endpoint whose peer may ask for its outgoing reset is excepted: that request
\* goes out without a timer.
ResetEnds ==
    \A e \in Ends : use.resets[Other(e)] \cap {"in", "both"} = {} =>
        (as[e].outstanding > 0 ~> as[e].outstanding = 0 \/ over # "no")
=============================================================================

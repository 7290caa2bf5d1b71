------------------------- MODULE SctpStrResetProofs -------------------------
(***************************************************************************)
(* What the run of SctpStrReset shows for its users holds for any users,   *)
(* any number of requests, messages and streams, and any losses, as far as *)
(* the code can keep it.  LinkInv relates the two endpoints and the        *)
(* RE-CONFIG chunks between them, OrdInv the sender and the receiver of    *)
(* the data and its chunks.                                                *)
(*                                                                         *)
(* Two things have to be excluded, after which PerformedAtPeer fails.      *)
(* Alone: the number of an outgoing reset in an answer may be that of a    *)
(* request still outstanding (sctp_handle_str_reset_request_in).           *)
(* NamesNoDenied: an outgoing reset of the user names the last request of  *)
(* the peer, which takes that for its success (sctp_handle_stream_reset).  *)
(* PlainHolds shows that neither happens to users who ask for outgoing     *)
(* streams only, with no denial or with a peer that asks for nothing.      *)
(***************************************************************************)
EXTENDS SctpStrReset, WellFoundedInduction, FiniteSetTheorems, SequenceTheorems, TLAPS

-----------------------------------------------------------------------------
(* The two endpoints; the largest number of a set; a function that runs on. *)

LEMMA TwoEnds ==
  ASSUME NEW e \in Ends
  PROVE  /\ Other(e) \in Ends /\ Other(e) # e /\ Other(Other(e)) = e
         /\ \A f \in Ends : f = e \/ f = Other(e)
<1>1. IsFiniteSet(Ends \ {e}) /\ Cardinality(Ends \ {e}) = 1
  BY StrResetAssumption, FS_RemoveElement
<1>2. PICK f : Ends \ {e} = {f}
  BY <1>1, FS_Singleton
<1>3. f \in Ends /\ f # e /\ \A g \in Ends : g = e \/ g = f
  BY <1>2
<1>4. Other(e) = f
  BY <1>3 DEF Other
<1>5. Other(f) = e
  BY <1>3 DEF Other
<1> QED
  BY <1>3, <1>4, <1>5

\* Induction up to a limit, over the numbers of a set.
LEMMA UpTo ==
  ASSUME NEW k \in Nat, NEW S, 0 \in S,
         \A t \in 1..k : t - 1 \in S => t \in S
  PROVE  \A t \in 0..k : t \in S
<1> DEFINE R == {t \in 0..k : t \notin S}
<1>1. SUFFICES ASSUME R # {} PROVE FALSE
  OBVIOUS
<1>2. R \subseteq Nat
  OBVIOUS
<1>3. PICK t \in R : \A u \in R : ~(<<u, t>> \in OpToRel(<, Nat))
  BY <1>1, <1>2, NatLessThanWellFounded, WFMin
<1>4. \A u \in R : ~(u < t)
  BY <1>2, <1>3 DEF OpToRel
<1>5. t \in 1..k /\ t - 1 \in 0..k /\ t - 1 < t
  <2>1. t \in 0..k /\ t \notin S
    BY <1>3
  <2>2. t # 0
    BY <2>1
  <2> QED
    BY <2>1, <2>2
<1>6. t - 1 \in S
  BY <1>4, <1>5
<1> QED
  BY <1>5, <1>6, <1>3

\* A set of numbers up to a limit has a largest one.
LEMMA Largest ==
  ASSUME NEW k \in Nat, NEW S \in SUBSET (0..k), S # {}
  PROVE  \E g \in S : \A h \in S : h <= g
<1> DEFINE R == {k - g : g \in S}
<1>1. R \subseteq Nat /\ R # {}
  <2>1. PICK g \in S : TRUE
    OBVIOUS
  <2>2. k - g \in R
    OBVIOUS
  <2>3. \A h \in S : k - h \in Nat
    OBVIOUS
  <2> QED
    BY <2>2, <2>3
<1>2. PICK d \in R : \A e \in R : ~(<<e, d>> \in OpToRel(<, Nat))
  BY <1>1, NatLessThanWellFounded, WFMin
<1>3. \A e \in R : ~(e < d)
  BY <1>1, <1>2 DEF OpToRel
<1>4. PICK g \in S : d = k - g
  OBVIOUS
<1>5. ASSUME NEW h \in S PROVE h <= g
  <2>1. k - h \in R /\ h \in 0..k /\ g \in 0..k
    OBVIOUS
  <2> QED
    BY <1>3, <1>4, <2>1
<1> QED
  BY <1>5

\* The state after the chunk with TSN t of S, from b, the one before it.
QueueOne(b, s, S, t) ==
    IF \E c \in S : c.tsn = t THEN QueueToStream(b, s, CHOOSE c \in S : c.tsn = t) ELSE b

\* What QueueAll goes through.
Goes(g, k, a, s, S) == g = [t \in 0..k |-> IF t = 0 THEN a ELSE QueueOne(g[t - 1], s, S, t)]

LEMMA GoesOn ==
  ASSUME NEW a, NEW s, NEW S, NEW k \in Nat
  PROVE  \E g : Goes(g, k, a, s, S)
<1> DEFINE R == {j \in Nat : \E g : Goes(g, j, a, s, S)}
<1>1. 0 \in R
  <2> DEFINE g == [t \in 0..0 |-> a]
  <2>1. g = [t \in 0..0 |-> IF t = 0 THEN a ELSE QueueOne(g[t - 1], s, S, t)]
    OBVIOUS
  <2>2. Goes(g, 0, a, s, S)
    BY <2>1 DEF Goes
  <2> QED
    BY <2>2
<1>2. ASSUME NEW j \in 1..k, j - 1 \in R PROVE j \in R
  <2>1. PICK g : Goes(g, j - 1, a, s, S)
    BY <1>2
  <2> DEFINE h == [t \in 0..j |-> IF t = j THEN QueueOne(g[j - 1], s, S, j) ELSE g[t]]
  <2>2. \A t \in 0..(j - 1) : g[t] = IF t = 0 THEN a ELSE QueueOne(g[t - 1], s, S, t)
    BY <2>1 DEF Goes
  <2>3. ASSUME NEW t \in 0..j PROVE h[t] = IF t = 0 THEN a ELSE QueueOne(h[t - 1], s, S, t)
    <3>1. CASE t = j
      <4>1. h[t] = QueueOne(g[j - 1], s, S, j) /\ h[j - 1] = g[j - 1]
        BY <3>1
      <4> QED
        BY <3>1, <4>1
    <3>2. CASE t # j
      <4>1. t \in 0..(j - 1) /\ h[t] = g[t] /\ (t # 0 => h[t - 1] = g[t - 1])
        BY <3>2
      <4> QED
        BY <4>1, <2>2
    <3> QED
      BY <3>1, <3>2
  <2>4. h = [t \in 0..j |-> IF t = 0 THEN a ELSE QueueOne(h[t - 1], s, S, t)]
    <3> HIDE DEF h
    <3>1. h = [t \in 0..j |-> h[t]]
      BY DEF h
    <3> QED
      BY <2>3, <3>1
  <2>5. Goes(h, j, a, s, S)
    BY <2>4 DEF Goes
  <2> QED
    BY <2>5
<1>3. k \in R
  <2> HIDE DEF R
  <2> QED
    BY <1>1, <1>2, UpTo
<1> QED
  BY <1>3

LEMMA QueueAllGoes ==
  ASSUME NEW a, NEW s, NEW S
  PROVE  \E g : /\ QueueAll(a, s, S) = g[MaxTsn] /\ g[0] = a
                /\ \A t \in 1..MaxTsn : g[t] = QueueOne(g[t - 1], s, S, t)
<1> DEFINE q == CHOOSE g : Goes(g, MaxTsn, a, s, S)
<1>1. MaxTsn \in Nat
  BY StrResetAssumption
<1>2. Goes(q, MaxTsn, a, s, S)
  BY <1>1, GoesOn
<1>3. QueueAll(a, s, S) = q[MaxTsn]
  BY DEF QueueAll, Goes, QueueOne
<1>4. q[0] = a /\ \A t \in 1..MaxTsn : q[t] = QueueOne(q[t - 1], s, S, t)
  <2> HIDE DEF q
  <2> QED
    BY <1>1, <1>2 DEF Goes
<1> QED
  BY <1>3, <1>4

-----------------------------------------------------------------------------
(* Data changes nothing of the requests and answers. *)

Fields == {"seqOut", "seqIn", "actions", "outstanding", "outIs", "strReset", "timer", "adding",
           "outcnt", "incnt", "tsn", "next", "cum", "got", "last", "inqueue", "resetHead",
           "pending", "read", "bad", "did", "took", "reply", "more"}

\* b differs from a in the receiver's part only.
SameControl(a, b) ==
    /\ DOMAIN b = Fields
    /\ b.seqOut = a.seqOut /\ b.seqIn = a.seqIn /\ b.actions = a.actions
    /\ b.outstanding = a.outstanding /\ b.outIs = a.outIs /\ b.strReset = a.strReset
    /\ b.timer = a.timer /\ b.adding = a.adding /\ b.outcnt = a.outcnt /\ b.incnt = a.incnt
    /\ b.tsn = a.tsn /\ b.next = a.next /\ b.did = a.did /\ b.took = a.took
    /\ b.reply = a.reply /\ b.more = a.more

LEMMA SameControlTrans ==
  ASSUME NEW a, NEW b, NEW c, SameControl(a, b), SameControl(b, c)
  PROVE  SameControl(a, c)
  BY DEF SameControl

LEMMA QueueToStreamControl ==
  ASSUME NEW a, DOMAIN a = Fields, NEW s, NEW c
  PROVE  SameControl(a, QueueToStream(a, s, c))
  BY DEF QueueToStream, SameControl, Fields

LEMMA QueueAllControl ==
  ASSUME NEW a, DOMAIN a = Fields, NEW s, NEW S
  PROVE  SameControl(a, QueueAll(a, s, S))
<1>0. MaxTsn \in Nat
  BY StrResetAssumption
<1>1. PICK g : /\ QueueAll(a, s, S) = g[MaxTsn] /\ g[0] = a
               /\ \A t \in 1..MaxTsn : g[t] = QueueOne(g[t - 1], s, S, t)
  BY QueueAllGoes
<1> DEFINE R == {t \in 0..MaxTsn : SameControl(a, g[t])}
<1>2. 0 \in R
  BY <1>0, <1>1 DEF SameControl
<1>3. ASSUME NEW t \in 1..MaxTsn, t - 1 \in R PROVE t \in R
  <2>1. SameControl(a, g[t - 1]) /\ DOMAIN g[t - 1] = Fields
    BY <1>3 DEF SameControl
  <2>2. SameControl(g[t - 1], g[t])
    <3>1. CASE \E c \in S : c.tsn = t
      BY <3>1, <2>1, <1>1, QueueToStreamControl DEF QueueOne
    <3>2. CASE ~\E c \in S : c.tsn = t
      BY <3>2, <2>1, <1>1 DEF QueueOne, SameControl
    <3> QED
      BY <3>1, <3>2
  <2>3. SameControl(a, g[t])
    BY <2>1, <2>2, SameControlTrans
  <2> QED
    BY <2>3, <1>0
<1>4. MaxTsn \in R
  <2> HIDE DEF R
  <2> QED
    BY <1>0, <1>2, <1>3, UpTo
<1> QED
  BY <1>1, <1>4

LEMMA ServeResetControl ==
  ASSUME NEW a, DOMAIN a = Fields, NEW s
  PROVE  SameControl(a, ServeReset(a, s))
<1>1. CASE a.bad \/ a.resetHead = <<>> \/ a.cum < a.resetHead[1].tsn
  BY <1>1 DEF ServeReset, SameControl
<1>2. CASE ~(a.bad \/ a.resetHead = <<>> \/ a.cum < a.resetHead[1].tsn)
  <2> DEFINE b == [ResetInStream(a, a.resetHead[1].list) EXCEPT !.resetHead = Tail(@)]
             free == {c \in b.pending : b.resetHead = <<>> \/ c.tsn <= b.resetHead[1].tsn}
             d == [b EXCEPT !.pending = @ \ free]
  <2>1. SameControl(a, b)
    BY DEF ResetInStream, SameControl, Fields
  <2>2. ServeReset(a, s) = QueueAll(d, s, free)
    BY <1>2 DEF ServeReset
  <2> HIDE DEF free, b
  <2>3. SameControl(b, d)
    BY <2>1 DEF SameControl, Fields
  <2> HIDE DEF d
  <2>4. SameControl(d, QueueAll(d, s, free))
    BY <2>3, QueueAllControl DEF SameControl
  <2> QED
    BY <2>1, <2>2, <2>3, <2>4, SameControlTrans
<1> QED
  BY <1>1, <1>2

LEMMA PlaceControl ==
  ASSUME NEW a, DOMAIN a = Fields, NEW c
  PROVE  SameControl(a, Place(a, c))
<1> DEFINE b == [a EXCEPT !.got = @ \cup {c.tsn}]
<1>1. SameControl(a, b)
  BY DEF SameControl, Fields
<1> DEFINE d == [b EXCEPT !.pending = @ \cup {c}]
           x == [a EXCEPT !.bad = TRUE]
           q == QueueToStream(b, c.strm, c)
<1>5. Place(a, c) = x \/ Place(a, c) = d \/ Place(a, c) = q
  BY DEF Place
<1>3. SameControl(a, d)
  BY DEF SameControl, Fields
<1>4. SameControl(a, x)
  BY DEF SameControl, Fields
<1> HIDE DEF b
<1>2. SameControl(b, q)
  BY <1>1, QueueToStreamControl DEF SameControl
<1> HIDE DEF d, x, q
<1> QED
  BY <1>1, <1>2, <1>3, <1>4, <1>5, SameControlTrans

LEMMA ProcessDataControl ==
  ASSUME NEW a, DOMAIN a = Fields, NEW c
  PROVE  SameControl(a, ProcessData(a, c))
<1>1. ASSUME NEW b, SameControl(a, b) PROVE SameControl(a, Slide(b))
  BY <1>1 DEF Slide, SameControl, Fields
<1>2. CASE c.strm >= a.incnt
  <2>1. SameControl(a, [a EXCEPT !.got = @ \cup {c.tsn}])
    BY DEF SameControl, Fields
  <2> QED
    BY <1>1, <1>2, <2>1 DEF ProcessData
<1>3. CASE ~(c.strm >= a.incnt)
  <2> DEFINE p == Place(a, c)
             q == CumStep(p, c)
             r == ServeReset(q, c.strm)
  <2>1. SameControl(a, p)
    BY PlaceControl
  <2> HIDE DEF p
  <2>2. SameControl(p, q)
    BY <2>1 DEF CumStep, SameControl, Fields
  <2> HIDE DEF q
  <2>3. SameControl(q, r)
    BY <2>2, ServeResetControl DEF SameControl
  <2> HIDE DEF r
  <2>4. SameControl(a, r)
    BY <2>1, <2>2, <2>3, SameControlTrans
  <2>5. ProcessData(a, c) = Slide(r)
    BY <1>3 DEF ProcessData, p, q, r
  <2> QED
    BY <1>1, <2>4, <2>5
<1> QED
  BY <1>2, <1>3

-----------------------------------------------------------------------------
(* Parameters of a RE-CONFIG chunk, and one direction of the link: a asks, *)
(* b answers; A and B are what they have sent, of which some is under way. *)

Outcome == {"none", "performed", "denied", "inprogress", "badseq"}

Param == [type : {"OUT"}, seq : Int, resp : Int, tsn : Int, list : SUBSET Nat]
           \cup [type : {"IN"}, seq : Int, list : SUBSET Nat]
           \cup [type : {"ADDO", "ADDI"}, seq : Int, num : Nat]
           \cup [type : {"RESP"}, seq : Int, result : Outcome]

IsReq(p) == p.type # "RESP"

LEMMA ParamFacts ==
  ASSUME NEW p \in Param
  PROVE  /\ p.type \in {"OUT", "IN", "ADDO", "ADDI", "RESP"} /\ p.seq \in Int
         /\ p.type = "OUT" => p.resp \in Int /\ p.tsn \in Int /\ p.list \in SUBSET Nat
         /\ p.type = "IN" => p.list \in SUBSET Nat
         /\ p.type \in {"ADDO", "ADDI"} => p.num \in Nat
         /\ p.type = "RESP" => p.result \in Outcome
  BY DEF Param

LEMMA MakeParam ==
  ASSUME NEW n \in Int
  PROVE  /\ \A r, t \in Int, l \in SUBSET Nat : OutReq(n, r, t, l) \in Param
         /\ \A l \in SUBSET Nat : InReq(n, l) \in Param
         /\ \A k \in Nat : AddOut(n, k) \in Param /\ AddIn(n, k) \in Param
         /\ \A r \in Outcome : Response(n, r) \in Param
  BY DEF Param, OutReq, InReq, AddOut, AddIn, Response

IsAssoc(a) ==
    /\ DOMAIN a = Fields
    /\ a.seqOut \in Int /\ a.seqIn \in Int /\ a.outstanding \in Int /\ a.tsn \in Int
    /\ a.strReset \in Seq(Param) /\ a.reply \in Seq(Param) /\ a.more \in Seq(Param)
    /\ a.outIs \in BOOLEAN /\ a.adding \in Nat
    /\ a.outcnt \in Nat /\ a.incnt \in Nat
    /\ a.actions[1] \in Outcome /\ a.actions[2] \in Outcome

LEMMA FoundSame ==
  ASSUME NEW a, NEW b, b.strReset = a.strReset, NEW n
  PROVE  Found(b, n) = Found(a, n) /\ FirstFound(b, n) = FirstFound(a, n)
<1>1. Found(b, n) = Found(a, n)
  BY DEF Found
<1> QED
  BY <1>1 DEF FirstFound

\* The first position that is found, where any is.
LEMMA FoundFirst ==
  ASSUME NEW a, IsAssoc(a), NEW n \in Int, Found(a, n) # {}
  PROVE  /\ FirstFound(a, n) \in Param /\ FirstFound(a, n).seq = n
         /\ \E i \in Found(a, n) : /\ FirstFound(a, n) = a.strReset[i]
                                   /\ \A k \in Found(a, n) : i <= k
<1>1. Found(a, n) \subseteq {1, 2}
  BY DEF Found, IsAssoc, MaxParams
<1>2. \E i \in Found(a, n) : \A k \in Found(a, n) : i <= k
  <2>1. CASE 1 \in Found(a, n)
    BY <1>1, <2>1
  <2>2. CASE 1 \notin Found(a, n)
    BY <1>1, <2>2
  <2> QED
    BY <2>1, <2>2
<1> DEFINE j == CHOOSE i \in Found(a, n) : \A k \in Found(a, n) : i <= k
<1>3. j \in Found(a, n) /\ \A k \in Found(a, n) : j <= k
  BY <1>2
<1>4. FirstFound(a, n) = a.strReset[j]
  BY DEF FirstFound
<1> HIDE DEF j
<1>5. j \in 1..Len(a.strReset) /\ a.strReset[j].seq = n
  BY <1>3 DEF Found
<1>6. a.strReset[j] \in Param
  BY <1>5 DEF IsAssoc
<1> QED
  BY <1>3, <1>4, <1>5, <1>6

\* An index is the first if no earlier one is found.
LEMMA FirstIs ==
  ASSUME NEW a, IsAssoc(a), NEW n \in Int, NEW i \in Found(a, n),
         \A k \in Found(a, n) : i <= k
  PROVE  FirstFound(a, n) = a.strReset[i]
<1>1. PICK j \in Found(a, n) : /\ FirstFound(a, n) = a.strReset[j]
                               /\ \A k \in Found(a, n) : j <= k
  BY FoundFirst
<1>2. i \in Int /\ j \in Int
  BY DEF Found, IsAssoc
<1> QED
  BY <1>1, <1>2

-----------------------------------------------------------------------------
\* The numbers a waits for, and the result b remembers of one.
Window(a) == a.seqOut..(a.seqOut + a.outstanding - 1)
Remembered(b, n) == b.actions[b.seqIn - n]

\* What a waits for is in its chunk.
Asked(a) ==
    /\ a.outstanding \in 0..2
    /\ \A n \in Window(a) : Found(a, n) # {} /\ IsReq(FirstFound(a, n))

\* A second request has no effect at a, and streams it adds are counted.
SecondIn(a) ==
    \A n \in Window(a) :
        /\ n > a.seqOut => FirstFound(a, n).type \in {"IN", "ADDI"}
        /\ FirstFound(a, n).type = "ADDO" => a.adding = FirstFound(a, n).num

\* stream_reset_out_is_outstanding: the first request is the reset.
OutIsFirst(a) == a.outIs => a.outstanding > 0 /\ FirstFound(a, a.seqOut).type = "OUT"

\* The requests under way are old ones or those a waits for.
OwnRequests(a, A) ==
    \A p \in A : IsReq(p) =>
        /\ p.seq < a.seqOut + a.outstanding
        /\ p.seq >= a.seqOut => p = FirstFound(a, p.seq)

\* b has answered some of what a waits for, and nothing else.
InStep(a, b) == b.seqIn \in a.seqOut..(a.seqOut + a.outstanding)

\* Answers under way that a still looks at are what b remembers.
TrueAnswers(a, b, B) ==
    \A p \in B : ~IsReq(p) =>
        /\ p.seq < b.seqIn
        /\ p.seq >= a.seqOut => p.result = Remembered(b, p.seq)

\* A request of a that an outgoing reset of b names was not denied.
TrueNames(a, b, B) ==
    \A p \in B : p.type = "OUT" =>
        /\ p.resp < b.seqIn
        /\ p.resp >= a.seqOut => Remembered(b, p.resp) # "denied"

\* What b remembers of a request it did.
Decided(a, b) ==
    \A n \in a.seqOut..(b.seqIn - 1) :
        /\ Remembered(b, n) \in {"performed", "denied", "inprogress"}
        /\ FirstFound(a, n).type \in {"OUT", "ADDO"} => Remembered(b, n) # "inprogress"
        /\ FirstFound(a, n).type = "OUT" /\ Remembered(b, n) = "performed" =>
               FirstFound(a, n) \in b.took
        /\ FirstFound(a, n).type = "ADDO" /\ Remembered(b, n) = "performed" =>
               a.outcnt + FirstFound(a, n).num <= b.incnt

\* What a has done, b did: PerformedAtPeer for one direction.
Done(a, b) == a.did \subseteq b.took /\ a.outcnt <= b.incnt

\* One direction of the link.
Dir(a, b, A, B) ==
    /\ Asked(a) /\ SecondIn(a) /\ OutIsFirst(a)
    /\ A \subseteq Param /\ B \subseteq Param
    /\ OwnRequests(a, A) /\ InStep(a, b) /\ TrueAnswers(a, b, B) /\ TrueNames(a, b, B)
    /\ Decided(a, b) /\ Done(a, b)

\* The requester's fields and the responder's.
SameAsker(a, c) ==
    /\ c.seqOut = a.seqOut /\ c.outstanding = a.outstanding /\ c.strReset = a.strReset
    /\ c.outIs = a.outIs /\ c.adding = a.adding /\ c.outcnt = a.outcnt /\ c.did = a.did
SameAnswerer(b, c) ==
    c.seqIn = b.seqIn /\ c.actions = b.actions /\ c.took = b.took /\ c.incnt = b.incnt

LEMMA DirSame ==
  ASSUME NEW a, NEW b, NEW A, NEW B, Dir(a, b, A, B),
         NEW c, NEW d, SameAsker(a, c), SameAnswerer(b, d),
         NEW X \in SUBSET A, NEW Y \in SUBSET B
  PROVE  Dir(c, d, X, Y)
<1>1. \A n : Found(c, n) = Found(a, n) /\ FirstFound(c, n) = FirstFound(a, n)
  BY FoundSame DEF SameAsker
<1>2. Window(c) = Window(a) /\ \A n : Remembered(d, n) = Remembered(b, n)
  BY DEF Window, Remembered, SameAsker, SameAnswerer
<1>3. Asked(c)
  BY <1>1, <1>2 DEF Dir, Asked, SameAsker
<1>4. SecondIn(c) /\ OutIsFirst(c)
  BY <1>1, <1>2 DEF Dir, SecondIn, OutIsFirst, SameAsker
<1>5. OwnRequests(c, X) /\ InStep(c, d) /\ Done(c, d)
  BY <1>1 DEF Dir, OwnRequests, InStep, Done, SameAsker, SameAnswerer
<1>6. TrueAnswers(c, d, Y) /\ TrueNames(c, d, Y)
  BY <1>2 DEF Dir, TrueAnswers, TrueNames, SameAsker, SameAnswerer
<1>7. Decided(c, d)
  BY <1>1, <1>2 DEF Dir, Decided, SameAsker, SameAnswerer
<1> QED
  BY <1>3, <1>4, <1>5, <1>6, <1>7 DEF Dir

-----------------------------------------------------------------------------
(* An answer to the first request. *)

\* The fields after the request p, the first a waits for, was answered by r.
AfterAnswer(a, c, p, r) ==
    /\ c.seqOut = a.seqOut + 1 /\ c.outstanding = a.outstanding - 1
    /\ c.outstanding # 0 => c.strReset = a.strReset
    /\ c.outIs = (a.outIs /\ p.type # "OUT")
    /\ c.did = IF p.type = "OUT" /\ r = "performed" THEN a.did \cup {p} ELSE a.did
    /\ c.outcnt = IF p.type = "ADDO" /\ r = "performed" THEN a.outcnt + a.adding ELSE a.outcnt

\* The answer that a may take for its first request.
Fits(a, b, r) ==
    /\ a.outstanding > 0 /\ a.seqOut < b.seqIn
    /\ FirstFound(a, a.seqOut).type \in {"OUT", "ADDO"} =>
          (r = "performed" <=> Remembered(b, a.seqOut) = "performed")

LEMMA AnswerDir ==
  ASSUME NEW a, NEW b, IsAssoc(a), IsAssoc(b), NEW A, NEW B, Dir(a, b, A, B),
         NEW r, Fits(a, b, r), NEW c, AfterAnswer(a, c, FirstFound(a, a.seqOut), r)
  PROVE  Dir(c, b, A, B)
<1> DEFINE p == FirstFound(a, a.seqOut)
<1>0. a.seqOut \in Int /\ a.outstanding \in {1, 2} /\ b.seqIn \in Int /\ a.outcnt \in Nat
      /\ b.incnt \in Nat /\ a.adding \in Nat
  BY DEF Fits, IsAssoc, Dir, Asked
<1>1. a.seqOut \in Window(a) /\ p \in Param /\ p.seq = a.seqOut /\ IsReq(p)
  BY <1>0, FoundFirst DEF Dir, Asked, Window
<1>2. c.outstanding # 0 => /\ c.strReset = a.strReset
                           /\ \A n : Found(c, n) = Found(a, n) /\ FirstFound(c, n) = FirstFound(a, n)
  BY FoundSame DEF AfterAnswer
<1>3. \A n \in Window(c) : n \in Window(a) /\ n = a.seqOut + 1 /\ c.outstanding # 0
  BY <1>0 DEF Window, AfterAnswer
<1>4. Asked(c)
  BY <1>0, <1>2, <1>3 DEF Asked, Dir, AfterAnswer
<1>5. SecondIn(c)
  <2> SUFFICES ASSUME NEW n \in Window(c)
               PROVE  /\ ~(n > c.seqOut) 
                      /\ FirstFound(c, n).type # "ADDO"
    BY DEF SecondIn
  <2>1. n \in Window(a) /\ n > a.seqOut
    BY <1>0, <1>3
  <2>2. FirstFound(a, n).type \in {"IN", "ADDI"}
    BY <2>1 DEF Dir, SecondIn
  <2> QED
    BY <1>0, <1>2, <1>3, <2>2 DEF AfterAnswer
<1>6. OutIsFirst(c)
  <2>1. c.outIs = FALSE
    BY DEF Dir, OutIsFirst, AfterAnswer
  <2> QED
    BY <2>1 DEF OutIsFirst
<1>7. OwnRequests(c, A)
  <2> SUFFICES ASSUME NEW q \in A, IsReq(q)
               PROVE  /\ q.seq < c.seqOut + c.outstanding
                      /\ q.seq >= c.seqOut => q = FirstFound(c, q.seq)
    BY DEF OwnRequests
  <2>1. q.seq \in Int
    BY ParamFacts DEF Dir
  <2>2. q.seq < a.seqOut + a.outstanding /\ (q.seq >= a.seqOut => q = FirstFound(a, q.seq))
    BY DEF Dir, OwnRequests
  <2> QED
    BY <1>0, <1>2, <2>1, <2>2 DEF AfterAnswer
<1>8. InStep(c, b)
  BY <1>0 DEF InStep, Dir, Fits, AfterAnswer
<1>9. TrueAnswers(c, b, B)
  <2> SUFFICES ASSUME NEW q \in B, ~IsReq(q)
               PROVE  q.seq < b.seqIn /\ (q.seq >= c.seqOut => q.result = Remembered(b, q.seq))
    BY DEF TrueAnswers
  <2>1. q.seq \in Int
    BY ParamFacts DEF Dir
  <2> QED
    BY <1>0, <2>1 DEF Dir, TrueAnswers, AfterAnswer
<1>10. TrueNames(c, b, B)
  <2> SUFFICES ASSUME NEW q \in B, q.type = "OUT"
               PROVE  q.resp < b.seqIn /\ (q.resp >= c.seqOut => Remembered(b, q.resp) # "denied")
    BY DEF TrueNames
  <2>1. q.resp \in Int
    BY ParamFacts DEF Dir
  <2> QED
    BY <1>0, <2>1 DEF Dir, TrueNames, AfterAnswer
<1>11. Decided(c, b)
  <2> SUFFICES ASSUME NEW n \in c.seqOut..(b.seqIn - 1)
               PROVE  /\ Remembered(b, n) \in {"performed", "denied", "inprogress"}
                      /\ FirstFound(c, n).type \notin {"OUT", "ADDO"}
    BY DEF Decided
  <2>1. n \in a.seqOut..(b.seqIn - 1) /\ n > a.seqOut /\ n \in Window(a) /\ n \in Window(c)
    BY <1>0 DEF AfterAnswer, Dir, InStep, Window
  <2>2. FirstFound(a, n).type \in {"IN", "ADDI"}
    BY <2>1 DEF Dir, SecondIn
  <2>3. FirstFound(c, n) = FirstFound(a, n)
    BY <2>1, <1>2, <1>3
  <2> QED
    BY <2>1, <2>2, <2>3 DEF Dir, Decided
<1>12. Done(c, b)
  <2>0. a.seqOut \in a.seqOut..(b.seqIn - 1)
    BY <1>0 DEF Fits
  <2>1. p.type = "OUT" /\ r = "performed" => p \in b.took
    BY <2>0 DEF Dir, Decided, Fits
  <2>2. p.type = "ADDO" /\ r = "performed" => a.outcnt + p.num <= b.incnt /\ a.adding = p.num
    BY <1>1, <2>0 DEF Dir, Decided, Fits, SecondIn
  <2> HIDE DEF p
  <2> QED
    BY <2>1, <2>2 DEF Done, Dir, AfterAnswer, p
<1> QED
  BY <1>4, <1>5, <1>6, <1>7, <1>8, <1>9, <1>10, <1>11, <1>12 DEF Dir

-----------------------------------------------------------------------------
\* The receiver's part and what is being answered stay as they are.
SameRest(a, c) ==
    /\ c.seqIn = a.seqIn /\ c.actions = a.actions /\ c.took = a.took /\ c.incnt = a.incnt
    /\ c.reply = a.reply /\ c.more = a.more /\ c.bad = a.bad /\ c.tsn = a.tsn
    /\ c.cum = a.cum /\ c.got = a.got /\ c.last = a.last /\ c.inqueue = a.inqueue
    /\ c.resetHead = a.resetHead /\ c.pending = a.pending /\ c.read = a.read

\* The next SSNs.
AfterNext(a, c, p, r) ==
    c.next = IF p.type = "OUT" /\ r = "performed" THEN ResetOutStreams(a, p.list).next ELSE a.next

LEMMA AnsweredIs ==
  ASSUME NEW a, IsAssoc(a), NEW p \in Param, IsReq(p), NEW r,
         NEW c, c = CleanUp(Answered(a, p, r))
  PROVE  /\ IsAssoc(c) /\ AfterAnswer(a, c, p, r) /\ SameRest(a, c) /\ AfterNext(a, c, p, r)
         /\ c.strReset = IF a.outstanding = 1 THEN <<>> ELSE a.strReset
<1> DEFINE d == Answered(a, p, r)
<1>1. p.type \in {"OUT", "IN", "ADDO", "ADDI"}
  BY ParamFacts DEF IsReq
<1>2. /\ DOMAIN d = Fields /\ d.seqOut = a.seqOut + 1 /\ d.outstanding = a.outstanding - 1
      /\ d.strReset = a.strReset /\ d.outIs = (a.outIs /\ p.type # "OUT")
      /\ d.did = (IF p.type = "OUT" /\ r = "performed" THEN a.did \cup {p} ELSE a.did)
      /\ d.outcnt = (IF p.type = "ADDO" /\ r = "performed" THEN a.outcnt + a.adding ELSE a.outcnt)
      /\ d.adding \in Nat /\ SameRest(a, d) /\ AfterNext(a, d, p, r)
  <2>1. CASE p.type = "OUT"
    <3>1. CASE r = "performed"
      BY <2>1, <3>1 DEF Answered, IsAssoc, Fields, IsReq, SameRest, AfterNext, ResetOutStreams
    <3>2. CASE r # "performed"
      BY <2>1, <3>2 DEF Answered, IsAssoc, Fields, IsReq, SameRest, AfterNext, ResetOutStreams
    <3> QED
      BY <3>1, <3>2
  <2>2. CASE p.type = "ADDO"
    BY <2>2 DEF Answered, IsAssoc, Fields, IsReq, SameRest, AfterNext
  <2>3. CASE p.type \in {"IN", "ADDI"}
    BY <2>3 DEF Answered, IsAssoc, Fields, IsReq, SameRest, AfterNext
  <2> QED
    BY <1>1, <2>1, <2>2, <2>3
<1> HIDE DEF d
<1>3. c = CleanUp(d)
  BY DEF d
<1>4. /\ DOMAIN c = Fields /\ c.seqOut = d.seqOut /\ c.outstanding = d.outstanding
      /\ c.strReset = (IF d.outstanding = 0 THEN <<>> ELSE d.strReset) /\ c.outIs = d.outIs
      /\ c.did = d.did /\ c.outcnt = d.outcnt /\ c.adding = d.adding /\ c.next = d.next
      /\ SameRest(d, c)
  <2>1. CASE d.outstanding = 0
    BY <2>1, <1>2, <1>3 DEF CleanUp, Fields, SameRest
  <2>2. CASE d.outstanding # 0
    BY <2>2, <1>2, <1>3 DEF CleanUp, SameRest
  <2> QED
    BY <2>1, <2>2
<1>5. SameRest(a, c)
  BY <1>2, <1>4 DEF SameRest
<1>6. AfterAnswer(a, c, p, r)
  BY <1>2, <1>4 DEF AfterAnswer
<1>7. AfterNext(a, c, p, r)
  BY <1>2, <1>4 DEF AfterNext
<1>8. c.strReset = IF a.outstanding = 1 THEN <<>> ELSE a.strReset
  BY <1>2, <1>4 DEF IsAssoc
<1>9. <<>> \in Seq(Param)
  OBVIOUS
<1>10. IsAssoc(c)
  BY <1>2, <1>4, <1>5, <1>8, <1>9 DEF IsAssoc, SameRest
<1> QED
  BY <1>5, <1>6, <1>7, <1>8, <1>10

-----------------------------------------------------------------------------
(* The requester takes an answer; the responder gives one. *)

Results == {"performed", "denied", "inprogress"}

LEMMA HandleResponseIs ==
  ASSUME NEW a, IsAssoc(a), Asked(a), NEW n \in Int, NEW r
  PROVE  /\ (a.outstanding = 0 \/ n # a.seqOut) => HandleResponse(a, n, r) = a
         /\ ~(a.outstanding = 0 \/ n # a.seqOut) =>
               /\ HandleResponse(a, n, r) = CleanUp(Answered(a, FirstFound(a, a.seqOut), r))
               /\ FirstFound(a, a.seqOut) \in Param /\ IsReq(FirstFound(a, a.seqOut))
               /\ a.outstanding > 0
<1>1. ASSUME ~(a.outstanding = 0 \/ n # a.seqOut)
      PROVE  /\ HandleResponse(a, n, r) = CleanUp(Answered(a, FirstFound(a, a.seqOut), r))
             /\ FirstFound(a, a.seqOut) \in Param /\ IsReq(FirstFound(a, a.seqOut))
             /\ a.outstanding > 0
  <2>1. a.seqOut \in Window(a) /\ a.seqOut \in Int /\ n = a.seqOut /\ a.outstanding > 0
    BY <1>1 DEF Window, Asked, IsAssoc
  <2>2. Found(a, n) # {} /\ FirstFound(a, n) \in Param /\ IsReq(FirstFound(a, n))
    BY <2>1, FoundFirst DEF Asked
  <2>3. a.strReset # <<>>
    BY <2>2 DEF Found
  <2> QED
    BY <1>1, <2>1, <2>2, <2>3 DEF HandleResponse
<1> QED
  BY <1>1 DEF HandleResponse

\* An answer is given to a new request.
Answers(b, c, p, r) ==
    /\ c.seqIn = b.seqIn + 1 /\ c.actions[1] = r /\ c.actions[2] = b.actions[1]
    /\ b.took \subseteq c.took /\ b.incnt <= c.incnt
    /\ p.type = "OUT" /\ r = "performed" => p \in c.took
    /\ p.type = "ADDO" /\ r = "performed" => b.incnt + p.num <= c.incnt

LEMMA AnswersDir ==
  ASSUME NEW a, NEW b, IsAssoc(a), IsAssoc(b), NEW A, NEW B, Dir(a, b, A, B),
         NEW p \in A, IsReq(p), p.seq = b.seqIn,
         NEW r \in Results, p.type \in {"OUT", "ADDO"} => r # "inprogress",
         NEW c, IsAssoc(c), Answers(b, c, p, r),
         NEW E \in SUBSET Param,
         \A q \in E : /\ ~IsReq(q) => q.seq = p.seq /\ q.result = r
                      /\ q.type = "OUT" => q.resp = p.seq /\ r = "performed"
  PROVE  Dir(a, c, A, B \cup E)
<1>0. /\ a.seqOut \in Int /\ a.outstanding \in 0..2 /\ b.seqIn \in Int
      /\ a.outcnt \in Nat /\ b.incnt \in Nat /\ c.incnt \in Nat
  BY DEF IsAssoc, Dir, Asked
<1>1. p \in Param /\ p.seq \in Int /\ p.seq = b.seqIn
  BY ParamFacts DEF Dir
<1>2. p.seq \in a.seqOut..(a.seqOut + a.outstanding - 1) /\ p = FirstFound(a, p.seq)
  BY <1>0, <1>1 DEF Dir, OwnRequests, InStep
<1>3. c.seqIn = b.seqIn + 1
  BY DEF Answers
<1>4. Remembered(c, p.seq) = r
  BY <1>0, <1>1, <1>3 DEF Remembered, Answers
<1>5. ASSUME NEW n \in a.seqOut..(b.seqIn - 1)
      PROVE  Remembered(c, n) = Remembered(b, n)
  <2>1. n = b.seqIn - 1
    BY <1>0, <1>1, <1>2
  <2>2. b.seqIn - n = 1 /\ c.seqIn - n = 2
    BY <2>1, <1>0, <1>3
  <2> QED
    BY <2>2 DEF Remembered, Answers
<1>6. InStep(a, c)
  BY <1>0, <1>1, <1>2, <1>3 DEF InStep
<1>7. TrueAnswers(a, c, B \cup E)
  <2> SUFFICES ASSUME NEW q \in B \cup E, ~IsReq(q)
               PROVE  q.seq < c.seqIn /\ (q.seq >= a.seqOut => q.result = Remembered(c, q.seq))
    BY DEF TrueAnswers
  <2>0. q \in Param /\ q.seq \in Int
    BY ParamFacts DEF Dir
  <2>1. CASE q \in B
    <3>1. q.seq < b.seqIn /\ (q.seq >= a.seqOut => q.result = Remembered(b, q.seq))
      BY <2>1 DEF Dir, TrueAnswers
    <3>2. q.seq >= a.seqOut => q.seq \in a.seqOut..(b.seqIn - 1)
      BY <1>0, <2>0, <3>1
    <3> QED
      BY <1>0, <1>3, <1>5, <2>0, <3>1, <3>2
  <2>2. CASE q \in E
    BY <2>2, <1>0, <1>1, <1>3, <1>4
  <2> QED
    BY <2>1, <2>2
<1>8. TrueNames(a, c, B \cup E)
  <2> SUFFICES ASSUME NEW q \in B \cup E, q.type = "OUT"
               PROVE  q.resp < c.seqIn /\ (q.resp >= a.seqOut => Remembered(c, q.resp) # "denied")
    BY DEF TrueNames
  <2>0. q \in Param /\ q.resp \in Int
    BY ParamFacts DEF Dir
  <2>1. CASE q \in B
    <3>1. q.resp < b.seqIn /\ (q.resp >= a.seqOut => Remembered(b, q.resp) # "denied")
      BY <2>1 DEF Dir, TrueNames
    <3>2. q.resp >= a.seqOut => q.resp \in a.seqOut..(b.seqIn - 1)
      BY <1>0, <2>0, <3>1
    <3> QED
      BY <1>0, <1>3, <1>5, <2>0, <3>1, <3>2
  <2>2. CASE q \in E
    BY <2>2, <1>0, <1>1, <1>3, <1>4
  <2> QED
    BY <2>1, <2>2
<1>9. Decided(a, c)
  <2> SUFFICES ASSUME NEW n \in a.seqOut..(c.seqIn - 1)
               PROVE  /\ Remembered(c, n) \in {"performed", "denied", "inprogress"}
                      /\ FirstFound(a, n).type \in {"OUT", "ADDO"} => Remembered(c, n) # "inprogress"
                      /\ FirstFound(a, n).type = "OUT" /\ Remembered(c, n) = "performed" =>
                             FirstFound(a, n) \in c.took
                      /\ FirstFound(a, n).type = "ADDO" /\ Remembered(c, n) = "performed" =>
                             a.outcnt + FirstFound(a, n).num <= c.incnt
    BY DEF Decided
  <2>1. CASE n = b.seqIn
    <3>1. Remembered(c, n) = r /\ FirstFound(a, n) = p
      BY <2>1, <1>1, <1>2, <1>4
    <3>2. p.type = "ADDO" => p.num \in Nat
      BY <1>1, ParamFacts
    <3>3. a.outcnt <= b.incnt
      BY DEF Dir, Done
    <3> QED
      BY <3>1, <3>2, <3>3, <1>0 DEF Answers, Results
  <2>2. CASE n # b.seqIn
    <3>1. n \in a.seqOut..(b.seqIn - 1)
      BY <2>2, <1>0, <1>3
    <3>2. Remembered(c, n) = Remembered(b, n)
      BY <3>1, <1>5
    <3>3. n \in Window(a)
      BY <3>1, <1>0, <1>1, <1>2 DEF Window
    <3>4. FirstFound(a, n) \in Param
      BY <3>3, <1>0, FoundFirst DEF Dir, Asked, Window
    <3>5. FirstFound(a, n).type = "ADDO" => FirstFound(a, n).num \in Nat
      BY <3>4, ParamFacts
    <3> QED
      BY <3>1, <3>2, <3>5, <1>0 DEF Dir, Decided, Answers
  <2> QED
    BY <2>1, <2>2
<1>10. Done(a, c)
  BY <1>0 DEF Dir, Done, Answers
<1> QED
  BY <1>6, <1>7, <1>8, <1>9, <1>10 DEF Dir

LEMMA AgainDir ==
  ASSUME NEW a, NEW b, IsAssoc(a), IsAssoc(b), NEW A, NEW B, Dir(a, b, A, B),
         NEW p \in A, p.seq < b.seqIn
  PROVE  Dir(a, b, A, B \cup {Response(p.seq, KnownResult(b, p.seq))})
<1> DEFINE q == Response(p.seq, KnownResult(b, p.seq))
<1>0. a.seqOut \in Int /\ a.outstanding \in 0..2 /\ b.seqIn \in Int /\ p \in Param /\ p.seq \in Int
  BY ParamFacts DEF IsAssoc, Dir, Asked
<1>1. KnownResult(b, p.seq) \in Outcome
  <2>1. \/ KnownResult(b, p.seq) = b.actions[1] \/ KnownResult(b, p.seq) = b.actions[2]
        \/ KnownResult(b, p.seq) = "badseq"
    <3>1. CASE p.seq = b.seqIn - 1
      BY <1>0, <3>1 DEF KnownResult
    <3>2. CASE p.seq = b.seqIn - 2
      BY <1>0, <3>2 DEF KnownResult
    <3>3. CASE p.seq # b.seqIn - 1 /\ p.seq # b.seqIn - 2
      BY <1>0, <3>3 DEF KnownResult
    <3> QED
      BY <3>1, <3>2, <3>3
  <2> QED
    BY <2>1 DEF IsAssoc, Outcome
<1>2. q \in Param /\ q.seq = p.seq /\ q.type = "RESP" /\ q.result = KnownResult(b, p.seq)
  BY <1>0, <1>1, MakeParam DEF Response
<1>3. p.seq >= a.seqOut => KnownResult(b, p.seq) = Remembered(b, p.seq)
  <2>1. CASE p.seq = b.seqIn - 1
    <3>1. b.seqIn - p.seq = 1
      BY <2>1, <1>0
    <3> QED
      BY <1>0, <2>1, <3>1 DEF KnownResult, Remembered
  <2>2. CASE p.seq = b.seqIn - 2
    <3>1. b.seqIn - p.seq = 2 /\ p.seq # b.seqIn - 1
      BY <2>2, <1>0
    <3> QED
      BY <1>0, <2>2, <3>1 DEF KnownResult, Remembered
  <2>3. ASSUME p.seq # b.seqIn - 1, p.seq # b.seqIn - 2 PROVE p.seq < a.seqOut
    BY <2>3, <1>0 DEF Dir, InStep
  <2> QED
    BY <2>1, <2>2, <2>3, <1>0
<1> HIDE DEF q
<1>4. TrueAnswers(a, b, B \cup {q})
  BY <1>2, <1>3 DEF Dir, TrueAnswers
<1>5. TrueNames(a, b, B \cup {q})
  BY <1>2 DEF Dir, TrueNames
<1>6. Dir(a, b, A, B \cup {q})
  BY <1>2, <1>4, <1>5 DEF Dir
<1> QED
  BY <1>6 DEF q

\* A new request goes out.
LEMMA AskDir ==
  ASSUME NEW a, NEW b, IsAssoc(a), IsAssoc(b), NEW A, NEW B, Dir(a, b, A, B), a.outstanding = 0,
         NEW c, IsAssoc(c), c.seqOut = a.seqOut, c.outcnt = a.outcnt, c.did = a.did,
         Asked(c), SecondIn(c), OutIsFirst(c),
         NEW E \in SUBSET Param,
         \A q \in E : IsReq(q) => q.seq \in Window(c) /\ q = FirstFound(c, q.seq)
  PROVE  Dir(c, b, A \cup E, B)
<1>0. a.seqOut \in Int /\ c.outstanding \in 0..2 /\ b.seqIn = a.seqOut
  <2>1. a.seqOut \in Int /\ c.outstanding \in 0..2 /\ b.seqIn \in a.seqOut..(a.seqOut + 0)
    BY DEF IsAssoc, Dir, Asked, InStep
  <2> QED
    BY <2>1
<1>1. InStep(c, b) /\ Done(c, b) /\ Decided(c, b)
  BY <1>0 DEF Dir, InStep, Done, Decided
<1>2. TrueAnswers(c, b, B) /\ TrueNames(c, b, B)
  BY DEF Dir, TrueAnswers, TrueNames
<1>3. OwnRequests(c, A \cup E)
  <2> SUFFICES ASSUME NEW q \in A \cup E, IsReq(q)
               PROVE  /\ q.seq < c.seqOut + c.outstanding
                      /\ q.seq >= c.seqOut => q = FirstFound(c, q.seq)
    BY DEF OwnRequests
  <2>0. q \in Param /\ q.seq \in Int
    BY ParamFacts DEF Dir
  <2>1. CASE q \in A
    BY <2>0, <2>1, <1>0 DEF Dir, OwnRequests
  <2>2. CASE q \in E
    BY <2>0, <2>2, <1>0 DEF Window
  <2> QED
    BY <2>1, <2>2
<1> QED
  BY <1>1, <1>2, <1>3 DEF Dir

LEMMA AskNames ==
  ASSUME NEW a, NEW b, IsAssoc(a), IsAssoc(b), NEW A, NEW B, Dir(a, b, A, B),
         NEW E \in SUBSET Param,
         \A q \in E : /\ IsReq(q)
                      /\ q.type = "OUT" => /\ q.resp = b.seqIn - 1
                                           /\ b.actions[1] # "denied" \/ a.outstanding = 0
  PROVE  Dir(a, b, A, B \cup E)
<1>0. a.seqOut \in Int /\ a.outstanding \in 0..2 /\ b.seqIn \in Int
  BY DEF IsAssoc, Dir, Asked
<1>1. TrueAnswers(a, b, B \cup E)
  BY DEF Dir, TrueAnswers
<1>2. TrueNames(a, b, B \cup E)
  <2> SUFFICES ASSUME NEW q \in E, q.type = "OUT"
               PROVE  q.resp < b.seqIn /\ (q.resp >= a.seqOut => Remembered(b, q.resp) # "denied")
    BY DEF Dir, TrueNames
  <2>1. q.resp = b.seqIn - 1 /\ b.seqIn - q.resp = 1
    BY <1>0
  <2>2. a.outstanding = 0 => b.seqIn = a.seqOut
    BY <1>0 DEF Dir, InStep
  <2> QED
    BY <1>0, <2>1, <2>2 DEF Remembered
<1> QED
  BY <1>1, <1>2 DEF Dir

-----------------------------------------------------------------------------
(* The responder, handler by handler: what it changes. *)

SameSend(a, c) == c.next = a.next /\ c.tsn = a.tsn
SameData(a, c) ==
    /\ c.cum = a.cum /\ c.got = a.got /\ c.last = a.last /\ c.inqueue = a.inqueue
    /\ c.resetHead = a.resetHead /\ c.pending = a.pending /\ c.read = a.read

\* c has answered p by r; E are the parameters of the answer.
Gave(a, c, p, r, E) ==
    /\ c.seqIn = a.seqIn + 1 /\ c.actions[1] = r /\ c.actions[2] = a.actions[1]
    /\ c.reply = a.reply \o E

LEMMA ReplyType ==
  ASSUME NEW a, IsAssoc(a), NEW q \in Param
  PROVE  <<q>> \in Seq(Param) /\ a.reply \o <<q>> \in Seq(Param)
<1>1. <<q>> \in Seq(Param)
  OBVIOUS
<1> QED
  BY <1>1 DEF IsAssoc

LEMMA ResultIs ==
  ASSUME NEW a, IsAssoc(a), NEW p \in Param, NEW r \in Outcome, NEW c, c = Result(a, p, r)
  PROVE  /\ IsAssoc(c) /\ SameAsker(a, c) /\ SameSend(a, c) /\ SameData(a, c)
         /\ c.bad = a.bad /\ c.more = a.more /\ c.took = a.took /\ c.incnt = a.incnt
         /\ Gave(a, c, p, r, <<Response(p.seq, r)>>)
<1> DEFINE q == Response(p.seq, r)
<1>1. q \in Param
  BY MakeParam, ParamFacts
<1> HIDE DEF q
<1>2. <<q>> \in Seq(Param) /\ a.reply \o <<q>> \in Seq(Param)
  BY <1>1, ReplyType
<1>3. c = [a EXCEPT !.actions = <<r, @[1]>>, !.seqIn = @ + 1, !.reply = @ \o <<q>>]
  BY DEF Result, Reply, IsAssoc, Fields, q
<1>4. /\ SameAsker(a, c) /\ SameSend(a, c) /\ SameData(a, c)
      /\ c.bad = a.bad /\ c.more = a.more /\ c.took = a.took /\ c.incnt = a.incnt
      /\ Gave(a, c, p, r, <<q>>) /\ DOMAIN c = Fields
  BY <1>3 DEF IsAssoc, Fields, SameAsker, SameSend, SameData, Gave
<1>5. IsAssoc(c)
  BY <1>2, <1>4 DEF IsAssoc, SameAsker, SameSend, Gave
<1> QED
  BY <1>4, <1>5 DEF q

LEMMA RepeatIs ==
  ASSUME NEW a, IsAssoc(a), NEW p \in Param, NEW c, c = Repeat(a, p)
  PROVE  /\ IsAssoc(c) /\ SameAsker(a, c) /\ SameSend(a, c) /\ SameData(a, c)
         /\ SameAnswerer(a, c) /\ c.bad = a.bad /\ c.more = a.more
         /\ c.reply = a.reply \o <<Response(p.seq, KnownResult(a, p.seq))>>
         /\ Response(p.seq, KnownResult(a, p.seq)) \in Param
<1>0. p.seq \in Int /\ a.seqIn \in Int
  BY ParamFacts DEF IsAssoc
<1>1. KnownResult(a, p.seq) \in Outcome
  <2>1. \/ KnownResult(a, p.seq) = a.actions[1] \/ KnownResult(a, p.seq) = a.actions[2]
        \/ KnownResult(a, p.seq) = "badseq"
    <3>1. CASE p.seq = a.seqIn - 1
      BY <1>0, <3>1 DEF KnownResult
    <3>2. CASE p.seq = a.seqIn - 2
      BY <1>0, <3>2 DEF KnownResult
    <3>3. CASE p.seq # a.seqIn - 1 /\ p.seq # a.seqIn - 2
      BY <1>0, <3>3 DEF KnownResult
    <3> QED
      BY <3>1, <3>2, <3>3
  <2> QED
    BY <2>1 DEF IsAssoc, Outcome
<1> DEFINE q == Response(p.seq, KnownResult(a, p.seq))
<1>2. q \in Param
  BY <1>0, <1>1, MakeParam
<1>3. c = [a EXCEPT !.reply = @ \o <<q>>]
  BY DEF Repeat, Reply
<1> HIDE DEF q
<1>4. <<q>> \in Seq(Param) /\ a.reply \o <<q>> \in Seq(Param)
  BY <1>2, ReplyType
<1>5. /\ SameAsker(a, c) /\ SameSend(a, c) /\ SameData(a, c) /\ SameAnswerer(a, c)
      /\ c.bad = a.bad /\ c.more = a.more /\ c.reply = a.reply \o <<q>> /\ DOMAIN c = Fields
  BY <1>3 DEF IsAssoc, Fields, SameAsker, SameSend, SameData, SameAnswerer
<1>6. IsAssoc(c)
  BY <1>4, <1>5 DEF IsAssoc, SameAsker, SameSend, SameAnswerer
<1> QED
  BY <1>2, <1>5, <1>6 DEF q

\* The receiver's part after an outgoing reset was accepted.
Accepts(a, c, p) ==
    /\ c.took = a.took \cup {p}
    /\ c.cum = a.cum /\ c.got = a.got /\ c.inqueue = a.inqueue /\ c.pending = a.pending
    /\ c.read = a.read
    /\ IF a.cum >= p.tsn
       THEN c.last = ResetInStream(a, p.list).last /\ c.resetHead = a.resetHead
       ELSE /\ c.last = a.last
            /\ c.resetHead = Append(a.resetHead, [tsn |-> p.tsn, list |-> p.list])

LEMMA RequestOutIs ==
  ASSUME NEW a, IsAssoc(a), NEW p \in Param, NEW ok \in BOOLEAN, NEW c, c = RequestOut(a, p, ok)
  PROVE  /\ IsAssoc(c) /\ SameAsker(a, c) /\ SameSend(a, c)
         /\ c.bad = a.bad /\ c.more = a.more /\ c.incnt = a.incnt
         /\ \/ ok /\ Gave(a, c, p, "performed", <<Response(p.seq, "performed")>>) /\ Accepts(a, c, p)
            \/ /\ ~ok /\ Gave(a, c, p, "denied", <<Response(p.seq, "denied")>>)
               /\ SameData(a, c) /\ c.took = a.took
<1>1. CASE ~ok
  <2>1. c = Result(a, p, "denied") /\ "denied" \in Outcome
    BY <1>1 DEF RequestOut, Outcome
  <2> QED
    BY <1>1, <2>1, ResultIs
<1>2. CASE ok
  <2> DEFINE b == [a EXCEPT !.took = @ \cup {p}]
             h == [tsn |-> p.tsn, list |-> p.list]
             d == IF a.cum >= p.tsn THEN ResetInStream(b, p.list)
                  ELSE [b EXCEPT !.resetHead = Append(@, h)]
  <2>1. c = Result(d, p, "performed") /\ "performed" \in Outcome
    BY <1>2 DEF RequestOut, Outcome
  <2> HIDE DEF h
  <2>2. /\ DOMAIN d = Fields /\ SameAsker(a, d) /\ SameSend(a, d) /\ d.bad = a.bad /\ d.more = a.more
        /\ d.incnt = a.incnt /\ d.seqIn = a.seqIn /\ d.actions = a.actions /\ d.reply = a.reply
        /\ d.took = a.took \cup {p} /\ d.cum = a.cum /\ d.got = a.got /\ d.inqueue = a.inqueue
        /\ d.pending = a.pending /\ d.read = a.read
    <3>1. CASE a.cum >= p.tsn
      BY <3>1 DEF IsAssoc, Fields, SameAsker, SameSend, ResetInStream
    <3>2. CASE ~(a.cum >= p.tsn)
      BY <3>2 DEF IsAssoc, Fields, SameAsker, SameSend
    <3> QED
      BY <3>1, <3>2
  <2>3. a.cum >= p.tsn => d.last = ResetInStream(a, p.list).last /\ d.resetHead = a.resetHead
    BY DEF IsAssoc, Fields, ResetInStream
  <2>4. ~(a.cum >= p.tsn) => d.last = a.last /\ d.resetHead = Append(a.resetHead, h)
    BY DEF IsAssoc, Fields
  <2> HIDE DEF d
  <2>5. IsAssoc(d)
    BY <2>2 DEF IsAssoc, SameAsker, SameSend
  <2>6. /\ IsAssoc(c) /\ SameAsker(d, c) /\ SameSend(d, c) /\ SameData(d, c)
        /\ c.bad = d.bad /\ c.more = d.more /\ c.took = d.took /\ c.incnt = d.incnt
        /\ Gave(d, c, p, "performed", <<Response(p.seq, "performed")>>)
    BY <2>1, <2>5, ResultIs
  <2>7. SameAsker(a, c) /\ SameSend(a, c) /\ c.bad = a.bad /\ c.more = a.more /\ c.incnt = a.incnt
    BY <2>2, <2>6 DEF SameAsker, SameSend
  <2>8. Gave(a, c, p, "performed", <<Response(p.seq, "performed")>>)
    BY <2>2, <2>6 DEF Gave
  <2>9. Accepts(a, c, p)
    BY <2>2, <2>3, <2>4, <2>6 DEF Accepts, SameData, h
  <2> QED
    BY <1>2, <2>6, <2>7, <2>8, <2>9
<1> QED
  BY <1>1, <1>2

\* The endpoint opened the streams, refused to, or stopped on the queued ones.
OpensOrNot(a, c, p) ==
    /\ IsAssoc(c) /\ SameAsker(a, c) /\ SameSend(a, c) /\ SameData(a, c)
    /\ c.took = a.took /\ c.more = a.more
    /\ \/ c.bad = TRUE /\ c.incnt = a.incnt /\ c.seqIn = a.seqIn /\ c.reply = a.reply
       \/ /\ c.bad = a.bad /\ c.incnt = a.incnt + p.num /\ c.incnt <= MaxInbound
          /\ Gave(a, c, p, "performed", <<Response(p.seq, "performed")>>)
       \/ /\ c.bad = a.bad /\ c.incnt = a.incnt
          /\ Gave(a, c, p, "denied", <<Response(p.seq, "denied")>>)

LEMMA RequestAddOutIs ==
  ASSUME NEW a, IsAssoc(a), NEW p \in Param, p.type = "ADDO", NEW ok \in BOOLEAN,
         NEW c, c = RequestAddOut(a, p, ok)
  PROVE  OpensOrNot(a, c, p)
<1> SUFFICES /\ IsAssoc(c) /\ SameAsker(a, c) /\ SameSend(a, c) /\ SameData(a, c)
             /\ c.took = a.took /\ c.more = a.more
             /\ \/ c.bad = TRUE /\ c.incnt = a.incnt /\ c.seqIn = a.seqIn /\ c.reply = a.reply
                \/ /\ c.bad = a.bad /\ c.incnt = a.incnt + p.num /\ c.incnt <= MaxInbound
                   /\ Gave(a, c, p, "performed", <<Response(p.seq, "performed")>>)
                \/ /\ c.bad = a.bad /\ c.incnt = a.incnt
                   /\ Gave(a, c, p, "denied", <<Response(p.seq, "denied")>>)
  BY DEF OpensOrNot
<1>0. p.num \in Nat /\ "denied" \in Outcome /\ "performed" \in Outcome
  BY ParamFacts DEF Outcome
<1>1. CASE ~ok \/ a.incnt + p.num > MaxInbound
  <2>1. c = Result(a, p, "denied")
    BY <1>1 DEF RequestAddOut
  <2> QED
    BY <1>0, <2>1, ResultIs
<1>2. CASE ~(~ok \/ a.incnt + p.num > MaxInbound) /\ \E s \in Streams : a.inqueue[s] # {}
  <2>1. c = [a EXCEPT !.bad = TRUE]
    BY <1>2 DEF RequestAddOut
  <2>2. /\ SameAsker(a, c) /\ SameSend(a, c) /\ SameData(a, c) /\ SameAnswerer(a, c)
        /\ c.reply = a.reply /\ c.more = a.more /\ c.bad = TRUE /\ DOMAIN c = Fields
    BY <2>1 DEF IsAssoc, Fields, SameAsker, SameSend, SameData, SameAnswerer
  <2> QED
    BY <2>2 DEF IsAssoc, SameAsker, SameSend, SameAnswerer
<1>3. CASE ~(~ok \/ a.incnt + p.num > MaxInbound) /\ ~\E s \in Streams : a.inqueue[s] # {}
  <2> DEFINE d == [a EXCEPT !.incnt = @ + p.num]
  <2>1. c = Result(d, p, "performed")
    BY <1>3 DEF RequestAddOut
  <2>2. /\ DOMAIN d = Fields /\ SameAsker(a, d) /\ SameSend(a, d) /\ SameData(a, d) /\ d.bad = a.bad
        /\ d.more = a.more /\ d.took = a.took /\ d.reply = a.reply
        /\ d.incnt = a.incnt + p.num /\ d.seqIn = a.seqIn /\ d.actions = a.actions
    BY DEF IsAssoc, Fields, SameAsker, SameSend, SameData
  <2> HIDE DEF d
  <2>3. IsAssoc(d)
    BY <1>0, <2>2 DEF IsAssoc, SameAsker, SameSend
  <2>4. /\ IsAssoc(c) /\ SameAsker(d, c) /\ SameSend(d, c) /\ SameData(d, c)
        /\ c.bad = d.bad /\ c.more = d.more /\ c.took = d.took /\ c.incnt = d.incnt
        /\ Gave(d, c, p, "performed", <<Response(p.seq, "performed")>>)
    BY <1>0, <2>1, <2>3, ResultIs
  <2>5. SameAsker(a, c) /\ SameSend(a, c) /\ SameData(a, c)
    BY <2>2, <2>4 DEF SameAsker, SameSend, SameData
  <2>6. Gave(a, c, p, "performed", <<Response(p.seq, "performed")>>)
    BY <2>2, <2>4 DEF Gave
  <2>7. c.incnt <= MaxInbound
    BY <1>0, <1>3, <2>2, <2>4, StrResetAssumption DEF IsAssoc
  <2> QED
    BY <2>2, <2>4, <2>5, <2>6, <2>7
<1> QED
  BY <1>1, <1>2, <1>3

-----------------------------------------------------------------------------
(* A new chunk of requests. *)

\* c waits for its first request q; nothing else than the requester's part changed.
SendFields(a, c, ps) ==
    /\ DOMAIN c = Fields /\ c.seqOut = a.seqOut /\ c.outcnt = a.outcnt /\ c.did = a.did
    /\ c.outstanding = Len(ps) /\ c.strReset = ps
    /\ SameSend(a, c) /\ SameData(a, c) /\ SameAnswerer(a, c) /\ c.bad = a.bad
    /\ c.reply = a.reply /\ c.more = a.more
    /\ c.outIs = (a.outIs \/ \E i \in 1..Len(ps) : ps[i].type = "OUT")

LEMMA SendRequestIs ==
  ASSUME NEW a, IsAssoc(a), NEW ps, NEW c, c = SendRequest(a, ps)
  PROVE  SendFields(a, c, ps)
  BY DEF SendRequest, SendFields, IsAssoc, Fields, SameSend, SameData, SameAnswerer

LEMMA SendAdding ==
  ASSUME NEW a, IsAssoc(a), NEW ps \in Seq(Param), NEW c, c = SendRequest(a, ps)
  PROVE  /\ c.adding \in Nat
         /\ \A i \in 1..Len(ps) :
               ps[i].type = "ADDO" /\ (\A j \in 1..Len(ps) : j # i => ps[j].type # "ADDO")
                  => c.adding = ps[i].num
<1> DEFINE m == CHOOSE j \in 1..Len(ps) : ps[j].type = "ADDO"
<1>1. CASE \E i \in 1..Len(ps) : ps[i].type = "ADDO"
  <2>1. c.adding = ps[m].num
    BY <1>1 DEF SendRequest, IsAssoc, Fields
  <2>2. m \in 1..Len(ps) /\ ps[m].type = "ADDO"
    BY <1>1
  <2> HIDE DEF m
  <2>3. ps[m] \in Param /\ ps[m].num \in Nat
    BY <2>2, ParamFacts
  <2> QED
    BY <2>1, <2>2, <2>3
<1>2. CASE ~\E i \in 1..Len(ps) : ps[i].type = "ADDO"
  <2>1. c.adding = a.adding
    BY <1>2 DEF SendRequest, IsAssoc, Fields
  <2> QED
    BY <1>2, <2>1 DEF IsAssoc
<1> QED
  BY <1>1, <1>2

LEMMA SendTyped ==
  ASSUME NEW a, IsAssoc(a), NEW ps \in Seq(Param), NEW c, SendFields(a, c, ps), c.adding \in Nat
  PROVE  IsAssoc(c)
<1>1. Len(ps) \in Int
  OBVIOUS
<1>2. c.outIs \in BOOLEAN
  BY DEF SendFields, IsAssoc
<1> QED
  BY <1>1, <1>2 DEF SendFields, IsAssoc, SameSend, SameAnswerer

LEMMA AskOne ==
  ASSUME NEW a, IsAssoc(a), ~a.outIs, NEW q \in Param, IsReq(q), q.seq = a.seqOut,
         NEW c, c = SendRequest(a, <<q>>)
  PROVE  /\ IsAssoc(c) /\ SendFields(a, c, <<q>>)
         /\ Asked(c) /\ SecondIn(c) /\ OutIsFirst(c)
         /\ c.seqOut \in Window(c) /\ FirstFound(c, c.seqOut) = q
<1>1. <<q>> \in Seq(Param) /\ Len(<<q>>) = 1 /\ <<q>>[1] = q
  OBVIOUS
<1>2. SendFields(a, c, <<q>>)
  BY SendRequestIs
<1>3. c.adding \in Nat /\ (q.type = "ADDO" => c.adding = q.num)
  <2> DEFINE ps == <<q>>
  <2>1. ps \in Seq(Param) /\ Len(ps) = 1 /\ ps[1] = q /\ c = SendRequest(a, ps)
    BY <1>1
  <2> HIDE DEF ps
  <2>2. /\ c.adding \in Nat
        /\ \A i \in 1..Len(ps) :
               ps[i].type = "ADDO" /\ (\A j \in 1..Len(ps) : j # i => ps[j].type # "ADDO")
                  => c.adding = ps[i].num
    BY <2>1, SendAdding
  <2>3. 1 \in 1..Len(ps) /\ \A j \in 1..Len(ps) : j = 1
    BY <2>1
  <2> QED
    BY <2>1, <2>2, <2>3
<1>4. IsAssoc(c)
  BY <1>1, <1>2, <1>3, SendTyped
<1>5. c.seqOut \in Int /\ c.outstanding = 1 /\ c.strReset = <<q>> /\ q.seq = c.seqOut
  BY <1>1, <1>2, <1>4 DEF SendFields, IsAssoc
<1>6. Found(c, c.seqOut) = {1}
  BY <1>5 DEF Found, MaxParams
<1>7. FirstFound(c, c.seqOut) = q
  <2>1. 1 \in Found(c, c.seqOut) /\ \A k \in Found(c, c.seqOut) : 1 <= k
    BY <1>6
  <2>2. FirstFound(c, c.seqOut) = c.strReset[1]
    BY <1>4, <1>5, <2>1, FirstIs
  <2> QED
    BY <1>5, <2>2
<1>8. \A n \in Window(c) : n = c.seqOut
  BY <1>5 DEF Window
<1>9. c.seqOut \in Window(c)
  BY <1>5 DEF Window
<1>10. Asked(c)
  BY <1>5, <1>6, <1>7, <1>8 DEF Asked
<1>11. SecondIn(c)
  BY <1>3, <1>5, <1>7, <1>8 DEF SecondIn
<1>12. OutIsFirst(c)
  <2>1. c.outIs => \E i \in 1..1 : <<q>>[i].type = "OUT"
    BY <1>1, <1>2 DEF SendFields
  <2>2. c.outIs => q.type = "OUT"
    BY <1>1, <2>1
  <2> QED
    BY <1>5, <1>7, <2>2 DEF OutIsFirst
<1> QED
  BY <1>2, <1>4, <1>7, <1>9, <1>10, <1>11, <1>12

LEMMA AskTwo ==
  ASSUME NEW a, IsAssoc(a), ~a.outIs, NEW q \in Param, NEW r \in Param,
         q.type \in {"OUT", "ADDO"}, r.type \in {"IN", "ADDI"},
         q.seq = a.seqOut, r.seq = a.seqOut + 1,
         NEW c, c = SendRequest(a, <<q, r>>)
  PROVE  /\ IsAssoc(c) /\ SendFields(a, c, <<q, r>>)
         /\ Asked(c) /\ SecondIn(c) /\ OutIsFirst(c)
         /\ c.seqOut \in Window(c) /\ FirstFound(c, c.seqOut) = q
         /\ c.seqOut + 1 \in Window(c) /\ FirstFound(c, c.seqOut + 1) = r
<1>1. <<q, r>> \in Seq(Param) /\ Len(<<q, r>>) = 2 /\ <<q, r>>[1] = q /\ <<q, r>>[2] = r
  OBVIOUS
<1>2. SendFields(a, c, <<q, r>>)
  BY SendRequestIs
<1>3. c.adding \in Nat /\ (q.type = "ADDO" => c.adding = q.num)
  <2> DEFINE ps == <<q, r>>
  <2>1. ps \in Seq(Param) /\ Len(ps) = 2 /\ ps[1] = q /\ ps[2] = r /\ c = SendRequest(a, ps)
    BY <1>1
  <2> HIDE DEF ps
  <2>2. /\ c.adding \in Nat
        /\ \A i \in 1..Len(ps) :
               ps[i].type = "ADDO" /\ (\A j \in 1..Len(ps) : j # i => ps[j].type # "ADDO")
                  => c.adding = ps[i].num
    BY <2>1, SendAdding
  <2>3. 1 \in 1..Len(ps) /\ \A j \in 1..Len(ps) : j = 1 \/ j = 2
    BY <2>1
  <2>4. \A j \in 1..Len(ps) : j # 1 => ps[j].type # "ADDO"
    BY <2>1, <2>3
  <2> QED
    BY <2>1, <2>2, <2>3, <2>4
<1>4. IsAssoc(c)
  BY <1>1, <1>2, <1>3, SendTyped
<1>5. c.seqOut \in Int /\ c.outstanding = 2 /\ c.strReset = <<q, r>> /\ q.seq = c.seqOut
      /\ r.seq = c.seqOut + 1
  BY <1>1, <1>2, <1>4 DEF SendFields, IsAssoc
<1>6. Found(c, c.seqOut) = {1} /\ Found(c, c.seqOut + 1) = {2}
  <2>1. Len(c.strReset) = 2 /\ c.strReset[1].seq = c.seqOut /\ c.strReset[2].seq = c.seqOut + 1
    BY <1>1, <1>5
  <2>2. \A i \in 1..2 : i = 1 \/ i = 2
    OBVIOUS
  <2> QED
    BY <1>5, <2>1, <2>2 DEF Found, MaxParams
<1>7. FirstFound(c, c.seqOut) = q
  <2>1. 1 \in Found(c, c.seqOut) /\ \A k \in Found(c, c.seqOut) : 1 <= k
    BY <1>6
  <2>2. FirstFound(c, c.seqOut) = c.strReset[1]
    BY <1>4, <1>5, <2>1, FirstIs
  <2> QED
    BY <1>5, <2>2
<1>8. FirstFound(c, c.seqOut + 1) = r
  <2>1. 2 \in Found(c, c.seqOut + 1) /\ \A k \in Found(c, c.seqOut + 1) : 2 <= k
    BY <1>6
  <2>2. FirstFound(c, c.seqOut + 1) = c.strReset[2]
    BY <1>4, <1>5, <2>1, FirstIs
  <2> QED
    BY <1>5, <2>2
<1>9. \A n \in Window(c) : n = c.seqOut \/ n = c.seqOut + 1
  BY <1>5 DEF Window
<1>10. c.seqOut \in Window(c) /\ c.seqOut + 1 \in Window(c)
  BY <1>5 DEF Window
<1>11. Asked(c)
  <2>1. IsReq(q) /\ IsReq(r)
    BY DEF IsReq
  <2> QED
    BY <1>5, <1>6, <1>7, <1>8, <1>9, <2>1 DEF Asked
<1>12. SecondIn(c)
  BY <1>3, <1>5, <1>7, <1>8, <1>9 DEF SecondIn
<1>13. OutIsFirst(c)
  <2>1. c.outIs => \E i \in 1..2 : <<q, r>>[i].type = "OUT"
    BY <1>1, <1>2 DEF SendFields
  <2>2. c.outIs => q.type = "OUT"
    BY <1>1, <2>1
  <2> QED
    BY <1>5, <1>7, <2>2 DEF OutIsFirst
<1> QED
  BY <1>2, <1>4, <1>7, <1>8, <1>10, <1>11, <1>12, <1>13

-----------------------------------------------------------------------------
(* The addition a peer asks for, and the answer that carries a reset. *)

LEMMA AskerSame ==
  ASSUME NEW a, NEW c, SameAsker(a, c)
  PROVE  /\ Asked(a) => Asked(c)
         /\ SecondIn(a) => SecondIn(c)
         /\ OutIsFirst(a) => OutIsFirst(c)
         /\ Window(c) = Window(a) /\ \A n : FirstFound(c, n) = FirstFound(a, n)
<1>1. \A n : Found(c, n) = Found(a, n) /\ FirstFound(c, n) = FirstFound(a, n)
  BY FoundSame DEF SameAsker
<1>2. Window(c) = Window(a)
  BY DEF Window, SameAsker
<1>3. Asked(a) => Asked(c)
  BY <1>1, <1>2 DEF Asked, SameAsker
<1>4. SecondIn(a) => SecondIn(c)
  BY <1>1, <1>2 DEF SecondIn, SameAsker
<1>5. OutIsFirst(a) => OutIsFirst(c)
  BY <1>1 DEF OutIsFirst, SameAsker
<1> QED
  BY <1>1, <1>2, <1>3, <1>4, <1>5

\* c waits for the request q only, which it just made.
NewAsk(a, c, q) ==
    /\ c.seqOut = a.seqOut /\ c.outcnt = a.outcnt /\ c.did = a.did
    /\ Asked(c) /\ SecondIn(c) /\ OutIsFirst(c)
    /\ c.outstanding = 1 /\ q \in Param /\ IsReq(q) /\ q.seq = a.seqOut
    /\ FirstFound(c, c.seqOut) = q

LEMMA RequestAddInIs ==
  ASSUME NEW a, IsAssoc(a), a.outstanding = 0 => ~a.outIs, a.outstanding >= 0,
         NEW p \in Param, p.type = "ADDI", NEW ok \in BOOLEAN,
         NEW c, c = RequestAddIn(a, p, ok)
  PROVE  /\ IsAssoc(c) /\ SameSend(a, c) /\ SameData(a, c)
         /\ c.took = a.took /\ c.incnt = a.incnt /\ c.bad = a.bad
         /\ \/ /\ SameAsker(a, c) /\ c.more = a.more
               /\ \E r \in {"denied", "inprogress"} : Gave(a, c, p, r, <<Response(p.seq, r)>>)
            \/ /\ a.outstanding = 0 /\ NewAsk(a, c, AddOut(a.seqOut, p.num))
               /\ c.strReset = <<AddOut(a.seqOut, p.num)>> /\ c.more = c.strReset
               /\ Gave(a, c, p, "performed", <<Response(p.seq, "performed")>>)
<1>0. /\ p.num \in Nat /\ "denied" \in Outcome /\ "inprogress" \in Outcome /\ "performed" \in Outcome
      /\ a.seqOut \in Int
  BY ParamFacts DEF Outcome, IsAssoc
<1>1. CASE ~ok
  <2>1. c = Result(a, p, "denied")
    BY <1>1 DEF RequestAddIn
  <2> QED
    BY <1>0, <2>1, ResultIs
<1>2. CASE ok /\ a.outstanding > 0
  <2>1. c = Result(a, p, "inprogress")
    BY <1>2 DEF RequestAddIn
  <2> QED
    BY <1>0, <2>1, ResultIs
<1>3. CASE ok /\ ~(a.outstanding > 0)
  <2>0. a.outstanding = 0 /\ ~a.outIs
    BY <1>3 DEF IsAssoc
  <2> DEFINE q == AddOut(a.seqOut, p.num)
             s == SendRequest(a, <<q>>)
             d == [s EXCEPT !.more = <<q>>]
  <2>1. c = Result(d, p, "performed")
    BY <1>3 DEF RequestAddIn
  <2>2. q \in Param /\ IsReq(q) /\ q.seq = a.seqOut
    BY <1>0, MakeParam DEF AddOut, IsReq
  <2> HIDE DEF q
  <2>3. /\ IsAssoc(s) /\ SendFields(a, s, <<q>>)
        /\ Asked(s) /\ SecondIn(s) /\ OutIsFirst(s)
        /\ s.seqOut \in Window(s) /\ FirstFound(s, s.seqOut) = q
    BY <2>0, <2>2, AskOne
  <2> HIDE DEF s
  <2>4. <<q>> \in Seq(Param) /\ Len(<<q>>) = 1
    BY <2>2
  <2>5. /\ DOMAIN d = Fields /\ SameAsker(s, d) /\ SameSend(s, d) /\ SameData(s, d)
        /\ SameAnswerer(s, d) /\ d.bad = s.bad /\ d.reply = s.reply /\ d.more = <<q>>
    BY <2>3 DEF IsAssoc, Fields, SameAsker, SameSend, SameData, SameAnswerer
  <2> HIDE DEF d
  <2>6. IsAssoc(d)
    BY <2>3, <2>4, <2>5 DEF IsAssoc, SameAsker, SameSend, SameAnswerer
  <2>7. /\ IsAssoc(c) /\ SameAsker(d, c) /\ SameSend(d, c) /\ SameData(d, c)
        /\ c.bad = d.bad /\ c.more = d.more /\ c.took = d.took /\ c.incnt = d.incnt
        /\ Gave(d, c, p, "performed", <<Response(p.seq, "performed")>>)
    BY <1>0, <2>1, <2>6, ResultIs
  <2>8. SameAsker(s, c)
    BY <2>5, <2>7 DEF SameAsker
  <2>9. Asked(c) /\ SecondIn(c) /\ OutIsFirst(c) /\ FirstFound(c, s.seqOut) = q
    BY <2>3, <2>8, AskerSame
  <2>10. /\ c.seqOut = a.seqOut /\ c.outcnt = a.outcnt /\ c.did = a.did /\ c.outstanding = 1
         /\ c.strReset = <<q>> /\ s.seqOut = a.seqOut /\ c.more = <<q>>
    BY <2>3, <2>4, <2>5, <2>7, <2>8 DEF SendFields, SameAsker
  <2>11. NewAsk(a, c, q)
    BY <2>2, <2>9, <2>10 DEF NewAsk
  <2>12. Gave(a, c, p, "performed", <<Response(p.seq, "performed")>>)
    BY <2>3, <2>5, <2>7 DEF Gave, SendFields, SameAnswerer
  <2>13. /\ SameSend(a, c) /\ SameData(a, c) /\ c.took = a.took /\ c.incnt = a.incnt
         /\ c.bad = a.bad
    BY <2>3, <2>5, <2>7 DEF SendFields, SameSend, SameData, SameAnswerer
  <2> QED
    BY <2>0, <2>7, <2>10, <2>11, <2>12, <2>13 DEF q
<1> QED
  BY <1>1, <1>2, <1>3

\* An endpoint that answers an incoming request waits for nothing else than the
\* outgoing one in the answer, and no answer before it has the same number.
AnsweredAlone(a) ==
    (\E i \in 1..Len(a.strReset) : a.strReset[i].type = "RESP") =>
        /\ a.outstanding <= 1
        /\ a.strReset[1].type = "RESP" => a.strReset[1].seq # a.seqOut

\* At most one answer is ready before the last parameter is looked at.
ShortReply(ps) == ps = <<>> \/ \E s \in Param : ps = <<s>> /\ ~IsReq(s)

LEMMA AddTwo ==
  ASSUME NEW s \in Seq(Param), NEW q \in Param, NEW r \in Param,
         NEW t, t = (s \o <<q>>) \o <<r>>
  PROVE  /\ t \in Seq(Param) /\ Len(t) = Len(s) + 2
         /\ t[Len(s) + 1] = q /\ t[Len(s) + 2] = r /\ \A i \in 1..Len(s) : t[i] = s[i]
<1>1. <<q>> \in Seq(Param) /\ <<r>> \in Seq(Param)
  OBVIOUS
<1> DEFINE u == s \o <<q>>
<1>2. u \in Seq(Param) /\ Len(u) = Len(s) + 1 /\ u[Len(s) + 1] = q
      /\ \A i \in 1..Len(s) : u[i] = s[i]
  BY <1>1
<1> HIDE DEF u
<1>3. t = u \o <<r>>
  BY DEF u
<1> QED
  BY <1>1, <1>2, <1>3

LEMMA FoundInAnswer ==
  ASSUME NEW c, IsAssoc(c), NEW s, ShortReply(s), NEW q \in Param, IsReq(q), q.seq = c.seqOut,
         NEW r \in Param, ~IsReq(r), c.strReset = (s \o <<q>>) \o <<r>>, AnsweredAlone(c)
  PROVE  /\ FirstFound(c, c.seqOut) = q /\ Found(c, c.seqOut) # {} /\ c.outstanding <= 1
         /\ \A i \in 1..Len(c.strReset) : c.strReset[i] = q \/ ~IsReq(c.strReset[i])
<1>0. c.seqOut \in Int
  BY DEF IsAssoc
<1>1. CASE s = <<>>
  <2>1. s \in Seq(Param) /\ Len(s) = 0
    BY <1>1
  <2>2. Len(c.strReset) = 2 /\ c.strReset[1] = q /\ c.strReset[2] = r
    BY <2>1, AddTwo
  <2>3. 1 \in Found(c, c.seqOut) /\ \A k \in Found(c, c.seqOut) : 1 <= k
    BY <2>2 DEF Found, MaxParams
  <2>4. FirstFound(c, c.seqOut) = c.strReset[1]
    BY <1>0, <2>3, FirstIs
  <2>5. c.outstanding <= 1
    BY <2>2 DEF AnsweredAlone, IsReq
  <2>6. \A i \in 1..Len(c.strReset) : i = 1 \/ i = 2
    BY <2>2
  <2> QED
    BY <2>2, <2>3, <2>4, <2>5, <2>6
<1>2. ASSUME NEW u \in Param, s = <<u>>, ~IsReq(u)
      PROVE  /\ FirstFound(c, c.seqOut) = q /\ Found(c, c.seqOut) # {} /\ c.outstanding <= 1
             /\ \A i \in 1..Len(c.strReset) : c.strReset[i] = q \/ ~IsReq(c.strReset[i])
  <2>1. s \in Seq(Param) /\ Len(s) = 1 /\ s[1] = u
    BY <1>2
  <2>2. Len(c.strReset) = 3 /\ c.strReset[1] = u /\ c.strReset[2] = q /\ c.strReset[3] = r
    <3>0. s \in Seq(Param)
      BY <2>1
    <3>1. /\ Len(c.strReset) = Len(s) + 2 /\ c.strReset[Len(s) + 1] = q
          /\ c.strReset[Len(s) + 2] = r /\ \A i \in 1..Len(s) : c.strReset[i] = s[i]
      BY <3>0, AddTwo
    <3>2. 1 \in 1..Len(s) /\ Len(s) + 1 = 2 /\ Len(s) + 2 = 3
      BY <2>1
    <3> QED
      BY <2>1, <3>1, <3>2
  <2>3. c.outstanding <= 1 /\ u.seq # c.seqOut
    BY <1>2, <2>2 DEF AnsweredAlone, IsReq
  <2>4. \A i \in 1..Len(c.strReset) : i = 1 \/ i = 2 \/ i = 3
    BY <2>2
  <2>5. 2 \in Found(c, c.seqOut) /\ \A k \in Found(c, c.seqOut) : 2 <= k
    BY <2>2, <2>3, <2>4 DEF Found, MaxParams
  <2>6. FirstFound(c, c.seqOut) = c.strReset[2]
    BY <1>0, <2>5, FirstIs
  <2> QED
    BY <1>2, <2>2, <2>3, <2>4, <2>5, <2>6
<1> QED
  BY <1>1, <1>2 DEF ShortReply

-----------------------------------------------------------------------------
(* The reset a peer asks for, and both directions of the link. *)

\* The endpoint asks for the outgoing reset in its answer, or refuses to.
AsksBack(a, c, p) ==
    /\ IsAssoc(c) /\ SameSend(a, c) /\ SameData(a, c)
    /\ c.took = a.took /\ c.incnt = a.incnt /\ c.bad = a.bad /\ c.more = a.more
    /\ \/ /\ SameAsker(a, c)
          /\ \E r \in {"denied", "inprogress"} : Gave(a, c, p, r, <<Response(p.seq, r)>>)
       \/ /\ a.outstanding = 0 /\ NewAsk(a, c, OutReq(a.seqOut, p.seq, a.tsn - 1, p.list))
          /\ c.strReset = c.reply
          /\ c.reply = (a.reply \o <<OutReq(a.seqOut, p.seq, a.tsn - 1, p.list)>>)
                         \o <<Response(p.seq, "performed")>>
          /\ c.seqIn = a.seqIn + 1
          /\ c.actions[1] = "performed" /\ c.actions[2] = a.actions[1]

LEMMA RequestInIs ==
  ASSUME NEW a, IsAssoc(a), a.outstanding \in 0..2, ShortReply(a.reply),
         NEW p \in Param, p.type = "IN", NEW ok \in BOOLEAN,
         NEW c, c = RequestIn(a, p, ok), AnsweredAlone(c)
  PROVE  AsksBack(a, c, p)
<1> SUFFICES /\ IsAssoc(c) /\ SameSend(a, c) /\ SameData(a, c)
             /\ c.took = a.took /\ c.incnt = a.incnt /\ c.bad = a.bad /\ c.more = a.more
             /\ \/ /\ SameAsker(a, c)
                   /\ \E r \in {"denied", "inprogress"} : Gave(a, c, p, r, <<Response(p.seq, r)>>)
                \/ /\ a.outstanding = 0 /\ NewAsk(a, c, OutReq(a.seqOut, p.seq, a.tsn - 1, p.list))
                   /\ c.strReset = c.reply
                   /\ c.reply = (a.reply \o <<OutReq(a.seqOut, p.seq, a.tsn - 1, p.list)>>)
                                  \o <<Response(p.seq, "performed")>>
                   /\ c.seqIn = a.seqIn + 1
                   /\ c.actions[1] = "performed" /\ c.actions[2] = a.actions[1]
  BY DEF AsksBack
<1>0. /\ "denied" \in Outcome /\ "inprogress" \in Outcome /\ "performed" \in Outcome
      /\ p.seq \in Int /\ p.list \in SUBSET Nat /\ a.seqOut \in Int /\ a.tsn - 1 \in Int
  BY ParamFacts DEF Outcome, IsAssoc
<1>1. CASE ~ok
  <2>1. c = Result(a, p, "denied")
    BY <1>1 DEF RequestIn
  <2> QED
    BY <1>0, <2>1, ResultIs
<1>2. CASE ok /\ a.outIs
  <2>1. c = Result(a, p, "inprogress")
    BY <1>2 DEF RequestIn
  <2> QED
    BY <1>0, <2>1, ResultIs
<1>3. CASE ok /\ ~a.outIs
  <2> DEFINE q == OutReq(a.seqOut, p.seq, a.tsn - 1, p.list)
             u == Response(p.seq, "performed")
             d == Reply(a, <<q>>)
             b == Result(d, p, "performed")
  <2>1. c = [b EXCEPT !.outIs = TRUE, !.strReset = b.reply, !.outstanding = @ + 1]
    BY <1>3 DEF RequestIn
  <2>2. q \in Param /\ IsReq(q) /\ q.seq = a.seqOut /\ q.type = "OUT"
    BY <1>0, MakeParam DEF OutReq, IsReq
  <2>2a. u \in Param /\ ~IsReq(u)
    BY <1>0, MakeParam DEF Response, IsReq
  <2> HIDE DEF q, u
  <2>3. a.reply \o <<q>> \in Seq(Param)
    BY <2>2, ReplyType
  <2>4. /\ DOMAIN d = Fields /\ SameAsker(a, d) /\ SameSend(a, d) /\ SameData(a, d)
        /\ SameAnswerer(a, d) /\ d.bad = a.bad /\ d.more = a.more /\ d.reply = a.reply \o <<q>>
    BY DEF Reply, IsAssoc, Fields, SameAsker, SameSend, SameData, SameAnswerer
  <2> HIDE DEF d
  <2>5. IsAssoc(d)
    BY <2>3, <2>4 DEF IsAssoc, SameAsker, SameSend, SameAnswerer
  <2>6. /\ IsAssoc(b) /\ SameAsker(d, b) /\ SameSend(d, b) /\ SameData(d, b)
        /\ b.bad = d.bad /\ b.more = d.more /\ b.took = d.took /\ b.incnt = d.incnt
        /\ Gave(d, b, p, "performed", <<u>>)
    BY <1>0, <2>5, ResultIs DEF u
  <2> HIDE DEF b
  <2>7. /\ DOMAIN c = Fields /\ c.outIs = TRUE /\ c.strReset = b.reply
        /\ c.outstanding = b.outstanding + 1
        /\ c.seqOut = b.seqOut /\ c.adding = b.adding /\ c.outcnt = b.outcnt /\ c.did = b.did
        /\ SameSend(b, c) /\ SameData(b, c) /\ SameAnswerer(b, c) /\ c.bad = b.bad
        /\ c.more = b.more /\ c.reply = b.reply
    BY <2>1, <2>6 DEF IsAssoc, Fields, SameSend, SameData, SameAnswerer
  <2>8. IsAssoc(c)
    <3>1. c.outstanding \in Int
      BY <2>6, <2>7 DEF IsAssoc
    <3>2. c.outIs \in BOOLEAN
      BY <2>7
    <3> QED
      BY <2>6, <2>7, <3>1, <3>2 DEF IsAssoc, SameSend, SameAnswerer
  <2>9. c.strReset = (a.reply \o <<q>>) \o <<u>> /\ c.reply = c.strReset
    BY <2>4, <2>6, <2>7 DEF Gave
  <2>10. /\ c.seqOut = a.seqOut /\ c.outcnt = a.outcnt /\ c.did = a.did
         /\ c.outstanding = a.outstanding + 1
    BY <2>4, <2>6, <2>7 DEF SameAsker
  <2>11. FirstFound(c, c.seqOut) = q /\ Found(c, c.seqOut) # {} /\ c.outstanding <= 1
    BY <2>2, <2>2a, <2>8, <2>9, <2>10, FoundInAnswer
  <2>12. a.outstanding = 0 /\ c.outstanding = 1
    BY <2>10, <2>11
  <2>13. c.seqOut \in Int /\ \A n \in Window(c) : n = c.seqOut
    BY <1>0, <2>10, <2>12 DEF Window
  <2>14. NewAsk(a, c, q)
    BY <2>2, <2>7, <2>10, <2>11, <2>12, <2>13 DEF NewAsk, Asked, SecondIn, OutIsFirst
  <2>15. /\ SameSend(a, c) /\ SameData(a, c) /\ c.took = a.took /\ c.incnt = a.incnt
         /\ c.bad = a.bad /\ c.more = a.more
    BY <2>4, <2>6, <2>7 DEF SameSend, SameData, SameAnswerer
  <2>16. c.seqIn = a.seqIn + 1 /\ c.actions[1] = "performed" /\ c.actions[2] = a.actions[1]
    BY <2>4, <2>6, <2>7 DEF Gave, SameAnswerer
  <2> QED
    BY <2>8, <2>9, <2>12, <2>14, <2>15, <2>16 DEF q, u
<1> QED
  BY <1>1, <1>2, <1>3

-----------------------------------------------------------------------------
Rng(s) == {s[i] : i \in 1..Len(s)}

\* x is the endpoint that takes a step, y its peer; X and Y hold what they sent.
Pair(x, y, X, Y) ==
    /\ IsAssoc(x) /\ IsAssoc(y)
    /\ Dir(x, y, X, Y) /\ Dir(y, x, Y, X)
    /\ Rng(x.reply) \subseteq X /\ Rng(x.more) \subseteq X /\ Rng(x.strReset) \subseteq X
    /\ \A q \in Rng(x.reply) \cup Rng(x.more) : IsReq(q) => q.seq <= y.seqIn

LEMMA RngAdd ==
  ASSUME NEW s \in Seq(Param), NEW q \in Param
  PROVE  Rng(s \o <<q>>) = Rng(s) \cup {q}
<1>1. <<q>> \in Seq(Param) /\ Len(<<q>>) = 1 /\ <<q>>[1] = q
  OBVIOUS
<1> DEFINE t == s \o <<q>>
<1>2. Len(t) = Len(s) + 1 /\ t[Len(s) + 1] = q /\ \A i \in 1..Len(s) : t[i] = s[i]
  BY <1>1
<1>3. Len(s) \in Nat
  OBVIOUS
<1> HIDE DEF t
<1>4. 1..Len(t) = (1..Len(s)) \cup {Len(s) + 1}
  BY <1>2, <1>3
<1>5. Rng(t) \subseteq Rng(s) \cup {q}
  <2> SUFFICES ASSUME NEW i \in 1..Len(t) PROVE t[i] \in Rng(s) \cup {q}
    BY DEF Rng
  <2>1. CASE i \in 1..Len(s)
    BY <1>2, <2>1 DEF Rng
  <2>2. CASE i = Len(s) + 1
    BY <1>2, <2>2
  <2> QED
    BY <1>4, <2>1, <2>2
<1>6. q \in Rng(t)
  BY <1>2, <1>4 DEF Rng
<1>7. Rng(s) \subseteq Rng(t)
  <2> SUFFICES ASSUME NEW i \in 1..Len(s) PROVE s[i] \in Rng(t)
    BY DEF Rng
  <2> QED
    BY <1>2, <1>4 DEF Rng
<1> QED
  BY <1>5, <1>6, <1>7 DEF t

LEMMA RngSmall == Rng(<<>>) = {} /\ \A q : Rng(<<q>>) = {q}
  BY DEF Rng

\* An answer is taken or ignored.
LEMMA TakeAnswer ==
  ASSUME NEW x, NEW y, NEW X, NEW Y, Pair(x, y, X, Y), NEW n \in Int, NEW r,
         x.outstanding > 0 /\ n = x.seqOut => Fits(x, y, r),
         NEW c, c = HandleResponse(x, n, r)
  PROVE  Pair(c, y, X, Y) /\ SameRest(x, c)
<1>1. Asked(x) /\ IsAssoc(x)
  BY DEF Pair, Dir
<1>2. CASE x.outstanding = 0 \/ n # x.seqOut
  <2>1. c = x
    BY <1>1, <1>2, HandleResponseIs
  <2> QED
    BY <2>1 DEF SameRest
<1>3. CASE ~(x.outstanding = 0 \/ n # x.seqOut)
  <2> DEFINE p == FirstFound(x, x.seqOut)
  <2>1. c = CleanUp(Answered(x, p, r)) /\ p \in Param /\ IsReq(p) /\ x.outstanding > 0
    BY <1>1, <1>3, HandleResponseIs
  <2> HIDE DEF p
  <2>2. /\ IsAssoc(c) /\ AfterAnswer(x, c, p, r) /\ SameRest(x, c)
        /\ c.strReset = IF x.outstanding = 1 THEN <<>> ELSE x.strReset
    BY <1>1, <2>1, AnsweredIs
  <2>3. Dir(c, y, X, Y)
    BY <1>3, <2>1, <2>2, AnswerDir DEF Pair, p
  <2>4. SameAnswerer(x, c) /\ SameAsker(y, y)
    BY <2>2 DEF SameRest, SameAnswerer, SameAsker
  <2>5. Dir(y, c, Y, X)
    BY <2>4, DirSame DEF Pair
  <2>6. Rng(c.strReset) \subseteq X
    BY <2>2, RngSmall DEF Pair
  <2> QED
    BY <2>2, <2>3, <2>5, <2>6 DEF Pair, SameRest
<1> QED
  BY <1>2, <1>3

-----------------------------------------------------------------------------
(* Both directions after an answer, one given again, and one with a request. *)

LEMMA GiveResult ==
  ASSUME NEW x, NEW y, NEW X, NEW Y, Pair(x, y, X, Y),
         NEW p \in Y, IsReq(p), p.seq = x.seqIn,
         NEW r \in Results, p.type \in {"OUT", "ADDO"} => r # "inprogress",
         NEW c, IsAssoc(c), SameAsker(x, c), c.more = x.more, Answers(x, c, p, r),
         Gave(x, c, p, r, <<Response(p.seq, r)>>)
  PROVE  Pair(c, y, X \cup {Response(p.seq, r)}, Y)
<1> DEFINE u == Response(p.seq, r)
<1>1. u \in Param /\ ~IsReq(u) /\ u.type = "RESP" /\ u.seq = p.seq /\ u.result = r
  <2>1. p \in Param /\ p.seq \in Int /\ r \in Outcome
    BY ParamFacts DEF Pair, Dir, Results, Outcome
  <2> QED
    BY <2>1, MakeParam DEF Response, IsReq
<1> HIDE DEF u
<1> DEFINE E == {u}
<1>2. E \in SUBSET Param
  BY <1>1
<1>2a. \A q \in E : /\ ~IsReq(q) => q.seq = p.seq /\ q.result = r
                    /\ q.type = "OUT" => q.resp = p.seq /\ r = "performed"
  BY <1>1
<1> HIDE DEF E
<1>3. Dir(y, c, Y, X \cup E)
  BY <1>2, <1>2a, AnswersDir DEF Pair
<1>4. Dir(x, y, X \cup E, Y)
  <2>1. OwnRequests(x, X \cup E)
    BY <1>1 DEF Pair, Dir, OwnRequests, E
  <2> QED
    BY <2>1, <1>2 DEF Pair, Dir
<1>5. SameAnswerer(y, y)
  BY DEF SameAnswerer
<1>6. Dir(c, y, X \cup E, Y)
  BY <1>4, <1>5, DirSame
<1>7. Rng(c.reply) = Rng(x.reply) \cup {u}
  BY <1>1, RngAdd DEF Pair, IsAssoc, Gave, u
<1>8. Rng(c.reply) \subseteq X \cup E /\ Rng(c.more) \subseteq X \cup E
      /\ Rng(c.strReset) \subseteq X \cup E
  BY <1>7 DEF Pair, SameAsker, E
<1>9. \A q \in Rng(c.reply) \cup Rng(c.more) : IsReq(q) => q.seq <= y.seqIn
  BY <1>1, <1>7 DEF Pair
<1> QED
  BY <1>3, <1>6, <1>8, <1>9 DEF Pair, E, u

LEMMA GiveAgain ==
  ASSUME NEW x, NEW y, NEW X, NEW Y, Pair(x, y, X, Y), NEW p \in Y, p.seq < x.seqIn,
         NEW c, c = Repeat(x, p)
  PROVE  Pair(c, y, X \cup {Response(p.seq, KnownResult(x, p.seq))}, Y)
<1> DEFINE u == Response(p.seq, KnownResult(x, p.seq))
<1>0. p \in Param /\ IsAssoc(x) /\ IsAssoc(y)
  BY DEF Pair, Dir
<1>1. /\ IsAssoc(c) /\ SameAsker(x, c) /\ SameAnswerer(x, c) /\ c.more = x.more
      /\ c.reply = x.reply \o <<u>> /\ u \in Param
  BY <1>0, RepeatIs
<1>2. ~IsReq(u)
  BY DEF IsReq, Response
<1>3. Dir(y, x, Y, X \cup {u})
  BY <1>0, AgainDir DEF Pair
<1> HIDE DEF u
<1>4. SameAsker(y, y) /\ SameAnswerer(y, y)
  BY DEF SameAsker, SameAnswerer
<1>5. Dir(y, c, Y, X \cup {u})
  BY <1>1, <1>3, <1>4, DirSame
<1>6. Dir(x, y, X \cup {u}, Y)
  <2>1. OwnRequests(x, X \cup {u})
    BY <1>2 DEF Pair, Dir, OwnRequests
  <2> QED
    BY <2>1, <1>1 DEF Pair, Dir
<1>7. Dir(c, y, X \cup {u}, Y)
  BY <1>1, <1>4, <1>6, DirSame
<1>8. Rng(c.reply) = Rng(x.reply) \cup {u}
  BY <1>0, <1>1, RngAdd DEF IsAssoc
<1>9. Rng(c.reply) \subseteq X \cup {u} /\ Rng(c.more) \subseteq X \cup {u}
      /\ Rng(c.strReset) \subseteq X \cup {u}
  BY <1>1, <1>8 DEF Pair, SameAsker
<1>10. \A q \in Rng(c.reply) \cup Rng(c.more) : IsReq(q) => q.seq <= y.seqIn
  BY <1>1, <1>2, <1>8 DEF Pair
<1> QED
  BY <1>0, <1>1, <1>5, <1>7, <1>9, <1>10 DEF Pair, u

\* The answer brings a request of the answerer with it: q, in the answer or after it.
LEMMA GiveAndAsk ==
  ASSUME NEW x, NEW y, NEW X, NEW Y, Pair(x, y, X, Y), x.outstanding = 0,
         NEW p \in Y, p.type \in {"IN", "ADDI"}, p.seq = x.seqIn,
         NEW c, IsAssoc(c), NEW q, NewAsk(x, c, q),
         q.type = "OUT" => q.resp = p.seq,
         Answers(x, c, p, "performed"),
         NEW u, u = Response(p.seq, "performed"),
         Rng(c.reply) \subseteq Rng(x.reply) \cup {q, u},
         Rng(c.more) \subseteq Rng(x.more) \cup {q},
         Rng(c.strReset) \subseteq Rng(x.reply) \cup {q, u}
  PROVE  Pair(c, y, X \cup {q, u}, Y)
<1>0. p \in Param /\ p.seq \in Int /\ IsReq(p) /\ "performed" \in Results /\ "performed" \in Outcome
      /\ IsAssoc(x) /\ IsAssoc(y)
  BY ParamFacts DEF Pair, Dir, IsReq, Results, Outcome
<1>1. u \in Param /\ ~IsReq(u) /\ u.type = "RESP" /\ u.seq = p.seq /\ u.result = "performed"
  BY <1>0, MakeParam DEF Response, IsReq
<1>2. q \in Param /\ IsReq(q) /\ q.seq = c.seqOut /\ FirstFound(c, c.seqOut) = q
      /\ c.outstanding = 1 /\ c.seqOut = x.seqOut
  BY DEF NewAsk
<1> DEFINE E == {q, u}
<1>3. E \in SUBSET Param
  BY <1>1, <1>2
<1>4. \A e \in E : /\ ~IsReq(e) => e.seq = p.seq /\ e.result = "performed"
                   /\ e.type = "OUT" => e.resp = p.seq /\ "performed" = "performed"
  BY <1>1, <1>2
<1>5. c.seqOut \in Window(c)
  BY <1>2 DEF Window, IsAssoc
<1>6. \A e \in E : IsReq(e) => e.seq \in Window(c) /\ e = FirstFound(c, e.seq)
  BY <1>1, <1>2, <1>5
<1> HIDE DEF E
<1>7. Dir(y, c, Y, X \cup E)
  BY <1>0, <1>3, <1>4, AnswersDir DEF Pair
<1>8. Dir(c, y, X \cup E, Y)
  BY <1>0, <1>3, <1>6, AskDir DEF Pair, NewAsk
<1>9. y.seqIn = x.seqOut
  <2>1. y.seqIn \in x.seqOut..(x.seqOut + 0) /\ x.seqOut \in Int
    BY <1>0 DEF Pair, Dir, InStep, IsAssoc
  <2> QED
    BY <2>1
<1>10. /\ Rng(c.reply) \subseteq X \cup E /\ Rng(c.more) \subseteq X \cup E
       /\ Rng(c.strReset) \subseteq X \cup E
  BY DEF Pair, E
<1>11. \A e \in Rng(c.reply) \cup Rng(c.more) : IsReq(e) => e.seq <= y.seqIn
  <2> SUFFICES ASSUME NEW e \in Rng(c.reply) \cup Rng(c.more), IsReq(e) PROVE e.seq <= y.seqIn
    OBVIOUS
  <2>1. e \in Rng(x.reply) \cup Rng(x.more) \/ e = q
    BY <1>1
  <2>2. x.seqOut <= y.seqIn
    BY <1>0, <1>9 DEF IsAssoc
  <2> QED
    BY <1>2, <2>1, <2>2 DEF Pair
<1> QED
  BY <1>0, <1>7, <1>8, <1>10, <1>11 DEF Pair, E

-----------------------------------------------------------------------------
(* One parameter: responses and outgoing resets. *)

\* What one parameter p does to the endpoint x: c is x after it.
Handled(x, c, p) ==
    /\ c.seqIn \in Int /\ c.seqIn >= x.seqIn /\ (IsReq(p) /\ ~c.bad => c.seqIn > p.seq)
    /\ c.strReset \in {x.strReset, <<>>, c.reply, c.more}
    /\ (p.type # "IN" /\ x.reply = <<>> => ShortReply(c.reply))
    /\ \A q \in Rng(c.reply) \cup Rng(c.more) :
          q \in Rng(x.reply) \cup Rng(x.more) \/ q.type # "IN"

\* The two endpoints are still linked, whatever has been sent since.
Linked(c, y, X, Y) ==
    /\ ~c.bad => \E Z \in SUBSET Param : X \subseteq Z /\ Pair(c, y, Z, Y)
    /\ Done(c, y) /\ Done(y, c)

LEMMA PairLinked ==
  ASSUME NEW c, NEW y, NEW X, NEW Y, NEW Z, X \subseteq Z, Pair(c, y, Z, Y)
  PROVE  Linked(c, y, X, Y)
  BY DEF Linked, Pair, Dir

LEMMA GaveHandled ==
  ASSUME NEW x, IsAssoc(x), NEW p \in Param, p.seq = x.seqIn,
         NEW c, IsAssoc(c), c.strReset = x.strReset, c.more = x.more, NEW r \in Outcome,
         Gave(x, c, p, r, <<Response(p.seq, r)>>)
  PROVE  Handled(x, c, p)
<1> DEFINE u == Response(p.seq, r)
<1>1. u \in Param /\ ~IsReq(u) /\ u.type # "IN"
  BY ParamFacts, MakeParam DEF Response, IsReq
<1> HIDE DEF u
<1>2. c.reply = x.reply \o <<u>> /\ x.reply \in Seq(Param)
  BY DEF Gave, u, IsAssoc
<1>3. Rng(c.reply) = Rng(x.reply) \cup {u}
  BY <1>1, <1>2, RngAdd
<1>4. x.reply = <<>> => c.reply = <<u>>
  BY <1>1, <1>2
<1>5. c.seqIn = x.seqIn + 1 /\ x.seqIn \in Int /\ c.seqIn \in Int
  BY DEF Gave, IsAssoc
<1>6. c.seqIn >= x.seqIn /\ c.seqIn > p.seq
  BY <1>5
<1> QED
  BY <1>1, <1>3, <1>4, <1>5, <1>6 DEF Handled, ShortReply

LEMMA RepeatHandled ==
  ASSUME NEW x, IsAssoc(x), NEW p \in Param, p.seq < x.seqIn, NEW c, c = Repeat(x, p)
  PROVE  Handled(x, c, p)
<1> DEFINE u == Response(p.seq, KnownResult(x, p.seq))
<1>1. /\ SameAsker(x, c) /\ SameAnswerer(x, c) /\ c.bad = x.bad /\ c.more = x.more
      /\ c.reply = x.reply \o <<u>> /\ u \in Param
  BY RepeatIs
<1>2. u.type = "RESP"
  BY DEF Response
<1> HIDE DEF u
<1>3. x.reply \in Seq(Param) /\ x.seqIn \in Int
  BY DEF IsAssoc
<1>4. Rng(c.reply) = Rng(x.reply) \cup {u}
  BY <1>1, <1>3, RngAdd
<1>5. x.reply = <<>> => c.reply = <<u>>
  BY <1>1
<1>6. c.seqIn \in Int /\ c.seqIn = x.seqIn /\ c.seqIn >= x.seqIn /\ c.strReset = x.strReset
  BY <1>1, <1>3 DEF SameAnswerer, SameAsker
<1> QED
  BY <1>1, <1>2, <1>4, <1>5, <1>6 DEF Handled, ShortReply, IsReq

\* A response.
LEMMA HandleResp ==
  ASSUME NEW x, NEW y, NEW X, NEW Y, Pair(x, y, X, Y), ~x.bad, NEW p \in Y, p.type = "RESP",
         NEW c, c = HandleResponse(x, p.seq, p.result)
  PROVE  Linked(c, y, X, Y) /\ Handled(x, c, p)
<1>0. p \in Param /\ p.seq \in Int /\ ~IsReq(p) /\ IsAssoc(x) /\ Asked(x)
  BY ParamFacts DEF Pair, Dir, IsReq
<1>1. p.seq < y.seqIn /\ (p.seq >= x.seqOut => p.result = Remembered(y, p.seq))
  BY <1>0 DEF Pair, Dir, TrueAnswers
<1>2. x.outstanding > 0 /\ p.seq = x.seqOut => Fits(x, y, p.result)
  BY <1>0, <1>1 DEF Fits, IsAssoc
<1>3. Pair(c, y, X, Y) /\ SameRest(x, c)
  BY <1>0, <1>2, TakeAnswer
<1>4. c.strReset = x.strReset \/ c.strReset = <<>>
  BY <1>0, HandleResponseIs, AnsweredIs
<1>5. c.seqIn \in Int /\ c.seqIn = x.seqIn /\ c.seqIn >= x.seqIn
  BY <1>0, <1>3 DEF SameRest, IsAssoc
<1>6. Handled(x, c, p)
  BY <1>0, <1>3, <1>4, <1>5 DEF Handled, SameRest, ShortReply
<1> QED
  BY <1>3, <1>6, PairLinked

\* The incoming reset an outgoing one names is not one that was denied.
LEMMA NamedFits ==
  ASSUME NEW x, NEW y, NEW X, NEW Y, Pair(x, y, X, Y), NEW p \in Y, p.type = "OUT",
         x.outstanding > 0, p.resp = x.seqOut
  PROVE  Fits(x, y, "performed")
<1>0. p.resp \in Int /\ x.seqOut \in Int /\ y.seqIn \in Int
  BY ParamFacts DEF Pair, Dir, IsAssoc
<1>1. p.resp < y.seqIn /\ Remembered(y, p.resp) # "denied"
  BY <1>0 DEF Pair, Dir, TrueNames
<1>2. x.seqOut \in x.seqOut..(y.seqIn - 1)
  BY <1>0, <1>1
<1>3. /\ Remembered(y, x.seqOut) \in {"performed", "denied", "inprogress"}
      /\ FirstFound(x, x.seqOut).type \in {"OUT", "ADDO"} => Remembered(y, x.seqOut) # "inprogress"
  BY <1>2 DEF Pair, Dir, Decided
<1> QED
  BY <1>1, <1>3 DEF Fits

\* A request for an outgoing reset, whose name of an incoming one is an answer.
LEMMA HandleOut ==
  ASSUME NEW x, NEW y, NEW X, NEW Y, Pair(x, y, X, Y), ~x.bad, NEW p \in Y, p.type = "OUT",
         p.seq <= x.seqIn, NEW ok \in BOOLEAN, NEW c, c = HandleParam(x, p, ok)
  PROVE  Linked(c, y, X, Y) /\ Handled(x, c, p)
<1> DEFINE b == ImplicitAck(x, p)
<1>0. /\ p \in Param /\ p.seq \in Int /\ p.resp \in Int /\ IsReq(p) /\ IsAssoc(x) /\ Asked(x)
      /\ x.seqOut \in Int /\ x.seqIn \in Int /\ y.seqIn \in Int
  BY ParamFacts DEF Pair, Dir, IsReq, IsAssoc
<1>1. c = IF p.seq = b.seqIn THEN RequestOut(b, p, ok) ELSE Repeat(b, p)
  BY DEF HandleParam
<1>2. Pair(b, y, X, Y) /\ SameRest(x, b) /\ b.strReset \in {x.strReset, <<>>}
  <2>1. CASE ~(x.outstanding > 0 /\ p.resp = x.seqOut)
    <3>1. b = x
      BY <2>1 DEF ImplicitAck
    <3> QED
      BY <3>1 DEF SameRest
  <2>2. CASE x.outstanding > 0 /\ p.resp = x.seqOut
    <3>1. b = HandleResponse(x, p.resp, "performed")
      BY <2>2 DEF ImplicitAck
    <3>5. Fits(x, y, "performed")
      BY <2>2, NamedFits
    <3>6. Pair(b, y, X, Y) /\ SameRest(x, b)
      BY <1>0, <3>1, <3>5, TakeAnswer
    <3>7. b.strReset = x.strReset \/ b.strReset = <<>>
      BY <1>0, <3>1, HandleResponseIs, AnsweredIs
    <3> QED
      BY <3>6, <3>7
  <2> QED
    BY <2>1, <2>2
<1> HIDE DEF b
<1>3. IsAssoc(b) /\ b.seqIn = x.seqIn /\ b.bad = x.bad /\ b.reply = x.reply /\ b.more = x.more
  BY <1>2 DEF Pair, SameRest
<1>4. Linked(c, y, X, Y) /\ Handled(b, c, p) /\ c.strReset = b.strReset
  <2>1. CASE p.seq = b.seqIn
    <3>1. c = RequestOut(b, p, ok)
      BY <1>1, <2>1
    <3>2. /\ IsAssoc(c) /\ SameAsker(b, c) /\ SameSend(b, c)
          /\ c.bad = b.bad /\ c.more = b.more /\ c.incnt = b.incnt
          /\ \/ ok /\ Gave(b, c, p, "performed", <<Response(p.seq, "performed")>>) /\ Accepts(b, c, p)
             \/ /\ ~ok /\ Gave(b, c, p, "denied", <<Response(p.seq, "denied")>>)
                /\ SameData(b, c) /\ c.took = b.took
      BY <1>0, <1>3, <3>1, RequestOutIs
    <3>3. PICK r \in {"performed", "denied"} :
            /\ Gave(b, c, p, r, <<Response(p.seq, r)>>)
            /\ c.took = IF r = "performed" THEN b.took \cup {p} ELSE b.took
      BY <3>2 DEF Accepts
    <3>4. r \in Results /\ r \in Outcome /\ r # "inprogress"
      BY DEF Results, Outcome
    <3>5. b.incnt <= c.incnt
      BY <1>3, <3>2 DEF IsAssoc
    <3>6. Answers(b, c, p, r)
      BY <3>3, <3>5 DEF Answers, Gave
    <3>7. Pair(c, y, X \cup {Response(p.seq, r)}, Y)
      BY <1>0, <1>2, <2>1, <3>2, <3>3, <3>4, <3>6, GiveResult
    <3>8. Handled(b, c, p)
      BY <1>0, <1>3, <2>1, <3>2, <3>3, <3>4, GaveHandled DEF SameAsker
    <3> QED
      BY <3>2, <3>7, <3>8, PairLinked DEF SameAsker
  <2>2. CASE p.seq # b.seqIn
    <3>1. c = Repeat(b, p) /\ p.seq < b.seqIn
      BY <1>0, <1>1, <1>3, <2>2
    <3>2. Pair(c, y, X \cup {Response(p.seq, KnownResult(b, p.seq))}, Y)
      BY <1>2, <3>1, GiveAgain
    <3>3. Handled(b, c, p)
      BY <1>0, <1>3, <3>1, RepeatHandled
    <3>4. SameAsker(b, c)
      BY <1>0, <1>3, <3>1, RepeatIs
    <3> QED
      BY <3>2, <3>3, <3>4, PairLinked DEF SameAsker
  <2> QED
    BY <2>1, <2>2
<1>5. Handled(x, c, p)
  BY <1>2, <1>3, <1>4 DEF Handled
<1> QED
  BY <1>4, <1>5

-----------------------------------------------------------------------------
(* One parameter: the other requests. *)

IsNew(x, p) == p.seq = x.seqIn

\* The requests other than the outgoing reset, which are not new.
LEMMA HandleOld ==
  ASSUME NEW x, NEW y, NEW X, NEW Y, Pair(x, y, X, Y), NEW p \in Y,
         p.seq <= x.seqIn, p.seq # x.seqIn, NEW c, c = Repeat(x, p)
  PROVE  Linked(c, y, X, Y) /\ Handled(x, c, p)
<1>0. p \in Param /\ p.seq \in Int /\ IsAssoc(x) /\ x.seqIn \in Int
  BY ParamFacts DEF Pair, Dir, IsAssoc
<1>1. p.seq < x.seqIn
  BY <1>0
<1>2. Pair(c, y, X \cup {Response(p.seq, KnownResult(x, p.seq))}, Y)
  BY <1>1, GiveAgain
<1>3. Handled(x, c, p)
  BY <1>0, <1>1, RepeatHandled
<1> QED
  BY <1>2, <1>3, PairLinked

LEMMA HandleAddOut ==
  ASSUME NEW x, NEW y, NEW X, NEW Y, Pair(x, y, X, Y), ~x.bad, NEW p \in Y, p.type = "ADDO",
         IsNew(x, p), NEW ok \in BOOLEAN, NEW c, c = RequestAddOut(x, p, ok)
  PROVE  Linked(c, y, X, Y) /\ Handled(x, c, p)
<1>0. p \in Param /\ p.seq \in Int /\ IsAssoc(x) /\ IsAssoc(y) /\ IsReq(p) /\ p.num \in Nat
  BY ParamFacts DEF Pair, Dir, IsReq
<1>n. p.seq = x.seqIn
  BY DEF IsNew
<1>1. /\ IsAssoc(c) /\ SameAsker(x, c) /\ SameSend(x, c) /\ SameData(x, c)
      /\ c.took = x.took /\ c.more = x.more
      /\ \/ c.bad = TRUE /\ c.incnt = x.incnt /\ c.seqIn = x.seqIn /\ c.reply = x.reply
         \/ /\ c.bad = x.bad /\ c.incnt = x.incnt + p.num /\ c.incnt <= MaxInbound
            /\ Gave(x, c, p, "performed", <<Response(p.seq, "performed")>>)
         \/ /\ c.bad = x.bad /\ c.incnt = x.incnt
            /\ Gave(x, c, p, "denied", <<Response(p.seq, "denied")>>)
  <2>1. OpensOrNot(x, c, p)
    BY <1>0, RequestAddOutIs
  <2> QED
    BY <2>1 DEF OpensOrNot
<1>2. CASE c.bad = TRUE /\ c.incnt = x.incnt /\ c.seqIn = x.seqIn /\ c.reply = x.reply
  <2>1. Done(x, y) /\ Done(y, x)
    BY DEF Pair, Dir
  <2>2. Done(c, y) /\ Done(y, c)
    BY <1>1, <1>2, <2>1 DEF Done, SameAsker
  <2>4. c.seqIn \in Int /\ c.seqIn >= x.seqIn
    BY <1>0, <1>2 DEF IsAssoc
  <2>5. Handled(x, c, p)
    BY <1>1, <1>2, <2>4 DEF Handled, ShortReply, SameAsker
  <2> QED
    BY <1>2, <2>2, <2>5 DEF Linked
<1>3. ASSUME NEW r \in {"performed", "denied"}, c.bad = x.bad,
             c.incnt = IF r = "performed" THEN x.incnt + p.num ELSE x.incnt,
             Gave(x, c, p, r, <<Response(p.seq, r)>>)
      PROVE  Linked(c, y, X, Y) /\ Handled(x, c, p)
  <2>1. r \in Results /\ r \in Outcome /\ r # "inprogress"
    BY DEF Results, Outcome
  <2>2. x.incnt <= c.incnt /\ (r = "performed" => x.incnt + p.num <= c.incnt)
    <3>1. x.incnt \in Nat /\ p.num \in Nat
      BY <1>0 DEF IsAssoc
    <3> QED
      BY <1>3, <3>1
  <2>3. Answers(x, c, p, r)
    BY <1>1, <1>3, <2>2 DEF Answers, Gave
  <2>4. Pair(c, y, X \cup {Response(p.seq, r)}, Y)
    BY <1>0, <1>1, <1>3, <2>1, <2>3, <1>n, GiveResult
  <2>5. Handled(x, c, p)
    BY <1>0, <1>1, <1>3, <2>1, <1>n, GaveHandled DEF SameAsker
  <2> QED
    BY <2>4, <2>5, PairLinked
<1> QED
  BY <1>1, <1>2, <1>3

\* A new request for a reset of the incoming streams or for more of them.
LEMMA HandleIn ==
  ASSUME NEW x, NEW y, NEW X, NEW Y, Pair(x, y, X, Y), ~x.bad, NEW p \in Y,
         p.type = "IN", IsNew(x, p), ShortReply(x.reply), NEW ok \in BOOLEAN,
         NEW c, c = RequestIn(x, p, ok), AnsweredAlone(c)
  PROVE  Linked(c, y, X, Y) /\ Handled(x, c, p)
<1>0. /\ p \in Param /\ p.seq \in Int /\ IsAssoc(x) /\ IsAssoc(y) /\ IsReq(p)
      /\ x.outstanding \in 0..2 /\ x.reply \in Seq(Param) /\ x.seqIn \in Int
  BY ParamFacts DEF Pair, Dir, IsReq, Asked, IsAssoc
<1> DEFINE q == OutReq(x.seqOut, p.seq, x.tsn - 1, p.list)
           u == Response(p.seq, "performed")
<1>n. p.seq = x.seqIn
  BY DEF IsNew
<1>1. /\ IsAssoc(c) /\ c.took = x.took /\ c.incnt = x.incnt /\ c.bad = x.bad /\ c.more = x.more
      /\ \/ /\ SameAsker(x, c)
            /\ \E r \in {"denied", "inprogress"} : Gave(x, c, p, r, <<Response(p.seq, r)>>)
         \/ /\ x.outstanding = 0 /\ NewAsk(x, c, q)
            /\ c.strReset = c.reply /\ c.reply = (x.reply \o <<q>>) \o <<u>>
            /\ c.seqIn = x.seqIn + 1
            /\ c.actions[1] = "performed" /\ c.actions[2] = x.actions[1]
  <2>1. AsksBack(x, c, p)
    BY <1>0, RequestInIs
  <2> QED
    BY <2>1 DEF AsksBack
<1>2. x.incnt <= c.incnt
  BY <1>0, <1>1 DEF IsAssoc
<1>3. ASSUME NEW r \in {"denied", "inprogress"}, SameAsker(x, c),
             Gave(x, c, p, r, <<Response(p.seq, r)>>)
      PROVE  Linked(c, y, X, Y) /\ Handled(x, c, p)
  <2>1. r \in Results /\ r \in Outcome
    BY DEF Results, Outcome
  <2>2. Answers(x, c, p, r)
    BY <1>1, <1>2, <1>3 DEF Answers, Gave
  <2>3. Pair(c, y, X \cup {Response(p.seq, r)}, Y)
    BY <1>0, <1>1, <1>3, <2>1, <2>2, <1>n, GiveResult
  <2>4. Handled(x, c, p)
    BY <1>0, <1>1, <1>3, <2>1, <1>n, GaveHandled DEF SameAsker
  <2> QED
    BY <2>3, <2>4, PairLinked
<1>4. CASE /\ x.outstanding = 0 /\ NewAsk(x, c, q)
           /\ c.strReset = c.reply /\ c.reply = (x.reply \o <<q>>) \o <<u>>
           /\ c.seqIn = x.seqIn + 1
           /\ c.actions[1] = "performed" /\ c.actions[2] = x.actions[1]
  <2>1. q \in Param /\ q.type = "OUT" /\ q.resp = p.seq
    BY <1>4 DEF NewAsk, OutReq
  <2>2. u \in Param /\ u.type = "RESP"
    BY <1>0, MakeParam DEF Response, Outcome
  <2>3. Answers(x, c, p, "performed")
    BY <1>1, <1>2, <1>4 DEF Answers
  <2>u. u = Response(p.seq, "performed")
    OBVIOUS
  <2> HIDE DEF q, u
  <2>4. x.reply \o <<q>> \in Seq(Param)
    BY <1>0, <2>1, ReplyType
  <2>5. Rng(c.reply) = (Rng(x.reply) \cup {q}) \cup {u}
    BY <1>0, <1>4, <2>1, <2>2, <2>4, RngAdd
  <2>6. /\ Rng(c.reply) \subseteq Rng(x.reply) \cup {q, u}
        /\ Rng(c.more) \subseteq Rng(x.more) \cup {q}
        /\ Rng(c.strReset) \subseteq Rng(x.reply) \cup {q, u}
    BY <1>1, <1>4, <2>5
  <2>7. Pair(c, y, X \cup {q, u}, Y)
    BY <1>1, <1>4, <2>1, <2>3, <2>u, <2>6, <1>n, GiveAndAsk
  <2>8. c.seqIn \in Int /\ c.seqIn >= x.seqIn /\ c.seqIn > p.seq
    BY <1>0, <1>n, <1>4
  <2>9. Handled(x, c, p)
    BY <1>1, <1>4, <2>1, <2>2, <2>6, <2>8 DEF Handled
  <2> QED
    BY <2>7, <2>9, PairLinked
<1> QED
  BY <1>1, <1>3, <1>4

LEMMA HandleAddIn ==
  ASSUME NEW x, NEW y, NEW X, NEW Y, Pair(x, y, X, Y), ~x.bad, NEW p \in Y,
         p.type = "ADDI", IsNew(x, p), NEW ok \in BOOLEAN,
         NEW c, c = RequestAddIn(x, p, ok)
  PROVE  Linked(c, y, X, Y) /\ Handled(x, c, p)
<1>0. /\ p \in Param /\ p.seq \in Int /\ IsAssoc(x) /\ IsAssoc(y) /\ IsReq(p)
      /\ x.outstanding \in 0..2 /\ x.reply \in Seq(Param) /\ x.seqIn \in Int
      /\ x.outstanding >= 0 /\ (x.outstanding = 0 => ~x.outIs)
  <2>1. x.outIs => x.outstanding > 0
    BY DEF Pair, Dir, OutIsFirst
  <2>2. x.outstanding \in 0..2
    BY DEF Pair, Dir, Asked
  <2>3. x.outstanding >= 0 /\ (x.outstanding = 0 => ~x.outIs)
    BY <2>1, <2>2
  <2> QED
    BY <2>2, <2>3, ParamFacts DEF Pair, Dir, IsReq, IsAssoc
<1> DEFINE q == AddOut(x.seqOut, p.num)
           u == Response(p.seq, "performed")
<1>n. p.seq = x.seqIn
  BY DEF IsNew
<1>1. /\ IsAssoc(c) /\ c.took = x.took /\ c.incnt = x.incnt /\ c.bad = x.bad
      /\ \/ /\ SameAsker(x, c) /\ c.more = x.more
            /\ \E r \in {"denied", "inprogress"} : Gave(x, c, p, r, <<Response(p.seq, r)>>)
         \/ /\ x.outstanding = 0 /\ NewAsk(x, c, q)
            /\ c.strReset = <<q>> /\ c.more = c.strReset
            /\ Gave(x, c, p, "performed", <<u>>)
  BY <1>0, RequestAddInIs
<1>2. x.incnt <= c.incnt
  BY <1>0, <1>1 DEF IsAssoc
<1>3. ASSUME NEW r \in {"denied", "inprogress"}, SameAsker(x, c), c.more = x.more,
             Gave(x, c, p, r, <<Response(p.seq, r)>>)
      PROVE  Linked(c, y, X, Y) /\ Handled(x, c, p)
  <2>1. r \in Results /\ r \in Outcome
    BY DEF Results, Outcome
  <2>2. Answers(x, c, p, r)
    BY <1>1, <1>2, <1>3 DEF Answers, Gave
  <2>3. Pair(c, y, X \cup {Response(p.seq, r)}, Y)
    BY <1>0, <1>1, <1>3, <2>1, <2>2, <1>n, GiveResult
  <2>4. Handled(x, c, p)
    BY <1>0, <1>1, <1>3, <2>1, <1>n, GaveHandled DEF SameAsker
  <2> QED
    BY <2>3, <2>4, PairLinked
<1>4. CASE /\ x.outstanding = 0 /\ NewAsk(x, c, q)
           /\ c.strReset = <<q>> /\ c.more = c.strReset
           /\ Gave(x, c, p, "performed", <<u>>)
  <2>1. q \in Param /\ q.type = "ADDO"
    BY <1>4 DEF NewAsk, AddOut
  <2>2. u \in Param /\ u.type = "RESP"
    BY <1>0, MakeParam DEF Response, Outcome
  <2>3. Answers(x, c, p, "performed")
    BY <1>1, <1>2, <1>4 DEF Answers, Gave
  <2>u. u = Response(p.seq, "performed")
    OBVIOUS
  <2> HIDE DEF q, u
  <2>4. c.reply = x.reply \o <<u>>
    BY <1>4 DEF Gave
  <2>5. Rng(c.reply) = Rng(x.reply) \cup {u} /\ Rng(c.more) = {q} /\ Rng(c.strReset) = {q}
    BY <1>0, <1>4, <2>2, <2>4, RngAdd, RngSmall
  <2>6. /\ Rng(c.reply) \subseteq Rng(x.reply) \cup {q, u}
        /\ Rng(c.more) \subseteq Rng(x.more) \cup {q}
        /\ Rng(c.strReset) \subseteq Rng(x.reply) \cup {q, u}
    BY <2>5
  <2>7. Pair(c, y, X \cup {q, u}, Y)
    BY <1>1, <1>4, <2>1, <2>3, <2>u, <2>6, <1>n, GiveAndAsk
  <2>8. c.seqIn \in Int /\ c.seqIn >= x.seqIn /\ c.seqIn > p.seq
    BY <1>0, <1>n, <1>4 DEF Gave
  <2>9. x.reply = <<>> => ShortReply(c.reply)
    BY <2>2, <2>4 DEF ShortReply, IsReq
  <2>10. Handled(x, c, p)
    BY <1>1, <1>4, <2>1, <2>2, <2>6, <2>8, <2>9 DEF Handled
  <2> QED
    BY <2>7, <2>10, PairLinked
<1> QED
  BY <1>1, <1>3, <1>4

\* Any parameter that was under way.
LEMMA HandleParamIs ==
  ASSUME NEW x, NEW y, NEW X, NEW Y, Pair(x, y, X, Y), ~x.bad, NEW p \in Y,
         IsReq(p) => p.seq <= x.seqIn, ShortReply(x.reply), NEW ok \in BOOLEAN,
         NEW c, c = HandleParam(x, p, ok), p.type = "IN" => AnsweredAlone(c)
  PROVE  Linked(c, y, X, Y) /\ Handled(x, c, p)
<1>0. p \in Param /\ p.type \in {"OUT", "IN", "ADDO", "ADDI", "RESP"}
  BY ParamFacts DEF Pair, Dir
<1>1. CASE p.type = "RESP"
  BY <1>1, HandleResp DEF HandleParam
<1>2. CASE p.type = "OUT"
  BY <1>2, HandleOut DEF IsReq
<1>3. CASE p.type \in {"IN", "ADDO", "ADDI"} /\ p.seq # x.seqIn
  <2>1. c = Repeat(x, p)
    BY <1>3 DEF HandleParam
  <2> QED
    BY <1>3, <2>1, HandleOld DEF IsReq
<1>4. CASE p.type = "IN" /\ p.seq = x.seqIn
  <2>1. c = RequestIn(x, p, ok)
    BY <1>4 DEF HandleParam
  <2> QED
    BY <1>4, <2>1, HandleIn DEF IsNew
<1>5. CASE p.type = "ADDO" /\ p.seq = x.seqIn
  <2>1. c = RequestAddOut(x, p, ok)
    BY <1>5 DEF HandleParam
  <2> QED
    BY <1>5, <2>1, HandleAddOut DEF IsNew
<1>6. CASE p.type = "ADDI" /\ p.seq = x.seqIn
  <2>1. c = RequestAddIn(x, p, ok)
    BY <1>6 DEF HandleParam
  <2> QED
    BY <1>6, <2>1, HandleAddIn DEF IsNew
<1> QED
  BY <1>0, <1>1, <1>2, <1>3, <1>4, <1>5, <1>6

-----------------------------------------------------------------------------
(* Chunks under way. *)

\* A chunk as the endpoint that expects the request n next may get it.
ChunkOK(ps, n) ==
    /\ ps \in Seq(Param) /\ Len(ps) >= 1
    /\ IsReq(ps[1]) => ps[1].seq <= n
    /\ (Len(ps) > 1 /\ IsReq(ps[2])) =>
          (ps[2].seq <= n \/ (IsReq(ps[1]) /\ ps[2].seq <= ps[1].seq + 1))
    /\ ps[1].type = "IN" => Len(ps) = 1

\* The chunks of W on the way to f, and all parameters sent to f by the endpoint a.
To(f, W) == {m \in W : ~IsData(m) /\ m.to = f}
SentTo(f, W, a) == (UNION {Rng(m.params) : m \in To(f, W)}) \cup Rng(a.strReset)

EndOK(a) == IsAssoc(a) /\ a.reply = <<>> /\ a.more = <<>> /\ ~a.bad

LinkOf(A, W) ==
    /\ \A m \in W : m.to \in Ends
    /\ \A e \in Ends :
          /\ EndOK(A[e])
          /\ Dir(A[e], A[Other(e)], SentTo(Other(e), W, A[e]), SentTo(e, W, A[Other(e)]))
          /\ \A m \in To(Other(e), W) : ChunkOK(m.params, A[Other(e)].seqIn)
          /\ A[e].strReset # <<>> => ChunkOK(A[e].strReset, A[Other(e)].seqIn)

LEMMA SentIs ==
  ASSUME NEW f, NEW W, NEW a, NEW z
  PROVE  z \in SentTo(f, W, a) <=> (\E m \in To(f, W) : z \in Rng(m.params)) \/ z \in Rng(a.strReset)
<1> DEFINE T == To(f, W)
           R == Rng(a.strReset)
           U == UNION {Rng(m.params) : m \in T}
<1>1. SentTo(f, W, a) = U \cup R
  BY DEF SentTo
<1> HIDE DEF T, R
<1>2. z \in U => \E m \in T : z \in Rng(m.params)
  <2> SUFFICES ASSUME z \in U PROVE \E m \in T : z \in Rng(m.params)
    OBVIOUS
  <2>1. PICK S \in {Rng(m.params) : m \in T} : z \in S
    OBVIOUS
  <2>2. \E m \in T : S = Rng(m.params)
    BY <2>1
  <2> QED
    BY <2>1, <2>2
<1>3. ASSUME NEW m \in T, z \in Rng(m.params) PROVE z \in U
  <2>1. Rng(m.params) \in {Rng(k.params) : k \in T}
    OBVIOUS
  <2> QED
    BY <1>3, <2>1
<1> HIDE DEF U
<1>4. z \in SentTo(f, W, a) <=> (\E m \in T : z \in Rng(m.params)) \/ z \in R
  BY <1>1, <1>2, <1>3
<1> QED
  BY <1>4 DEF T, R

LEMMA LaterChunk ==
  ASSUME NEW ps, NEW n \in Int, NEW k \in Int, n <= k, ChunkOK(ps, n)
  PROVE  ChunkOK(ps, k)
<1>1. ps[1] \in Param /\ ps[1].seq \in Int
  BY ParamFacts DEF ChunkOK
<1>2. Len(ps) > 1 => ps[2] \in Param /\ ps[2].seq \in Int
  BY ParamFacts DEF ChunkOK
<1> QED
  BY <1>1, <1>2 DEF ChunkOK

LEMMA NotData == \A e, ps : ~IsData(Reconf(e, ps)) /\ Reconf(e, ps).to = Other(e)
                              /\ Reconf(e, ps).params = ps
  BY DEF IsData, Reconf

\* What the step of the endpoint e adds to the wire.
Adds(e, W, V, Z, n) ==
    \A m \in V : \/ m \in W
                 \/ IsData(m) /\ m.to \in Ends
                 \/ \E ps : m = Reconf(e, ps) /\ Rng(ps) \subseteq Z /\ ChunkOK(ps, n)

LEMMA StepLink ==
  ASSUME NEW A, NEW W, LinkOf(A, W), NEW e \in Ends, NEW f, f = Other(e),
         NEW B, B[f] = A[f], EndOK(B[e]), NEW V, NEW Z,
         Dir(B[e], A[f], Z, SentTo(e, W, A[f])), Dir(A[f], B[e], SentTo(e, W, A[f]), Z),
         SentTo(f, W, A[e]) \subseteq Z, Rng(B[e].strReset) \subseteq Z,
         B[e].seqIn >= A[e].seqIn, Adds(e, W, V, Z, A[f].seqIn),
         B[e].strReset \in {A[e].strReset, <<>>} \/ ChunkOK(B[e].strReset, A[f].seqIn)
  PROVE  LinkOf(B, V)
<1>0. f \in Ends /\ f # e /\ Other(f) = e /\ Ends = {e, f}
  BY TwoEnds
<1>1. To(f, V) \subseteq To(f, W) \cup {m \in V : \E ps : m = Reconf(e, ps) /\ Rng(ps) \subseteq Z
                                                            /\ ChunkOK(ps, A[f].seqIn)}
  BY DEF To, Adds
<1>2. To(e, V) \subseteq To(e, W)
  BY <1>0, NotData DEF To, Adds
<1>3. SentTo(f, V, B[e]) \subseteq Z
  <2>1. ASSUME NEW m \in To(f, V) PROVE Rng(m.params) \subseteq Z
    <3>1. CASE m \in To(f, W)
      BY <3>1, SentIs
    <3>2. CASE \E ps : m = Reconf(e, ps) /\ Rng(ps) \subseteq Z
      BY <3>2, NotData
    <3> QED
      BY <1>1, <2>1, <3>1, <3>2
  <2> QED
    BY <2>1, SentIs
<1>4. SentTo(e, V, B[f]) \subseteq SentTo(e, W, A[f])
  BY <1>2, SentIs
<1>5. /\ SameAsker(A[f], B[f]) /\ SameAnswerer(A[f], B[f])
      /\ SameAsker(B[e], B[e]) /\ SameAnswerer(B[e], B[e])
  BY DEF SameAsker, SameAnswerer
<1>6. Dir(B[e], B[f], SentTo(f, V, B[e]), SentTo(e, V, B[f]))
  BY <1>3, <1>4, <1>5, DirSame
<1>7. Dir(B[f], B[e], SentTo(e, V, B[f]), SentTo(f, V, B[e]))
  BY <1>3, <1>4, <1>5, DirSame
<1>8. \A m \in To(f, V) : ChunkOK(m.params, B[f].seqIn)
  <2> TAKE m \in To(f, V)
  <2>1. CASE m \in To(f, W)
    BY <1>0, <2>1 DEF LinkOf
  <2>2. CASE \E ps : m = Reconf(e, ps) /\ ChunkOK(ps, A[f].seqIn)
    BY <2>2, NotData
  <2> QED
    BY <1>1, <2>1, <2>2
<1>9. A[e].seqIn \in Int /\ B[e].seqIn \in Int /\ A[e].seqIn <= B[e].seqIn
  BY DEF LinkOf, EndOK, IsAssoc
<1>10. \A m \in To(e, V) : ChunkOK(m.params, B[e].seqIn)
  <2> TAKE m \in To(e, V)
  <2>1. ChunkOK(m.params, A[e].seqIn)
    BY <1>0, <1>2 DEF LinkOf
  <2> QED
    BY <1>9, <2>1, LaterChunk
<1>11. B[e].strReset # <<>> => ChunkOK(B[e].strReset, B[f].seqIn)
  BY DEF LinkOf
<1>12. B[f].strReset # <<>> => ChunkOK(B[f].strReset, B[e].seqIn)
  BY <1>0, <1>9, LaterChunk DEF LinkOf
<1>13. \A m \in V : m.to \in Ends
  BY <1>0, NotData DEF Adds, LinkOf
<1>14. EndOK(B[f])
  BY <1>0 DEF LinkOf
<1> QED
  BY <1>0, <1>6, <1>7, <1>8, <1>10, <1>11, <1>12, <1>13, <1>14 DEF LinkOf

-----------------------------------------------------------------------------
\* The endpoint e and its peer, before a step.
LEMMA LinkPair ==
  ASSUME NEW A, NEW W, LinkOf(A, W), NEW e \in Ends, NEW f, f = Other(e)
  PROVE  Pair(A[e], A[f], SentTo(f, W, A[e]), SentTo(e, W, A[f])) /\ EndOK(A[e]) /\ EndOK(A[f])
<1>0. f \in Ends /\ Other(f) = e
  BY TwoEnds
<1>1. Dir(A[e], A[f], SentTo(f, W, A[e]), SentTo(e, W, A[f])) /\ EndOK(A[e])
  BY DEF LinkOf
<1>2. Dir(A[f], A[e], SentTo(e, W, A[f]), SentTo(f, W, A[e])) /\ EndOK(A[f])
  BY <1>0 DEF LinkOf
<1>3. Rng(A[e].strReset) \subseteq SentTo(f, W, A[e])
  BY SentIs
<1>4. Rng(A[e].reply) = {} /\ Rng(A[e].more) = {}
  BY <1>1, RngSmall DEF EndOK
<1> QED
  BY <1>1, <1>2, <1>3, <1>4 DEF Pair, EndOK

LEMMA LinkedMore ==
  ASSUME NEW c, NEW y, NEW X, NEW Y, NEW Z, X \subseteq Z, Linked(c, y, Z, Y)
  PROVE  Linked(c, y, X, Y)
  BY DEF Linked

\* A chunk that was under way is handled.
LEMMA HandleParamsIs ==
  ASSUME NEW x, NEW y, NEW X, NEW Y, Pair(x, y, X, Y), EndOK(x),
         NEW ps, Rng(ps) \subseteq Y, ChunkOK(ps, x.seqIn), NEW ok \in BOOLEAN,
         NEW c, c = HandleParams(x, ps, ok), AnsweredAlone(c)
  PROVE  /\ Linked(c, y, X, Y) /\ c.seqIn >= x.seqIn
         /\ \A q \in Rng(c.reply) \cup Rng(c.more) : q.type # "IN"
         /\ ~c.bad => \/ c.strReset \in {x.strReset, <<>>}
                      \/ \A q \in Rng(c.strReset) : q.type # "IN" /\ (IsReq(q) => q.seq <= y.seqIn)
<1> DEFINE b == HandleParam(x, ps[1], ok)
<1>0. /\ ps[1] \in Y /\ IsReq(ps[1]) => ps[1].seq <= x.seqIn
  BY DEF Rng, ChunkOK
<1>1. ~x.bad /\ x.reply = <<>> /\ x.more = <<>> /\ ShortReply(x.reply) /\ IsAssoc(x)
  BY DEF EndOK, ShortReply
<1>2. Rng(x.reply) = {} /\ Rng(x.more) = {}
  BY <1>1, RngSmall
<1>3. c = IF Len(ps) = 1 \/ b.bad THEN b ELSE HandleParam(b, ps[2], ok)
  BY DEF HandleParams
<1>4. ps[1] \in Y
  BY DEF Rng, ChunkOK
<1>5. ps[1].type = "IN" => Len(ps) = 1
  BY DEF ChunkOK
<1>6. ps[1].type = "IN" => AnsweredAlone(b)
  BY <1>3, <1>5
<1>b. b = HandleParam(x, ps[1], ok)
  OBVIOUS
<1> HIDE DEF b
<1>7. Linked(b, y, X, Y) /\ Handled(x, b, ps[1])
  BY <1>0, <1>1, <1>4, <1>6, <1>b, HandleParamIs
<1>8. CASE Len(ps) = 1 \/ b.bad
  <2>1. c = b
    BY <1>3, <1>8
  <2>2. \A q \in Rng(c.reply) \cup Rng(c.more) : q.type # "IN"
    BY <1>2, <1>7, <2>1 DEF Handled
  <2>3. ~c.bad => \A q \in Rng(c.reply) \cup Rng(c.more) : IsReq(q) => q.seq <= y.seqIn
    BY <1>7, <2>1 DEF Linked, Pair
  <2> QED
    BY <1>7, <2>1, <2>2, <2>3 DEF Handled
<1>9. CASE ~(Len(ps) = 1 \/ b.bad)
  <2>1. c = HandleParam(b, ps[2], ok) /\ ~b.bad /\ Len(ps) > 1
    <3>0. ps \in Seq(Param) /\ Len(ps) >= 1
      BY DEF ChunkOK
    <3>1. Len(ps) \in Nat /\ Len(ps) >= 1
      BY <3>0
    <3>2. Len(ps) # 1 /\ ~b.bad
      BY <1>9
    <3>3. c = HandleParam(b, ps[2], ok)
      BY <1>3, <1>9
    <3>4. Len(ps) > 1
      BY <3>1, <3>2
    <3> QED
      BY <3>2, <3>3, <3>4
  <2>2. PICK Z : X \subseteq Z /\ Pair(b, y, Z, Y)
    BY <1>7, <2>1 DEF Linked
  <2>3. ps[2] \in Y /\ ps[1] \in Param /\ ps[2] \in Param
    BY <2>1 DEF Rng, ChunkOK
  <2>4. ps[1].type # "IN"
    BY <1>5, <2>1
  <2>5. ShortReply(b.reply)
    BY <1>1, <1>7, <2>4 DEF Handled
  <2>6. IsReq(ps[2]) => ps[2].seq <= b.seqIn
    <3>1. ps[1].seq \in Int /\ ps[2].seq \in Int /\ b.seqIn \in Int /\ x.seqIn \in Int
      BY <1>1, <2>2, <2>3, ParamFacts DEF Pair, IsAssoc
    <3>2. b.seqIn >= x.seqIn /\ (IsReq(ps[1]) => b.seqIn > ps[1].seq)
      BY <1>7, <2>1 DEF Handled
    <3>3. IsReq(ps[2]) => (ps[2].seq <= x.seqIn \/ (IsReq(ps[1]) /\ ps[2].seq <= ps[1].seq + 1))
      BY <2>1 DEF ChunkOK
    <3> QED
      BY <3>1, <3>2, <3>3
  <2>7. Linked(c, y, Z, Y) /\ Handled(b, c, ps[2])
    BY <2>1, <2>2, <2>3, <2>5, <2>6, HandleParamIs
  <2>8. Linked(c, y, X, Y)
    BY <2>2, <2>7, LinkedMore
  <2>9. c.seqIn >= x.seqIn
    <3>1. c.seqIn >= b.seqIn /\ b.seqIn >= x.seqIn /\ b.seqIn \in Int /\ x.seqIn \in Int
      BY <1>1, <1>7, <2>2, <2>7 DEF Handled, Pair, IsAssoc
    <3>2. c.seqIn \in Int
      BY <2>7 DEF Handled
    <3> QED
      BY <3>1, <3>2
  <2>10. b.strReset \in {x.strReset, <<>>, b.reply, b.more}
    BY <1>7 DEF Handled
  <2>11. \A q \in Rng(b.reply) \cup Rng(b.more) : q.type # "IN"
    BY <1>2, <1>7 DEF Handled
  <2>12. \A q \in Rng(c.reply) \cup Rng(c.more) : q.type # "IN"
    BY <2>7, <2>11 DEF Handled
  <2>13. \A q \in Rng(b.reply) \cup Rng(b.more) : IsReq(q) => q.seq <= y.seqIn
    BY <2>2 DEF Pair
  <2>14. ~c.bad => \A q \in Rng(c.reply) \cup Rng(c.more) : IsReq(q) => q.seq <= y.seqIn
    BY <2>7 DEF Linked, Pair
  <2>15. c.strReset \in {b.strReset, <<>>, c.reply, c.more}
    BY <2>7 DEF Handled
  <2> QED
    BY <2>8, <2>9, <2>10, <2>11, <2>12, <2>13, <2>14, <2>15
<1> QED
  BY <1>8, <1>9

-----------------------------------------------------------------------------
(* The inductive invariant of the link, and the steps of the user. *)

Link == LinkOf(as, wire)

\* The two endpoints agree as long as the association lasts.
LinkInv ==
    /\ use \in Profiles /\ DOMAIN as = Ends
    /\ (over = "no" => Link)
    /\ PerformedAtPeer

\* An answer that carries an outgoing reset (sctp_handle_str_reset_request_in)
\* leaves its sender with no other request outstanding and no number in use twice.
Alone == \A e \in Ends : AnsweredAlone(as[e])

\* An outgoing reset does not name a request that was denied while its sender may
\* still wait for the answer (sctp_send_str_reset_req and the implicit
\* acknowledgement in sctp_handle_stream_reset).
NamesNoDenied ==
    \A e \in Ends : (as'[e].outIs /\ ~as[e].outIs) =>
        (as'[e].actions[1] # "denied" \/ as[Other(e)].outstanding = 0)

LEMMA LinkPerformed ==
  ASSUME NEW A, NEW W, LinkOf(A, W)
  PROVE  \A e \in Ends : A[e].did \subseteq A[Other(e)].took /\ A[e].outcnt <= A[Other(e)].incnt
  BY DEF LinkOf, Dir, Done

LEMMA LinkStep ==
  ASSUME LinkInv, LinkOf(as', wire'), use' = use, DOMAIN as' = Ends
  PROVE  LinkInv'
<1>1. PerformedAtPeer'
  BY LinkPerformed DEF PerformedAtPeer
<1> QED
  BY <1>1 DEF LinkInv, Link

LEMMA OneChanged ==
  ASSUME DOMAIN as = Ends, NEW e \in Ends, NEW c, as' = [as EXCEPT ![e] = c]
  PROVE  as'[e] = c /\ as'[Other(e)] = as[Other(e)] /\ DOMAIN as' = Ends
  BY TwoEnds

\* A step that leaves the requests and answers of e alone.
LEMMA SameLink ==
  ASSUME NEW A, NEW W, LinkOf(A, W), NEW e \in Ends, NEW B, NEW V, B[Other(e)] = A[Other(e)],
         SameAsker(A[e], B[e]), SameAnswerer(A[e], B[e]), EndOK(B[e]),
         \A m \in V : \/ m \in W
                      \/ IsData(m) /\ m.to \in Ends
                      \/ A[e].strReset # <<>> /\ m = Reconf(e, A[e].strReset)
  PROVE  LinkOf(B, V)
<1> DEFINE f == Other(e)
           X == SentTo(f, W, A[e])
           Y == SentTo(e, W, A[f])
<1>0. f \in Ends /\ Other(f) = e
  BY TwoEnds
<1>2. Pair(A[e], A[f], X, Y) /\ EndOK(A[e])
  BY LinkPair
<1>3. SameAsker(A[f], A[f]) /\ SameAnswerer(A[f], A[f])
  BY DEF SameAsker, SameAnswerer
<1>3a. Rng(A[e].strReset) \subseteq X
  BY SentIs
<1> HIDE DEF X, Y
<1>4. Dir(B[e], A[f], X, Y) /\ Dir(A[f], B[e], Y, X)
  BY <1>2, <1>3, DirSame DEF Pair
<1>5. B[e].strReset = A[e].strReset /\ B[e].seqIn = A[e].seqIn /\ A[e].seqIn \in Int
  BY <1>2 DEF SameAsker, SameAnswerer, EndOK, IsAssoc
<1>6. A[e].strReset # <<>> => ChunkOK(A[e].strReset, A[f].seqIn)
  BY DEF LinkOf
<1>7. Adds(e, W, V, X, A[f].seqIn)
  BY <1>3a, <1>6 DEF Adds
<1>8. B[e].seqIn >= A[e].seqIn
  BY <1>5
<1> QED
  BY <1>3a, <1>4, <1>5, <1>7, <1>8, StepLink DEF X, Y

LEMMA SendDataSame ==
  ASSUME NEW a, EndOK(a), NEW s, NEW c, c = [a EXCEPT !.tsn = @ + 1, !.next[s] = @ + 1]
  PROVE  SameAsker(a, c) /\ SameAnswerer(a, c) /\ EndOK(c) /\ SameData(a, c)
<1>2. SameAsker(a, c) /\ SameAnswerer(a, c) /\ SameData(a, c) /\ DOMAIN c = Fields
      /\ c.tsn = a.tsn + 1
      /\ c.reply = a.reply /\ c.more = a.more /\ c.bad = a.bad
  BY DEF SameAsker, SameAnswerer, SameData, EndOK, IsAssoc, Fields
<1>3. c.tsn \in Int
  BY <1>2 DEF EndOK, IsAssoc
<1> QED
  BY <1>2, <1>3 DEF EndOK, IsAssoc, SameAsker, SameAnswerer

LEMMA SendDataLink ==
  ASSUME LinkInv, NEW e \in Ends, NEW s \in DataStreams, SendData(e, s)
  PROVE  LinkInv'
<1> DEFINE c == [as[e] EXCEPT !.tsn = @ + 1, !.next[s] = @ + 1]
           m == Data(e, as[e].tsn, s, as[e].next[s])
<1>0. LinkOf(as, wire) /\ EndOK(as[e]) /\ use' = use /\ DOMAIN as = Ends
  BY DEF LinkInv, SendData, Idle, Link, LinkOf
<1>1. as' = [as EXCEPT ![e] = c] /\ wire' = wire \cup {m}
  BY DEF SendData
<1>2. SameAsker(as[e], c) /\ SameAnswerer(as[e], c) /\ EndOK(c)
  BY <1>0, SendDataSame
<1> HIDE DEF c
<1>3. as'[e] = c /\ as'[Other(e)] = as[Other(e)] /\ DOMAIN as' = Ends
  BY <1>0, <1>1, OneChanged
<1>4. IsData(m) /\ m.to \in Ends
  BY TwoEnds DEF IsData, Data
<1> HIDE DEF m
<1>5. \A n \in wire' : n \in wire \/ (IsData(n) /\ n.to \in Ends)
  BY <1>1, <1>4
<1>6. SameAsker(as[e], as'[e]) /\ SameAnswerer(as[e], as'[e]) /\ EndOK(as'[e])
  BY <1>2, <1>3
<1>7. LinkOf(as', wire')
  BY <1>0, <1>3, <1>5, <1>6, SameLink
<1> QED
  BY <1>0, <1>3, <1>7, LinkStep

\* New requests, one or two.
LEMMA AskLink ==
  ASSUME NEW A, NEW W, LinkOf(A, W), NEW e \in Ends, NEW B, NEW V, B[Other(e)] = A[Other(e)],
         A[e].outstanding = 0, NEW ps, B[e] = SendRequest(A[e], ps),
         V = W \cup {Reconf(e, ps)},
         NEW q \in Param, NEW r \in Param,
         \/ IsReq(q) /\ ps = <<q>> /\ r = q
         \/ ps = <<q, r>> /\ q.type \in {"OUT", "ADDO"} /\ r.type \in {"IN", "ADDI"}
               /\ r.seq = A[e].seqOut + 1,
         q.seq = A[e].seqOut,
         q.type = "OUT" => q.resp = A[e].seqIn - 1,
         B[e].outIs /\ ~A[e].outIs => (B[e].actions[1] # "denied" \/ A[Other(e)].outstanding = 0)
  PROVE  LinkOf(B, V)
<1> DEFINE f == Other(e)
           x == A[e]
           y == A[f]
           X == SentTo(f, W, x)
           Y == SentTo(e, W, y)
           c == SendRequest(x, ps)
           E == {q, r}
<1>0. x.outstanding = 0
  OBVIOUS
<1>1. B[e] = c /\ B[f] = y
  OBVIOUS
<1>2. Pair(x, y, X, Y) /\ EndOK(x) /\ EndOK(y)
  BY LinkPair
<1>3. IsAssoc(x) /\ IsAssoc(y) /\ ~x.outIs /\ x.seqOut \in Int /\ x.seqIn \in Int
  <2>1. x.outIs => x.outstanding > 0
    BY <1>2 DEF Pair, Dir, OutIsFirst
  <2>2. ~x.outIs
    BY <1>0, <2>1
  <2> QED
    BY <1>2, <2>2 DEF EndOK, IsAssoc
<1>3a. c = SendRequest(x, ps) /\ E = {q, r}
  OBVIOUS
<1> HIDE DEF c, X, Y, x, y, E
<1>4. /\ IsAssoc(c) /\ SendFields(x, c, ps) /\ Asked(c) /\ SecondIn(c) /\ OutIsFirst(c)
      /\ \A z \in E : IsReq(z) /\ z \in Param /\ z.seq \in Window(c) /\ z = FirstFound(c, z.seq)
      /\ Rng(ps) = E /\ ps \in Seq(Param) /\ Len(ps) >= 1 /\ (Len(ps) > 1 => r = ps[2] /\ q = ps[1])
      /\ ps[1] = q /\ (q.type = "IN" => Len(ps) = 1) /\ (Len(ps) = 1 \/ r.seq = q.seq + 1)
      /\ (r.type = "OUT" => r = q)
  <2>1. CASE IsReq(q) /\ ps = <<q>> /\ r = q
    <3>1. c = SendRequest(x, <<q>>) /\ E = {q}
      BY <2>1, <1>3a
    <3>2. q \in Param /\ IsReq(q) /\ q.seq = x.seqOut
      BY <2>1 DEF x
    <3>3. /\ IsAssoc(c) /\ SendFields(x, c, <<q>>)
          /\ Asked(c) /\ SecondIn(c) /\ OutIsFirst(c)
          /\ c.seqOut \in Window(c) /\ FirstFound(c, c.seqOut) = q
      BY <1>3, <3>1, <3>2, AskOne
    <3>4. c.seqOut = x.seqOut
      BY <3>3 DEF SendFields
    <3>5. Rng(ps) = {q} /\ ps \in Seq(Param) /\ Len(ps) = 1 /\ ps[1] = q
      BY <2>1, <3>2, RngSmall
    <3> QED
      BY <2>1, <3>1, <3>2, <3>3, <3>4, <3>5
  <2>2. CASE ps = <<q, r>> /\ q.type \in {"OUT", "ADDO"} /\ r.type \in {"IN", "ADDI"}
               /\ r.seq = A[e].seqOut + 1
    <3>1. c = SendRequest(x, <<q, r>>)
      BY <2>2, <1>3a
    <3>2. /\ q \in Param /\ r \in Param /\ IsReq(q) /\ IsReq(r) /\ q.seq = x.seqOut
          /\ r.seq = x.seqOut + 1
      BY <2>2 DEF x, IsReq
    <3>3. /\ IsAssoc(c) /\ SendFields(x, c, <<q, r>>)
          /\ Asked(c) /\ SecondIn(c) /\ OutIsFirst(c)
          /\ c.seqOut \in Window(c) /\ FirstFound(c, c.seqOut) = q
          /\ c.seqOut + 1 \in Window(c) /\ FirstFound(c, c.seqOut + 1) = r
      BY <1>3, <2>2, <3>1, <3>2, AskTwo
    <3>4. c.seqOut = x.seqOut
      BY <3>3 DEF SendFields
    <3>5. ps \in Seq(Param) /\ Len(ps) = 2 /\ ps[1] = q /\ ps[2] = r
      BY <2>2, <3>2
    <3>6. 1..Len(ps) = {1, 2}
      BY <3>5
    <3>7. Rng(ps) = {q, r}
      BY <3>5, <3>6 DEF Rng
    <3> QED
      BY <2>2, <1>3a, <3>2, <3>3, <3>4, <3>5, <3>7
  <2> QED
    BY <2>1, <2>2
<1>5. /\ c.seqOut = x.seqOut /\ c.outcnt = x.outcnt /\ c.did = x.did /\ c.strReset = ps
      /\ SameAnswerer(x, c) /\ c.reply = x.reply /\ c.more = x.more /\ c.bad = x.bad
  BY <1>4 DEF SendFields
<1>6. E \in SUBSET Param /\ \A z \in E : IsReq(z) => z.seq \in Window(c) /\ z = FirstFound(c, z.seq)
  BY <1>4
<1>7. Dir(c, y, X \cup E, Y)
  BY <1>0, <1>2, <1>3, <1>4, <1>5, <1>6, AskDir DEF Pair, x
<1>8. \A z \in E : /\ IsReq(z)
                   /\ z.type = "OUT" => /\ z.resp = x.seqIn - 1
                                        /\ x.actions[1] # "denied" \/ y.outstanding = 0
  <2> SUFFICES ASSUME NEW z \in E, z.type = "OUT"
               PROVE  z.resp = x.seqIn - 1 /\ (x.actions[1] # "denied" \/ y.outstanding = 0)
    BY <1>4
  <2>1. z = q
    BY <1>3a, <1>4
  <2>2. ps[1].type = "OUT" /\ 1 \in 1..Len(ps)
    BY <1>4, <2>1
  <2>3. c.outIs
    BY <1>4, <2>2 DEF SendFields
  <2>4. c.actions[1] # "denied" \/ y.outstanding = 0
    BY <1>1, <1>3, <2>3 DEF x, y
  <2> QED
    BY <2>1, <2>4, <1>5 DEF SameAnswerer, x
<1>9. Dir(y, x, Y, X \cup E)
  BY <1>2, <1>3, <1>6, <1>8, AskNames DEF Pair
<1>10. SameAsker(y, y)
  BY DEF SameAsker
<1>11. Dir(y, c, Y, X \cup E)
  BY <1>5, <1>9, <1>10, DirSame
<1>12. y.seqIn = x.seqOut
  <2>1. y.seqIn \in x.seqOut..(x.seqOut + 0)
    BY <1>0, <1>2 DEF Pair, Dir, InStep, x
  <2> QED
    BY <1>3, <2>1
<1>13. ChunkOK(ps, y.seqIn)
  <2>1. q.seq \in Int /\ r.seq \in Int /\ q.seq <= y.seqIn
    BY <1>3, <1>12, ParamFacts DEF x
  <2>2. Len(ps) > 1 => r.seq = q.seq + 1 /\ r = ps[2] /\ IsReq(ps[1])
    BY <1>4, <1>3a
  <2>3. (Len(ps) > 1 /\ IsReq(ps[2])) => (IsReq(ps[1]) /\ ps[2].seq <= ps[1].seq + 1)
    BY <1>4, <2>1, <2>2
  <2> QED
    BY <1>4, <2>1, <2>3 DEF ChunkOK
<1>14. EndOK(c)
  BY <1>2, <1>4, <1>5 DEF EndOK
<1>15. Adds(e, W, V, X \cup E, y.seqIn)
  BY <1>0, <1>4, <1>13 DEF Adds
<1>16. c.seqIn >= x.seqIn
  BY <1>3, <1>5 DEF SameAnswerer
<1>17. /\ B[f] = A[f] /\ EndOK(B[e]) /\ B[e].seqIn >= A[e].seqIn
       /\ ChunkOK(B[e].strReset, A[f].seqIn)
  BY <1>1, <1>5, <1>13, <1>14, <1>16 DEF x, y
<1>18. /\ Dir(B[e], A[f], X \cup E, SentTo(e, W, A[f]))
       /\ Dir(A[f], B[e], SentTo(e, W, A[f]), X \cup E)
       /\ SentTo(f, W, A[e]) \subseteq X \cup E /\ Rng(B[e].strReset) \subseteq X \cup E
       /\ Adds(e, W, V, X \cup E, A[f].seqIn)
  BY <1>1, <1>4, <1>5, <1>7, <1>11, <1>15 DEF x, y, X, Y
<1> QED
  BY <1>17, <1>18, StepLink

-----------------------------------------------------------------------------
(* Requests of the user, and a RE-CONFIG chunk that arrives. *)

LEMMA AskStep ==
  ASSUME LinkInv, NamesNoDenied, NEW e \in Ends, NEW ps, Ask(e, ps),
         NEW q \in Param, NEW r \in Param,
         \/ IsReq(q) /\ ps = <<q>> /\ r = q
         \/ ps = <<q, r>> /\ q.type \in {"OUT", "ADDO"} /\ r.type \in {"IN", "ADDI"}
               /\ r.seq = as[e].seqOut + 1,
         q.seq = as[e].seqOut,
         q.type = "OUT" => q.resp = as[e].seqIn - 1
  PROVE  LinkInv'
<1>1. /\ LinkOf(as, wire) /\ DOMAIN as = Ends /\ use' = use /\ as[e].outstanding = 0
      /\ wire' = wire \cup {Reconf(e, ps)}
  BY DEF LinkInv, Link, Ask, Idle
<1> DEFINE c == SendRequest(as[e], ps)
<1>2. as' = [as EXCEPT ![e] = c]
  BY DEF Ask
<1> HIDE DEF c
<1>3. as'[e] = c /\ as'[Other(e)] = as[Other(e)] /\ DOMAIN as' = Ends
  BY <1>1, <1>2, OneChanged
<1>4. as'[e].outIs /\ ~as[e].outIs => (as'[e].actions[1] # "denied" \/ as[Other(e)].outstanding = 0)
  BY DEF NamesNoDenied
<1>5. LinkOf(as', wire')
  BY <1>1, <1>3, <1>4, AskLink DEF c
<1> QED
  BY <1>1, <1>3, <1>5, LinkStep

LEMMA LinkTypes ==
  ASSUME LinkInv, over = "no", NEW e \in Ends
  PROVE  /\ LinkOf(as, wire) /\ EndOK(as[e]) /\ as[e].seqOut \in Int /\ as[e].seqIn \in Int
         /\ as[e].tsn \in Int /\ DOMAIN as = Ends
  BY DEF LinkInv, Link, LinkOf, EndOK, IsAssoc

LEMMA UserWays ==
  ASSUME use \in Profiles, NEW e \in Ends
  PROVE  use.resets[e] \subseteq Ways /\ use.adds[e] \subseteq Ways
<1>1. use \in Profile
  BY StrResetAssumption
<1>2. use.resets \in [Ends -> SUBSET Ways] /\ use.adds \in [Ends -> SUBSET Ways]
  BY <1>1 DEF Profile
<1> QED
  BY <1>2

LEMMA ResetStreamsLink ==
  ASSUME LinkInv, NamesNoDenied, NEW e \in Ends, NEW way \in use.resets[e], NEW list \in Lists,
         ResetStreams(e, way, list)
  PROVE  LinkInv'
<1> DEFINE a == as[e]
           out == OutReq(a.seqOut, a.seqIn - 1, a.tsn - 1, list)
           in == InReq(a.seqOut, list)
           in2 == InReq(a.seqOut + 1, list)
<1>0. way \in {"out", "in", "both"} /\ list \in SUBSET Nat
  BY UserWays, StrResetAssumption DEF Ways, LinkInv
<1>1. a.seqOut \in Int /\ a.seqIn - 1 \in Int /\ a.tsn - 1 \in Int /\ a.seqOut + 1 \in Int
  <2>1. over = "no"
    BY DEF ResetStreams, Ask, Idle
  <2> HIDE DEF a
  <2>2. a.seqOut \in Int /\ a.seqIn \in Int /\ a.tsn \in Int
    BY <2>1, LinkTypes DEF a
  <2>3. a.seqIn - 1 \in Int /\ a.tsn - 1 \in Int /\ a.seqOut + 1 \in Int
    BY <2>2
  <2> QED
    BY <2>2, <2>3
<1>2. /\ out \in Param /\ out.type = "OUT" /\ out.seq = a.seqOut /\ out.resp = a.seqIn - 1
  BY <1>0, <1>1, MakeParam DEF OutReq
<1>3. in \in Param /\ in.type = "IN" /\ in.seq = a.seqOut
  BY <1>0, <1>1, MakeParam DEF InReq
<1>4. in2 \in Param /\ in2.type = "IN" /\ in2.seq = a.seqOut + 1
  BY <1>0, <1>1, MakeParam DEF InReq
<1>5. Ask(e, CASE way = "out" -> <<out>>
               [] way = "in" -> <<in>>
               [] way = "both" -> <<out, in2>>)
  BY DEF ResetStreams
<1> HIDE DEF out, in, in2
<1>6. CASE way = "out"
  <2>1. Ask(e, <<out>>)
    BY <1>5, <1>6
  <2> QED
    BY <1>2, <2>1, AskStep DEF IsReq
<1>7. CASE way = "in"
  <2>1. Ask(e, <<in>>)
    BY <1>5, <1>7
  <2> QED
    BY <1>3, <2>1, AskStep DEF IsReq
<1>8. CASE way = "both"
  <2>1. Ask(e, <<out, in2>>)
    BY <1>5, <1>8
  <2> QED
    BY <1>2, <1>4, <2>1, AskStep
<1> QED
  BY <1>0, <1>6, <1>7, <1>8

LEMMA AddStreamsLink ==
  ASSUME LinkInv, NamesNoDenied, NEW e \in Ends, NEW way \in use.adds[e], AddStreams(e, way)
  PROVE  LinkInv'
<1> DEFINE a == as[e]
           out == AddOut(a.seqOut, 1)
           in == AddIn(a.seqOut, 1)
           in2 == AddIn(a.seqOut + 1, 1)
<1>0. way \in {"out", "in", "both"}
  BY UserWays DEF Ways, LinkInv
<1>1. a.seqOut \in Int /\ a.seqOut + 1 \in Int
  <2>1. over = "no"
    BY DEF AddStreams, Ask, Idle
  <2> HIDE DEF a
  <2>2. a.seqOut \in Int
    BY <2>1, LinkTypes DEF a
  <2> QED
    BY <2>2
<1>2. out \in Param /\ out.type = "ADDO" /\ out.seq = a.seqOut
  BY <1>1, MakeParam DEF AddOut
<1>3. in \in Param /\ in.type = "ADDI" /\ in.seq = a.seqOut
  BY <1>1, MakeParam DEF AddIn
<1>4. in2 \in Param /\ in2.type = "ADDI" /\ in2.seq = a.seqOut + 1
  BY <1>1, MakeParam DEF AddIn
<1>5. Ask(e, CASE way = "out" -> <<out>>
               [] way = "in" -> <<in>>
               [] way = "both" -> <<out, in2>>)
  BY DEF AddStreams
<1> HIDE DEF out, in, in2
<1>6. CASE way = "out"
  <2>1. Ask(e, <<out>>)
    BY <1>5, <1>6
  <2> QED
    BY <1>2, <2>1, AskStep DEF IsReq
<1>7. CASE way = "in"
  <2>1. Ask(e, <<in>>)
    BY <1>5, <1>7
  <2> QED
    BY <1>3, <2>1, AskStep DEF IsReq
<1>8. CASE way = "both"
  <2>1. Ask(e, <<out, in2>>)
    BY <1>5, <1>8
  <2> QED
    BY <1>2, <1>4, <2>1, AskStep
<1> QED
  BY <1>0, <1>6, <1>7, <1>8

-----------------------------------------------------------------------------
LEMMA ReplyChunk ==
  ASSUME NEW ps \in Seq(Param), ps # <<>>, NEW n \in Int,
         \A q \in Rng(ps) : q.type # "IN" /\ (IsReq(q) => q.seq <= n)
  PROVE  ChunkOK(ps, n)
<1>1. Len(ps) \in Nat /\ Len(ps) >= 1
  OBVIOUS
<1>2. ps[1] \in Rng(ps) /\ (Len(ps) > 1 => ps[2] \in Rng(ps))
  BY <1>1 DEF Rng
<1> QED
  BY <1>1, <1>2 DEF ChunkOK

\* What the endpoint e sends back after a chunk made it b.
SentBack(e, b) == (IF b.reply = <<>> THEN {} ELSE {Reconf(e, b.reply)})
                     \cup (IF b.more = <<>> THEN {} ELSE {Reconf(e, b.more)})

Flush(b) == [b EXCEPT !.reply = <<>>, !.more = <<>>]

Handles(A, W, e, m, ok, b) ==
    m \in To(e, W) /\ b = HandleParams(A[e], m.params, ok) /\ AnsweredAlone(b)

StillLinked(B, V, b, y) == (~b.bad => LinkOf(B, V)) /\ Done(b, y) /\ Done(y, b)

LEMMA RecvReconfOf ==
  ASSUME NEW A, NEW W, LinkOf(A, W), NEW e \in Ends, NEW m, NEW ok \in BOOLEAN, NEW b,
         Handles(A, W, e, m, ok, b),
         NEW B, B[Other(e)] = A[Other(e)], B[e] = Flush(b),
         NEW V, V \subseteq W \cup SentBack(e, b)
  PROVE  StillLinked(B, V, b, A[Other(e)])
<1> DEFINE f == Other(e)
           x == A[e]
           y == A[f]
           X == SentTo(f, W, x)
           Y == SentTo(e, W, y)
           ps == m.params
<1>0. f \in Ends /\ Other(f) = e
  BY TwoEnds
<1>1. Pair(x, y, X, Y) /\ EndOK(x) /\ EndOK(y)
  BY LinkPair
<1>2. m \in To(e, W) /\ AnsweredAlone(b)
  BY DEF Handles
<1>3. Rng(ps) \subseteq Y
  BY <1>2, SentIs
<1>4. ChunkOK(ps, x.seqIn)
  BY <1>0, <1>2 DEF LinkOf
<1>4a. b = HandleParams(x, ps, ok)
  BY DEF Handles
<1> HIDE DEF x, y, X, Y, ps
<1>5. /\ Linked(b, y, X, Y) /\ b.seqIn >= x.seqIn
      /\ \A q \in Rng(b.reply) \cup Rng(b.more) : q.type # "IN"
      /\ ~b.bad => \/ b.strReset \in {x.strReset, <<>>}
                   \/ \A q \in Rng(b.strReset) : q.type # "IN" /\ (IsReq(q) => q.seq <= y.seqIn)
  BY <1>1, <1>2, <1>3, <1>4, <1>4a, HandleParamsIs
<1>6. Done(b, y) /\ Done(y, b)
  BY <1>5 DEF Linked
<1>7. ASSUME ~b.bad PROVE LinkOf(B, V)
  <2>1. PICK Z : X \subseteq Z /\ Pair(b, y, Z, Y)
    BY <1>5, <1>7 DEF Linked
  <2>2. IsAssoc(b) /\ y.seqIn \in Int
    BY <2>1 DEF Pair, IsAssoc
  <2> DEFINE c == B[e]
  <2>3. /\ DOMAIN c = Fields /\ SameAsker(b, c) /\ SameAnswerer(b, c) /\ c.tsn = b.tsn
        /\ c.bad = b.bad /\ c.reply = <<>> /\ c.more = <<>>
    BY <2>2 DEF Flush, SameAsker, SameAnswerer, IsAssoc, Fields
  <2> HIDE DEF c
  <2>3a. <<>> \in Seq(Param)
    OBVIOUS
  <2>4. EndOK(c)
    BY <1>7, <2>2, <2>3, <2>3a DEF EndOK, IsAssoc, SameAsker, SameAnswerer
  <2>5. SameAsker(y, y) /\ SameAnswerer(y, y)
    BY DEF SameAsker, SameAnswerer
  <2>6. Dir(c, y, Z, Y) /\ Dir(y, c, Y, Z)
    BY <2>1, <2>3, <2>5, DirSame DEF Pair
  <2>7. c.seqIn >= x.seqIn /\ c.strReset = b.strReset /\ Rng(c.strReset) \subseteq Z
    BY <1>5, <2>1, <2>3 DEF SameAnswerer, SameAsker, Pair
  <2>8. /\ \A q \in Rng(b.reply) : q.type # "IN" /\ (IsReq(q) => q.seq <= y.seqIn)
        /\ \A q \in Rng(b.more) : q.type # "IN" /\ (IsReq(q) => q.seq <= y.seqIn)
        /\ Rng(b.reply) \subseteq Z /\ Rng(b.more) \subseteq Z
    BY <1>5, <2>1 DEF Pair
  <2>9. b.reply \in Seq(Param) /\ b.more \in Seq(Param) /\ b.strReset \in Seq(Param)
    BY <2>2 DEF IsAssoc
  <2>10. /\ b.reply # <<>> => ChunkOK(b.reply, y.seqIn)
         /\ b.more # <<>> => ChunkOK(b.more, y.seqIn)
    BY <2>2, <2>8, <2>9, ReplyChunk
  <2>11. c.strReset \in {x.strReset, <<>>} \/ ChunkOK(c.strReset, y.seqIn)
    BY <1>5, <1>7, <2>2, <2>7, <2>9, ReplyChunk
  <2>12. Adds(e, W, V, Z, y.seqIn)
    <3> SUFFICES ASSUME NEW n \in V, n \notin W
                 PROVE  \E qs : n = Reconf(e, qs) /\ Rng(qs) \subseteq Z /\ ChunkOK(qs, y.seqIn)
      BY DEF Adds
    <3>1. (b.reply # <<>> /\ n = Reconf(e, b.reply)) \/ (b.more # <<>> /\ n = Reconf(e, b.more))
      BY DEF SentBack
    <3> QED
      BY <2>8, <2>10, <3>1
  <2>13. /\ EndOK(B[e]) /\ B[e].seqIn >= A[e].seqIn
         /\ B[e].strReset \in {A[e].strReset, <<>>} \/ ChunkOK(B[e].strReset, A[f].seqIn)
    BY <2>4, <2>7, <2>11 DEF c, x, y
  <2>14. /\ Dir(B[e], A[f], Z, SentTo(e, W, A[f])) /\ Dir(A[f], B[e], SentTo(e, W, A[f]), Z)
         /\ SentTo(f, W, A[e]) \subseteq Z /\ Rng(B[e].strReset) \subseteq Z
         /\ Adds(e, W, V, Z, A[f].seqIn)
    BY <2>1, <2>6, <2>7, <2>12 DEF c, x, y, X, Y
  <2> QED
    BY <2>13, <2>14, StepLink
<1> QED
  BY <1>6, <1>7 DEF y, StillLinked

-----------------------------------------------------------------------------
(* The remaining steps. *)

\* PerformedAtPeer after a step of e that may end the association.
LEMMA DonePerformed ==
  ASSUME NEW e \in Ends, Done(as'[e], as'[Other(e)]), Done(as'[Other(e)], as'[e])
  PROVE  PerformedAtPeer'
<1>1. Other(e) \in Ends /\ Other(Other(e)) = e /\ \A f \in Ends : f = e \/ f = Other(e)
  BY TwoEnds
<1>2. \A f \in Ends : Done(as'[f], as'[Other(f)])
  BY <1>1
<1> QED
  BY <1>2 DEF PerformedAtPeer, Done

LEMMA SameAlone ==
  ASSUME NEW b, NEW c, c.strReset = b.strReset, c.outstanding = b.outstanding,
         c.seqOut = b.seqOut, AnsweredAlone(c)
  PROVE  AnsweredAlone(b)
  BY DEF AnsweredAlone

\* The answer is sent and forgotten.
LEMMA Flushed ==
  ASSUME NEW b, DOMAIN b = Fields, NEW c, c = Flush(b)
  PROVE  /\ SameAsker(b, c) /\ SameAnswerer(b, c)
         /\ SameSend(b, c) /\ SameData(b, c) /\ c.bad = b.bad
  BY DEF Flush, Fields, SameAsker, SameAnswerer, SameSend, SameData

LEMMA RespFields ==
  ASSUME NEW a, DOMAIN a = Fields, NEW n, NEW r
  PROVE  DOMAIN HandleResponse(a, n, r) = Fields
<1>1. ASSUME NEW p PROVE DOMAIN Answered(a, p, r) = Fields
  <2>1. CASE p.type = "OUT"
    BY <2>1 DEF Answered, ResetOutStreams
  <2>2. CASE p.type = "ADDO"
    BY <2>2 DEF Answered
  <2>3. CASE p.type # "OUT" /\ p.type # "ADDO"
    BY <2>3 DEF Answered
  <2> QED
    BY <2>1, <2>2, <2>3
<1>2. ASSUME NEW b, DOMAIN b = Fields PROVE DOMAIN CleanUp(b) = Fields
  BY <1>2 DEF CleanUp
<1> QED
  BY <1>1, <1>2 DEF HandleResponse

LEMMA ResultFields ==
  ASSUME NEW a, DOMAIN a = Fields, NEW p, NEW r
  PROVE  DOMAIN Result(a, p, r) = Fields /\ DOMAIN Repeat(a, p) = Fields
  BY DEF Result, Repeat, Reply

LEMMA ParamFields ==
  ASSUME NEW a, DOMAIN a = Fields, NEW p \in Param, NEW ok
  PROVE  DOMAIN HandleParam(a, p, ok) = Fields
<1>0. p.type \in {"OUT", "IN", "ADDO", "ADDI", "RESP"}
  BY ParamFacts
<1>1. CASE p.type = "RESP"
  BY <1>1, RespFields DEF HandleParam
<1>2. CASE p.type = "OUT"
  <2> DEFINE b == ImplicitAck(a, p)
  <2>1. DOMAIN b = Fields
    BY RespFields DEF ImplicitAck
  <2>2. HandleParam(a, p, ok) = IF p.seq = b.seqIn THEN RequestOut(b, p, ok) ELSE Repeat(b, p)
    BY <1>2 DEF HandleParam
  <2> HIDE DEF b
  <2>3. DOMAIN RequestOut(b, p, ok) = Fields
    <3> DEFINE c == [b EXCEPT !.took = @ \cup {p}]
               d == IF b.cum >= p.tsn THEN ResetInStream(c, p.list)
                    ELSE [c EXCEPT !.resetHead = Append(@, [tsn |-> p.tsn, list |-> p.list])]
    <3>1. DOMAIN d = Fields
      BY <2>1 DEF ResetInStream
    <3>2. RequestOut(b, p, ok) = IF ~ok THEN Result(b, p, "denied") ELSE Result(d, p, "performed")
      BY DEF RequestOut
    <3> HIDE DEF d
    <3> QED
      BY <2>1, <3>1, <3>2, ResultFields
  <2> QED
    BY <2>1, <2>2, <2>3, ResultFields
<1>3. CASE p.type = "IN"
  <2> DEFINE d == Reply(a, <<OutReq(a.seqOut, p.seq, a.tsn - 1, p.list)>>)
             b == Result(d, p, "performed")
  <2>1. DOMAIN d = Fields
    BY DEF Reply
  <2> HIDE DEF d
  <2>2. DOMAIN b = Fields
    BY <2>1, ResultFields
  <2>3. RequestIn(a, p, ok) \in {Result(a, p, "denied"), Result(a, p, "inprogress"),
          [b EXCEPT !.outIs = TRUE, !.strReset = b.reply, !.outstanding = @ + 1]}
    BY DEF RequestIn, d
  <2> HIDE DEF b
  <2>4. DOMAIN RequestIn(a, p, ok) = Fields
    BY <2>2, <2>3, ResultFields
  <2> QED
    BY <1>3, <2>4, ResultFields DEF HandleParam
<1>4. CASE p.type = "ADDO"
  <2> DEFINE d == [a EXCEPT !.incnt = @ + p.num]
  <2>1. DOMAIN d = Fields
    OBVIOUS
  <2>2. RequestAddOut(a, p, ok) \in {Result(a, p, "denied"), [a EXCEPT !.bad = TRUE],
                                     Result(d, p, "performed")}
    BY DEF RequestAddOut
  <2> HIDE DEF d
  <2>3. DOMAIN RequestAddOut(a, p, ok) = Fields
    BY <2>1, <2>2, ResultFields
  <2> QED
    BY <1>4, <2>3, ResultFields DEF HandleParam
<1>5. CASE p.type = "ADDI"
  <2> DEFINE q == <<AddOut(a.seqOut, p.num)>>
             d == [SendRequest(a, q) EXCEPT !.more = q]
  <2>1. DOMAIN d = Fields
    BY DEF SendRequest
  <2>2. RequestAddIn(a, p, ok) \in {Result(a, p, "denied"), Result(a, p, "inprogress"),
                                    Result(d, p, "performed")}
    BY DEF RequestAddIn
  <2> HIDE DEF d
  <2>3. DOMAIN RequestAddIn(a, p, ok) = Fields
    BY <2>1, <2>2, ResultFields
  <2> QED
    BY <1>5, <2>3, ResultFields DEF HandleParam
<1> QED
  BY <1>0, <1>1, <1>2, <1>3, <1>4, <1>5

LEMMA HandledFields ==
  ASSUME NEW a, DOMAIN a = Fields, NEW ps \in Seq(Param), Len(ps) >= 1, NEW ok
  PROVE  DOMAIN HandleParams(a, ps, ok) = Fields
<1> DEFINE b == HandleParam(a, ps[1], ok)
<1>0. Len(ps) \in Nat
  OBVIOUS
<1>0a. 1 \in 1..Len(ps) /\ (Len(ps) # 1 => 2 \in 1..Len(ps))
  BY <1>0
<1>1. ps[1] \in Param /\ (Len(ps) # 1 => ps[2] \in Param)
  BY <1>0a
<1>2. DOMAIN b = Fields
  BY <1>1, ParamFields
<1>3. HandleParams(a, ps, ok) = IF Len(ps) = 1 \/ b.bad THEN b ELSE HandleParam(b, ps[2], ok)
  BY DEF HandleParams
<1> HIDE DEF b
<1>4. Len(ps) # 1 => DOMAIN HandleParam(b, ps[2], ok) = Fields
  BY <1>1, <1>2, ParamFields
<1> QED
  BY <1>2, <1>3, <1>4

-----------------------------------------------------------------------------
LEMMA RecvReconfLink ==
  ASSUME LinkInv, Alone', NEW m \in wire, NEW ok \in BOOLEAN, NEW keep \in BOOLEAN,
         RecvReconf(m.to, m, ok, keep)
  PROVE  LinkInv'
<1> DEFINE e == m.to
           f == Other(e)
           b == HandleParams(as[e], m.params, ok)
           c == Flush(b)
<1>0. over = "no" /\ ~IsData(m) /\ use' = use /\ LinkOf(as, wire) /\ DOMAIN as = Ends
  BY DEF RecvReconf, LinkInv, Link
<1>1. e \in Ends
  BY <1>0 DEF LinkOf
<1>2. as' = [as EXCEPT ![e] = c]
  BY DEF RecvReconf, Flush
<1>3. over' = IF b.bad THEN "crash" ELSE "no"
  BY DEF RecvReconf
<1>4. wire' \subseteq wire \cup SentBack(e, b)
  BY DEF RecvReconf, SentBack
<1>5. DOMAIN b = Fields
  <2>1. m \in To(e, wire) /\ f \in Ends /\ Other(f) = e
    BY <1>0, <1>1, TwoEnds DEF To
  <2>2. ChunkOK(m.params, as[e].seqIn)
    BY <1>0, <2>1 DEF LinkOf
  <2>3. DOMAIN as[e] = Fields
    BY <1>0, <1>1 DEF LinkOf, EndOK, IsAssoc
  <2> QED
    BY <2>2, <2>3, HandledFields DEF ChunkOK
<1>6. c = Flush(b) /\ b = HandleParams(as[e], m.params, ok)
  OBVIOUS
<1> HIDE DEF b, c, e
<1>7. SameAsker(b, c) /\ SameAnswerer(b, c)
  BY <1>5, <1>6, Flushed
<1>8. as'[e] = c /\ as'[f] = as[f] /\ DOMAIN as' = Ends
  BY <1>0, <1>1, <1>2, OneChanged
<1>9. AnsweredAlone(c)
  BY <1>1, <1>8 DEF Alone
<1>10. AnsweredAlone(b)
  BY <1>7, <1>9, SameAlone DEF SameAsker
<1>11. as'[e] = Flush(b)
  BY <1>6, <1>8
<1>12. Handles(as, wire, e, m, ok, b)
  BY <1>0, <1>6, <1>10 DEF Handles, To, e
<1>12a. StillLinked(as', wire', b, as[f])
  BY <1>0, <1>1, <1>4, <1>8, <1>11, <1>12, RecvReconfOf
<1>13. CASE ~b.bad
  BY <1>0, <1>8, <1>12a, <1>13, LinkStep DEF StillLinked
<1>14. CASE b.bad
  <2>1. Done(as'[e], as'[f]) /\ Done(as'[f], as'[e])
    BY <1>7, <1>8, <1>12a DEF StillLinked, Done, SameAsker, SameAnswerer
  <2>2. PerformedAtPeer'
    BY <1>1, <2>1, DonePerformed
  <2>3. over' # "no"
    BY <1>3, <1>14
  <2> QED
    BY <1>0, <1>8, <2>2, <2>3 DEF LinkInv
<1> QED
  BY <1>13, <1>14

LEMMA RecvDataLink ==
  ASSUME LinkInv, NEW m \in wire, RecvData(m.to, m)
  PROVE  LinkInv'
<1> DEFINE e == m.to
           f == Other(e)
           c == ProcessData(as[e], m)
<1>0. /\ over = "no" /\ use' = use /\ LinkOf(as, wire) /\ DOMAIN as = Ends
      /\ wire' = wire \ {m} /\ over' = IF c.bad THEN "protocol" ELSE "no"
      /\ as' = [as EXCEPT ![e] = c]
  BY DEF RecvData, LinkInv, Link
<1>1. e \in Ends
  BY <1>0 DEF LinkOf
<1>2. EndOK(as[e]) /\ DOMAIN as[e] = Fields
  BY <1>0, <1>1 DEF LinkOf, EndOK, IsAssoc
<1>3. SameControl(as[e], c)
  BY <1>2, ProcessDataControl
<1> HIDE DEF c, e
<1>4. as'[e] = c /\ as'[f] = as[f] /\ DOMAIN as' = Ends
  BY <1>0, <1>1, OneChanged
<1>5. SameAsker(as[e], c) /\ SameAnswerer(as[e], c)
  BY <1>3 DEF SameControl, SameAsker, SameAnswerer
<1>6. CASE ~c.bad
  <2>1. IsAssoc(c) /\ c.reply = <<>> /\ c.more = <<>>
    BY <1>2, <1>3 DEF SameControl, EndOK, IsAssoc
  <2>2. EndOK(c)
    BY <1>6, <2>1 DEF EndOK
  <2>3. SameAsker(as[e], as'[e]) /\ SameAnswerer(as[e], as'[e]) /\ EndOK(as'[e])
    BY <1>4, <1>5, <2>2
  <2>4. \A n \in wire' : n \in wire
    BY <1>0
  <2>5. LinkOf(as', wire')
    BY <1>0, <1>1, <1>4, <2>3, <2>4, SameLink
  <2> QED
    BY <1>0, <1>4, <2>5, LinkStep
<1>7. CASE c.bad
  <2>1. Done(as[e], as[f]) /\ Done(as[f], as[e])
    BY <1>0, <1>1, TwoEnds DEF LinkOf, Dir
  <2>2. Done(as'[e], as'[f]) /\ Done(as'[f], as'[e])
    BY <1>4, <1>5, <2>1 DEF Done, SameAsker, SameAnswerer
  <2>3. PerformedAtPeer'
    BY <1>1, <2>2, DonePerformed
  <2>4. over' # "no"
    BY <1>0, <1>7
  <2> QED
    BY <1>0, <1>4, <2>3, <2>4 DEF LinkInv
<1> QED
  BY <1>6, <1>7

LEMMA TimerLink ==
  ASSUME LinkInv, NEW e \in Ends, TimerExpires(e)
  PROVE  LinkInv'
<1>0. over = "no" /\ use' = use /\ LinkOf(as, wire) /\ DOMAIN as = Ends
  BY DEF TimerExpires, LinkInv, Link
<1>1. EndOK(as[e]) /\ Asked(as[e])
  BY <1>0 DEF LinkOf, Dir
<1>2. CASE as[e].outstanding = 0 \/ as[e].strReset = <<>>
  <2> DEFINE c == [as[e] EXCEPT !.timer = FALSE, !.outstanding = 0]
  <2>1. as' = [as EXCEPT ![e] = c] /\ wire' = wire
    BY <1>2 DEF TimerExpires
  <2>2. as[e].outstanding = 0
    <3> SUFFICES ASSUME as[e].strReset = <<>> PROVE as[e].outstanding = 0
      BY <1>2
    <3> DEFINE a == as[e]
    <3>1. a.outstanding \in 0..2 /\ a.seqOut \in Int /\ a.strReset = <<>>
          /\ \A n \in Window(a) : Found(a, n) # {}
      BY <1>1 DEF Asked, EndOK, IsAssoc
    <3> HIDE DEF a
    <3>2. \A n : Found(a, n) = {}
      BY <3>1 DEF Found
    <3>3. a.outstanding # 0 => a.seqOut \in Window(a)
      BY <3>1 DEF Window
    <3> QED
      BY <3>1, <3>2, <3>3 DEF a
  <2>3. /\ SameAsker(as[e], c) /\ SameAnswerer(as[e], c) /\ DOMAIN c = Fields
        /\ c.tsn = as[e].tsn /\ c.reply = as[e].reply /\ c.more = as[e].more /\ c.bad = as[e].bad
    BY <1>1, <2>2 DEF SameAsker, SameAnswerer, EndOK, IsAssoc, Fields
  <2> HIDE DEF c
  <2>4. EndOK(c)
    BY <1>1, <2>3 DEF EndOK, IsAssoc, SameAsker, SameAnswerer
  <2>5. as'[e] = c /\ as'[Other(e)] = as[Other(e)] /\ DOMAIN as' = Ends
    BY <1>0, <2>1, OneChanged
  <2>6. SameAsker(as[e], as'[e]) /\ SameAnswerer(as[e], as'[e]) /\ EndOK(as'[e])
    BY <2>3, <2>4, <2>5
  <2>7. \A n \in wire' : n \in wire
    BY <2>1
  <2>8. LinkOf(as', wire')
    BY <1>0, <2>5, <2>6, <2>7, SameLink
  <2> QED
    BY <1>0, <2>5, <2>8, LinkStep
<1>3. CASE ~(as[e].outstanding = 0 \/ as[e].strReset = <<>>)
  <2>1. as' = as /\ (\/ over' = "threshold" /\ wire' = wire
                     \/ wire' = wire \cup {Reconf(e, as[e].strReset)})
    BY <1>3 DEF TimerExpires
  <2>2. CASE over' = "threshold"
    BY <1>0, <2>1, <2>2 DEF LinkInv, PerformedAtPeer
  <2>3. CASE wire' = wire \cup {Reconf(e, as[e].strReset)}
    <3>1. SameAsker(as[e], as'[e]) /\ SameAnswerer(as[e], as'[e]) /\ EndOK(as'[e])
          /\ as'[Other(e)] = as[Other(e)] /\ DOMAIN as' = Ends
      BY <1>0, <1>1, <2>1 DEF SameAsker, SameAnswerer
    <3>2. \A n \in wire' : n \in wire \/ (as[e].strReset # <<>> /\ n = Reconf(e, as[e].strReset))
      BY <1>3, <2>3
    <3>3. LinkOf(as', wire')
      BY <1>0, <3>1, <3>2, SameLink
    <3> QED
      BY <1>0, <3>1, <3>3, LinkStep
  <2> QED
    BY <2>1, <2>2, <2>3
<1> QED
  BY <1>2, <1>3

LEMMA LoseLink ==
  ASSUME LinkInv, NEW m \in wire, Lose(m)
  PROVE  LinkInv'
<1>0. /\ use' = use /\ LinkOf(as, wire) /\ DOMAIN as = Ends /\ as' = as
      /\ \A n \in wire' : n \in wire
  BY DEF Lose, LinkInv, Link
<1>1. m.to \in Ends
  BY <1>0 DEF LinkOf
<1>2. SameAsker(as[m.to], as'[m.to]) /\ SameAnswerer(as[m.to], as'[m.to]) /\ EndOK(as'[m.to])
      /\ as'[Other(m.to)] = as[Other(m.to)] /\ DOMAIN as' = Ends
  BY <1>0, <1>1 DEF SameAsker, SameAnswerer, LinkOf
<1>3. LinkOf(as', wire')
  BY <1>0, <1>1, <1>2, SameLink
<1> QED
  BY <1>0, <1>2, <1>3, LinkStep

-----------------------------------------------------------------------------
(* The link holds. *)

LEMMA FreshDir ==
  ASSUME NEW a, NEW b, IsAssoc(a), IsAssoc(b), a.outstanding = 0, a.strReset = <<>>, ~a.outIs,
         b.strReset = <<>>, b.seqIn = a.seqOut, a.did = {}, a.outcnt <= b.incnt
  PROVE  Dir(a, b, {}, {})
<1>1. a.seqOut \in Int
  BY DEF IsAssoc
<1>2. Window(a) = {}
  BY <1>1 DEF Window
<1>3. a.seqOut..(b.seqIn - 1) = {}
  BY <1>1
<1>4. Asked(a) /\ SecondIn(a) /\ OutIsFirst(a)
  BY <1>2 DEF Asked, SecondIn, OutIsFirst
<1>5. InStep(a, b)
  BY <1>1 DEF InStep
<1>6. Decided(a, b) /\ Done(a, b)
  BY <1>3 DEF Decided, Done
<1>7. OwnRequests(a, {}) /\ TrueAnswers(a, b, {}) /\ TrueNames(a, b, {})
  BY DEF OwnRequests, TrueAnswers, TrueNames
<1> QED
  BY <1>4, <1>5, <1>6, <1>7 DEF Dir

LEMMA InitLink == Init => LinkInv
<1> SUFFICES ASSUME Init PROVE LinkInv
  OBVIOUS
<1>1. use \in Profiles /\ DOMAIN as = Ends /\ wire = {}
  BY DEF Init
<1>2. ASSUME NEW e \in Ends
      PROVE  /\ EndOK(as[e]) /\ as[e].outstanding = 0 /\ as[e].strReset = <<>> /\ ~as[e].outIs
             /\ as[e].seqOut = InitSeq[e] /\ as[e].seqIn = InitSeq[Other(e)] /\ as[e].did = {}
             /\ as[e].outcnt = InitStreams /\ as[e].incnt = InitStreams /\ InitStreams \in Nat
  <2>1. as[e] = [seqOut |-> InitSeq[e], seqIn |-> InitSeq[Other(e)],
                actions |-> <<"none", "none">>, outstanding |-> 0, outIs |-> FALSE,
                strReset |-> <<>>, timer |-> FALSE, adding |-> 0,
                outcnt |-> InitStreams, incnt |-> InitStreams,
                tsn |-> 1, next |-> [s \in Streams |-> 0],
                cum |-> 0, got |-> {}, last |-> [s \in Streams |-> -1],
                inqueue |-> [s \in Streams |-> {}], resetHead |-> <<>>, pending |-> {},
                read |-> <<>>, bad |-> FALSE, did |-> {}, took |-> {},
                reply |-> <<>>, more |-> <<>>]
    BY DEF Init
  <2> DEFINE a == as[e]
  <2>2. /\ DOMAIN a = Fields /\ a.outstanding = 0 /\ a.strReset = <<>> /\ a.outIs = FALSE
        /\ a.seqOut = InitSeq[e] /\ a.seqIn = InitSeq[Other(e)] /\ a.did = {}
        /\ a.outcnt = InitStreams /\ a.incnt = InitStreams /\ a.reply = <<>> /\ a.more = <<>>
        /\ a.bad = FALSE /\ a.tsn = 1 /\ a.adding = 0
        /\ a.actions[1] = "none" /\ a.actions[2] = "none"
    BY <2>1 DEF Fields
  <2> HIDE DEF a
  <2>3. InitSeq[e] \in Int /\ InitSeq[Other(e)] \in Int /\ InitStreams \in Nat
    <3>1. Other(e) \in Ends /\ InitSeq \in [Ends -> Nat] /\ InitStreams \in 1..MaxInbound
          /\ MaxInbound \in Nat
      BY StrResetAssumption, TwoEnds
    <3> QED
      BY <3>1
  <2>4. "none" \in Outcome /\ <<>> \in Seq(Param)
    BY DEF Outcome
  <2>5. IsAssoc(a)
    <3>1. a.seqOut \in Int /\ a.seqIn \in Int /\ a.outstanding \in Int /\ a.tsn \in Int
      BY <2>2, <2>3
    <3>2. a.strReset \in Seq(Param) /\ a.reply \in Seq(Param) /\ a.more \in Seq(Param)
      BY <2>2, <2>4
    <3>3. a.outIs \in BOOLEAN
      BY <2>2
    <3>4. a.adding \in Nat /\ a.outcnt \in Nat /\ a.incnt \in Nat
      BY <2>2, <2>3
    <3>5. a.actions[1] \in Outcome /\ a.actions[2] \in Outcome
      BY <2>2, <2>4
    <3> QED
      BY <2>2, <3>1, <3>2, <3>3, <3>4, <3>5 DEF IsAssoc
  <2> QED
    BY <2>2, <2>3, <2>5 DEF a, EndOK
<1>3. ASSUME NEW e \in Ends
      PROVE  Dir(as[e], as[Other(e)], {}, {})
  <2>1. Other(e) \in Ends /\ Other(Other(e)) = e
    BY TwoEnds
  <2>1a. as[e].outcnt = InitStreams /\ as[Other(e)].incnt = InitStreams /\ InitStreams \in Nat
    BY <1>2, <2>1
  <2>1b. \A i \in Nat : i <= i
    OBVIOUS
  <2>2. as[e].outcnt <= as[Other(e)].incnt
    BY <2>1a, <2>1b
  <2> QED
    BY <1>2, <2>1, <2>2, FreshDir DEF EndOK
<1>4. ASSUME NEW e \in Ends
      PROVE  To(e, wire) = {} /\ SentTo(e, wire, as[Other(e)]) = {}
  <2>1. To(e, wire) = {}
    BY <1>1 DEF To
  <2>2. Rng(as[Other(e)].strReset) = {}
    BY <1>2, TwoEnds, RngSmall
  <2> QED
    BY <2>1, <2>2, SentIs
<1>5. ASSUME NEW e \in Ends
      PROVE  To(Other(e), wire) = {} /\ SentTo(Other(e), wire, as[e]) = {}
  BY <1>4, TwoEnds
<1>6. LinkOf(as, wire)
  BY <1>1, <1>2, <1>3, <1>4, <1>5 DEF LinkOf
<1>7. PerformedAtPeer
  BY <1>6, LinkPerformed DEF PerformedAtPeer
<1> QED
  BY <1>1, <1>6, <1>7 DEF LinkInv, Link

LEMMA NextLink ==
  ASSUME LinkInv, Alone', NamesNoDenied, [Next]_vars
  PROVE  LinkInv'
<1>1. CASE \E e \in Senders, s \in DataStreams : SendData(e, s)
  BY <1>1, SendDataLink, StrResetAssumption
<1>2. CASE \E e \in Ends : \E way \in use.resets[e], list \in Lists : ResetStreams(e, way, list)
  BY <1>2, ResetStreamsLink
<1>3. CASE \E e \in Ends : \E way \in use.adds[e] : AddStreams(e, way)
  BY <1>3, AddStreamsLink
<1>4. CASE \E m \in wire, ok, keep \in BOOLEAN : RecvReconf(m.to, m, ok, keep)
  BY <1>4, RecvReconfLink
<1>5. CASE \E m \in wire : RecvData(m.to, m)
  BY <1>5, RecvDataLink
<1>6. CASE \E e \in Ends : TimerExpires(e)
  BY <1>6, TimerLink
<1>7. CASE \E m \in wire : Lose(m)
  BY <1>7, LoseLink
<1>8. CASE UNCHANGED vars
  BY <1>8 DEF vars, LinkInv, Link, PerformedAtPeer
<1> QED
  BY <1>1, <1>2, <1>3, <1>4, <1>5, <1>6, <1>7, <1>8 DEF Next

\* The requests outstanding at one endpoint, the results remembered at the other and
\* every request and answer under way agree, however often RE-CONFIG chunks are lost,
\* repeated or reordered (sctp_handle_stream_reset, str_reset_seq_in, last_reset_action).
THEOREM LinkHolds == Spec /\ []Alone /\ [][NamesNoDenied]_vars => []LinkInv
<1>1. Init => LinkInv
  BY InitLink
<1>2. LinkInv /\ Alone' /\ [NamesNoDenied]_vars /\ [Next]_vars => LinkInv'
  <2> SUFFICES ASSUME LinkInv, Alone', [NamesNoDenied]_vars, [Next]_vars PROVE LinkInv'
    OBVIOUS
  <2>1. CASE NamesNoDenied
    BY <2>1, NextLink
  <2>2. CASE UNCHANGED vars
    BY <2>2 DEF vars, LinkInv, Link, PerformedAtPeer
  <2> QED
    BY <2>1, <2>2
<1> QED
  BY <1>1, <1>2, PTL DEF Spec

\* What an endpoint takes for done its peer did: the resets answered as performed were
\* accepted, and no endpoint may send on a stream its peer has not opened
\* (sctp_handle_stream_reset_response).
THEOREM PerformedSafe == Spec /\ []Alone /\ [][NamesNoDenied]_vars => []PerformedAtPeer
<1>1. LinkInv => PerformedAtPeer
  BY DEF LinkInv
<1> QED
  BY <1>1, LinkHolds, PTL

-----------------------------------------------------------------------------
(* Ordered delivery on one stream.  Between two resets the SSN of a chunk *)
(* is its TSN less that of the first one, its base. *)

\* The stream all data is sent on.
Stm == CHOOSE s \in DataStreams : TRUE
OneStream == DataStreams = {Stm} /\ Stm < InitStreams

Chunk == [to : Ends, tsn : Nat, strm : {Stm}, ssn : Int]
WaitingReset == [tsn : Int, list : SUBSET Nat]

Resets(list) == list = {} \/ Stm \in list

\* The TSNs SSN 0 belongs to, and the one that counts at the TSN t.
Bases(T) == {1} \cup {p.tsn + 1 : p \in {q \in T : Resets(q.list)}}
IsBase(n, B, t) == n \in B /\ n <= t /\ \A m \in B : m <= t => m <= n
Numbered(c, B) == \E n : IsBase(n, B, c.tsn) /\ c.ssn = c.tsn - n

IsOuts(T) == T \subseteq Param /\ \A p \in T : p.type = "OUT"

LEMMA BasesIs ==
  ASSUME NEW T, NEW n
  PROVE  n \in Bases(T) <=> n = 1 \/ \E p \in T : Resets(p.list) /\ n = p.tsn + 1
  BY DEF Bases

LEMMA BasesInt ==
  ASSUME NEW T, IsOuts(T)
  PROVE  Bases(T) \subseteq Int
<1>1. \A p \in T : p.tsn \in Int
  BY ParamFacts DEF IsOuts
<1> QED
  BY <1>1, BasesIs

LEMMA BaseUnique ==
  ASSUME NEW B \in SUBSET Int, NEW t \in Int, NEW n, NEW m, IsBase(n, B, t), IsBase(m, B, t)
  PROVE  n = m
<1>1. n \in Int /\ m \in Int /\ n <= m /\ m <= n
  BY DEF IsBase
<1> QED
  BY <1>1

LEMMA StmFacts ==
  ASSUME OneStream
  PROVE  /\ Stm \in Streams /\ Stm \in Nat /\ DataStreams = {Stm} /\ InitStreams \in Nat
         /\ \A k \in Nat : \A list : k >= InitStreams => (Stm \in Listed(list, k) <=> Resets(list))
<1>1. Stm \in DataStreams /\ DataStreams \subseteq Nat /\ Stm < InitStreams
      /\ InitStreams \in 1..MaxInbound /\ MaxInbound \in Nat
  BY StrResetAssumption DEF OneStream
<1>2. Stm \in Nat /\ InitStreams \in Nat /\ InitStreams <= MaxInbound
  BY <1>1
<1>3. Stm \in Streams
  BY <1>1, <1>2 DEF Streams
<1>4. ASSUME NEW k \in Nat, NEW list, k >= InitStreams
      PROVE  Stm \in Listed(list, k) <=> Resets(list)
  <2>1. Stm \in 0..(k - 1)
    BY <1>1, <1>2, <1>4
  <2> QED
    BY <2>1 DEF Listed, Resets
<1> QED
  BY <1>1, <1>2, <1>3, <1>4 DEF OneStream

-----------------------------------------------------------------------------
\* The queue of the stream while its SSNs start at the TSN n: what was read are
\* the TSNs before what waits, and nothing that waits is next.
Synced(b, n) ==
    /\ n \in Int /\ b.last[Stm] = Len(b.read) - n
    /\ \A d \in b.inqueue[Stm] :
          d.ssn = d.tsn - n /\ d.tsn > Len(b.read) + 1 /\ d.tsn <= MaxTsn

\* The receiver's part is well formed.
IsRecv(b) ==
    /\ DOMAIN b = Fields
    /\ DOMAIN b.last = Streams /\ b.last[Stm] \in Int
    /\ DOMAIN b.inqueue = Streams /\ \A s \in Streams \ {Stm} : b.inqueue[s] = {}
    /\ b.inqueue[Stm] \subseteq Chunk /\ b.read \in Seq(Chunk) /\ b.pending \subseteq Chunk
    /\ \A i \in 1..Len(b.read) : b.read[i].tsn = i

\* b after the chunk c was given to the queue.
Queued(a, b, c) ==
    /\ IsRecv(b) /\ ~b.bad
    /\ Len(b.read) >= Len(a.read)
    /\ b.inqueue[Stm] \subseteq a.inqueue[Stm] \cup {c}
    /\ \A d \in a.inqueue[Stm] \cup {c} : d \in b.inqueue[Stm] \/ d.tsn <= Len(b.read)
    /\ \A t \in (Len(a.read) + 1)..Len(b.read) : \E d \in a.inqueue[Stm] \cup {c} : d.tsn = t

\* The fields a queued chunk does not change.
SameQueue(a, b) ==
    b.cum = a.cum /\ b.got = a.got /\ b.resetHead = a.resetHead /\ b.pending = a.pending

LEMMA ReadyIs ==
  ASSUME NEW a, NEW s, NEW n \in Int, NEW k, k = RunLength(a, s, n)
  PROVE  /\ k \in 0..MaxTsn
         /\ \A j \in 0..(k - 1) : \E d \in a.inqueue[s] : d.ssn = n + j
         /\ k = MaxTsn \/ ~\E d \in a.inqueue[s] : d.ssn = n + k
<1> DEFINE R == Ready(a, s, n)
<1>0. MaxTsn \in Nat
  BY StrResetAssumption
<1>1. R \subseteq 0..MaxTsn /\ 0 \in R
  BY <1>0 DEF Ready
<1>2. \E g \in R : \A h \in R : h <= g
  BY <1>0, <1>1, Largest
<1>3. k \in R /\ \A h \in R : h <= k
  BY <1>2 DEF RunLength
<1>4. k \in 0..MaxTsn /\ \A j \in 0..(k - 1) : \E d \in a.inqueue[s] : d.ssn = n + j
  BY <1>3 DEF Ready
<1>5. ASSUME k # MaxTsn, NEW d \in a.inqueue[s], d.ssn = n + k PROVE FALSE
  <2>1. k + 1 \in 0..MaxTsn
    BY <1>0, <1>4, <1>5
  <2>2. ASSUME NEW j \in 0..((k + 1) - 1) PROVE \E e \in a.inqueue[s] : e.ssn = n + j
    <3>1. j \in 0..(k - 1) \/ j = k
      BY <1>4
    <3> QED
      BY <1>4, <1>5, <3>1
  <2>3. k + 1 \in R
    BY <2>1, <2>2 DEF Ready
  <2>4. k + 1 <= k
    BY <1>3, <2>3
  <2> QED
    BY <1>4, <2>4
<1> QED
  BY <1>4, <1>5

-----------------------------------------------------------------------------
(* A run of chunks is delivered. *)

LEMMA Shift ==
  ASSUME NEW n \in Int, NEW t \in Int, NEW s \in Int, NEW u \in Int, NEW v \in Int, NEW i \in Int,
         s = t - n, v = u - n
  PROVE  (v = s + i => u = t + i) /\ (v > s + i => u > t + i) /\ (v < s + i => u < t + i)
         /\ (v <= s + i => u <= t + i) /\ (v # s + i => u # t + i)
  OBVIOUS

\* A chunk and a run of others are added to what was read.
Extends(q, r, c, k, f) ==
    /\ q \in Seq(Chunk) /\ Len(q) = Len(r) + 1 + k
    /\ \A i \in 1..Len(r) : q[i] = r[i]
    /\ q[Len(r) + 1] = c
    /\ \A i \in 1..k : q[Len(r) + 1 + i] = f[i]

LEMMA ReadMore ==
  ASSUME NEW r \in Seq(Chunk), NEW c \in Chunk, NEW k \in Nat, NEW f \in [1..k -> Chunk],
         NEW q, q = (r \o <<c>>) \o f
  PROVE  Extends(q, r, c, k, f)
<1>1. f \in Seq(Chunk) /\ Len(f) = k
  OBVIOUS
<1>2. <<c>> \in Seq(Chunk) /\ Len(<<c>>) = 1 /\ <<c>>[1] = c
  OBVIOUS
<1> DEFINE u == r \o <<c>>
<1>3. u \in Seq(Chunk) /\ Len(u) = Len(r) + 1 /\ u[Len(r) + 1] = c
      /\ \A i \in 1..Len(r) : u[i] = r[i]
  BY <1>2
<1>4. q = u \o f
  OBVIOUS
<1> HIDE DEF u
<1>5. q \in Seq(Chunk) /\ Len(q) = Len(u) + k
  BY <1>1, <1>3, <1>4
<1>6. \A i \in 1..Len(u) : q[i] = u[i]
  BY <1>1, <1>3, <1>4
<1>7. \A i \in 1..k : q[Len(u) + i] = f[i]
  BY <1>1, <1>3, <1>4
<1>8. Len(r) \in Nat
  OBVIOUS
<1>9. \A i \in 1..Len(r) : i \in 1..Len(u)
  BY <1>3, <1>8
<1>10. Len(r) + 1 \in 1..Len(u)
  BY <1>3, <1>8
<1> QED
  BY <1>3, <1>5, <1>6, <1>7, <1>8, <1>9, <1>10 DEF Extends

LEMMA ChunkFacts ==
  ASSUME NEW c \in Chunk
  PROVE  c.tsn \in Nat /\ c.ssn \in Int /\ c.strm = Stm /\ c.to \in Ends
  BY DEF Chunk

\* The chunk is next: it and all that follow it without a gap are delivered.
Delivered(a, c, k) ==
    [a EXCEPT !.last[Stm] = c.ssn + k,
              !.inqueue[Stm] = {d \in @ : d.ssn \notin (c.ssn + 1)..(c.ssn + k)},
              !.read = @ \o <<c>> \o [i \in 1..k |-> CHOOSE d \in a.inqueue[Stm] : d.ssn = c.ssn + i]]

LEMMA DeliverNext ==
  ASSUME OneStream, NEW a, IsRecv(a), ~a.bad, NEW n, Synced(a, n), NEW c \in Chunk,
         c.tsn <= MaxTsn, c.ssn = c.tsn - n, a.last[Stm] + 1 = c.ssn,
         NEW k, k = RunLength(a, Stm, c.ssn + 1), NEW b, b = Delivered(a, c, k)
  PROVE  Queued(a, b, c) /\ Synced(b, n) /\ SameQueue(a, b)
<1> DEFINE r == Len(a.read)
           Q == a.inqueue[Stm]
           f == [i \in 1..k |-> CHOOSE d \in Q : d.ssn = c.ssn + i]
<1>0. /\ MaxTsn \in Nat /\ r \in Nat /\ n \in Int /\ c.tsn \in Nat /\ c.ssn \in Int
      /\ a.read \in Seq(Chunk) /\ Q \subseteq Chunk /\ Stm \in Streams
  BY StrResetAssumption, ChunkFacts, StmFacts DEF IsRecv, Synced
<1>1. c.tsn = r + 1
  <2>1. a.last[Stm] = r - n
    BY DEF Synced
  <2> HIDE DEF r
  <2> QED
    BY <1>0, <2>1
<1>2. \A d \in Q : d.tsn \in Nat /\ d.ssn \in Int /\ d.ssn = d.tsn - n /\ d.tsn > r + 1 /\ d.tsn <= MaxTsn
  BY <1>0, ChunkFacts DEF Synced
<1>3. /\ k \in 0..MaxTsn
      /\ \A j \in 0..(k - 1) : \E d \in Q : d.ssn = c.ssn + 1 + j
      /\ k = MaxTsn \/ ~\E d \in Q : d.ssn = c.ssn + 1 + k
  <2>1. c.ssn + 1 \in Int
    BY <1>0
  <2> QED
    BY <2>1, ReadyIs
<1> HIDE DEF r, Q
<1>4. ASSUME NEW i \in 1..k PROVE \E d \in Q : d.ssn = c.ssn + i
  <2>1. i - 1 \in 0..(k - 1) /\ c.ssn + 1 + (i - 1) = c.ssn + i
    BY <1>0, <1>3
  <2>2. \E d \in Q : d.ssn = c.ssn + 1 + (i - 1)
    BY <1>3, <2>1
  <2> QED
    BY <2>1, <2>2
<1>5. k # MaxTsn
  <2> SUFFICES ASSUME k = MaxTsn PROVE FALSE
    OBVIOUS
  <2>1. MaxTsn >= 1 /\ k \in 1..k
    BY <1>0, <1>1
  <2>2. PICK d \in Q : d.ssn = c.ssn + k
    BY <1>4, <2>1
  <2>2a. d.tsn \in Nat /\ d.ssn \in Int /\ d.ssn = d.tsn - n /\ d.tsn <= MaxTsn
    BY <1>2
  <2>3. d.tsn = c.tsn + MaxTsn
    BY <1>0, <2>2, <2>2a
  <2> QED
    BY <1>0, <1>1, <2>2a, <2>3
<1>6. \A d \in Q : d.ssn # c.ssn + 1 + k
  BY <1>3, <1>5
<1>7. \A i \in 1..k : f[i] \in Q /\ f[i].ssn = c.ssn + i
  BY <1>4
<1>8. f \in [1..k -> Chunk]
  BY <1>0, <1>7
<1>9. \A i \in 1..k : f[i].tsn = c.tsn + i
  <2> SUFFICES ASSUME NEW i \in 1..k PROVE f[i].tsn = c.tsn + i
    OBVIOUS
  <2>1. f[i] \in Q /\ f[i].ssn = c.ssn + i /\ i \in Int
    BY <1>7
  <2> DEFINE d == f[i]
  <2> HIDE DEF d
  <2>2. d.tsn \in Nat /\ d.ssn \in Int /\ d.ssn = d.tsn - n /\ d.ssn = c.ssn + i
    BY <1>2, <2>1 DEF d
  <2>3. d.tsn = c.tsn + i
    <3>1. n \in Int /\ c.tsn \in Int /\ c.ssn \in Int /\ d.tsn \in Int /\ d.ssn \in Int /\ i \in Int
      BY <1>0, <2>1, <2>2
    <3> QED
      BY <2>2, <3>1, Shift
  <2> QED
    BY <2>3 DEF d
<1> DEFINE q == (a.read \o <<c>>) \o f
           P == {d \in Q : d.ssn \notin (c.ssn + 1)..(c.ssn + k)}
<1>10. b = [a EXCEPT !.last[Stm] = c.ssn + k, !.inqueue[Stm] = P, !.read = q]
  BY DEF Delivered, Q
<1>11. k \in Nat
  BY <1>0, <1>3
<1> HIDE DEF f
<1>12. /\ q \in Seq(Chunk) /\ Len(q) = Len(a.read) + 1 + k
       /\ \A i \in 1..Len(a.read) : q[i] = a.read[i]
       /\ q[Len(a.read) + 1] = c
       /\ \A i \in 1..k : q[Len(a.read) + 1 + i] = f[i]
  <2> DEFINE z == a.read
  <2>1. q = (z \o <<c>>) \o f /\ z \in Seq(Chunk)
    BY <1>0
  <2> HIDE DEF q, z
  <2>2. Extends(q, z, c, k, f)
    BY <1>8, <1>11, <2>1, ReadMore
  <2> QED
    BY <2>2 DEF z, Extends
<1>13. P \subseteq Q
  OBVIOUS
<1>14. \A d \in P : d.ssn < c.ssn + 1 \/ d.ssn > c.ssn + k
  BY <1>0, <1>2, <1>11
<1>15. \A d \in Q \ P : d.ssn \in (c.ssn + 1)..(c.ssn + k)
  OBVIOUS
<1> HIDE DEF q, P
<1>16. /\ DOMAIN b = Fields /\ b.read = q /\ b.bad = a.bad /\ SameQueue(a, b)
       /\ b.last = [a.last EXCEPT ![Stm] = c.ssn + k]
       /\ b.inqueue = [a.inqueue EXCEPT ![Stm] = P]
  BY <1>10 DEF IsRecv, Fields, SameQueue
<1>17. /\ DOMAIN b.last = Streams /\ b.last[Stm] = c.ssn + k
       /\ DOMAIN b.inqueue = Streams /\ b.inqueue[Stm] = P
       /\ \A s \in Streams \ {Stm} : b.inqueue[s] = {}
  BY <1>0, <1>16 DEF IsRecv
<1>18. Len(b.read) = r + 1 + k /\ Len(b.read) = c.tsn + k
  BY <1>0, <1>1, <1>11, <1>12, <1>16 DEF r
<1>19. \A i \in 1..Len(b.read) : b.read[i].tsn = i
  <2> SUFFICES ASSUME NEW i \in 1..Len(b.read) PROVE q[i].tsn = i
    BY <1>16
  <2>1. CASE i \in 1..r
    BY <1>12, <2>1 DEF r, IsRecv
  <2>2. CASE i = r + 1
    BY <1>1, <1>12, <2>2 DEF r
  <2>3. CASE i > r + 1
    <3>1. i - (r + 1) \in 1..k /\ r + 1 + (i - (r + 1)) = i
      BY <1>0, <1>11, <1>18, <2>3
    <3> DEFINE j == i - (r + 1)
    <3>2. q[r + 1 + j] = f[j] /\ f[j].tsn = c.tsn + j
      BY <1>9, <1>12, <3>1 DEF r
    <3> QED
      BY <1>0, <1>1, <3>1, <3>2
  <2> QED
    BY <1>0, <1>18, <2>1, <2>2, <2>3
<1>20. IsRecv(b) /\ ~b.bad
  <2>1. b.last[Stm] \in Int
    BY <1>0, <1>11, <1>17
  <2>2. b.inqueue[Stm] \subseteq Chunk
    BY <1>0, <1>13, <1>17
  <2>3. b.pending \subseteq Chunk
    BY <1>16 DEF IsRecv, SameQueue
  <2> QED
    BY <1>12, <1>16, <1>17, <1>19, <2>1, <2>2, <2>3 DEF IsRecv
<1>21. \A d \in P : d.tsn > Len(b.read) + 1
  <2> SUFFICES ASSUME NEW d \in P PROVE d.tsn > Len(b.read) + 1
    OBVIOUS
  <2>1. d.tsn \in Nat /\ d.ssn \in Int /\ d.ssn = d.tsn - n /\ d.tsn > r + 1
        /\ d.ssn # c.ssn + 1 + k /\ (d.ssn < c.ssn + 1 \/ d.ssn > c.ssn + k)
    BY <1>2, <1>6, <1>13, <1>14
  <2>2. d.tsn > c.tsn + k + 1
    <3>1. n \in Int /\ c.tsn \in Int /\ c.ssn \in Int /\ d.tsn \in Int /\ d.ssn \in Int
          /\ k \in Int /\ c.tsn = r + 1 /\ c.ssn = c.tsn - n
      BY <1>0, <1>1, <1>11, <2>1
    <3>2. d.ssn > c.ssn + 0
      <4>1. d.tsn > c.tsn
        BY <2>1, <3>1
      <4> QED
        BY <2>1, <3>1, <4>1
    <3>3. d.ssn > c.ssn + (k + 1)
      BY <2>1, <3>1, <3>2
    <3>4. k + 1 \in Int
      BY <3>1
    <3>5. d.tsn > c.tsn + (k + 1)
      BY <2>1, <3>1, <3>3, <3>4, Shift
    <3> QED
      BY <3>1, <3>5
  <2> QED
    BY <1>0, <1>11, <1>18, <2>1, <2>2
<1>22. Synced(b, n)
  <2>1. b.last[Stm] = Len(b.read) - n
    <3> DEFINE l == Len(b.read)
    <3>1. l = c.tsn + k /\ b.last[Stm] = c.ssn + k
      BY <1>17, <1>18
    <3> HIDE DEF l
    <3>2. c.ssn + k = l - n
      BY <1>0, <1>11, <3>1
    <3> QED
      BY <3>1, <3>2 DEF l
  <2> QED
    BY <1>0, <1>2, <1>13, <1>17, <1>21, <2>1 DEF Synced
<1>23. \A d \in Q \cup {c} : d \in P \/ d.tsn <= Len(b.read)
  <2>1. \A d \in Q \ P : d.tsn <= Len(b.read)
    BY <1>0, <1>2, <1>11, <1>15, <1>18
  <2>2. c.tsn <= Len(b.read)
    BY <1>0, <1>11, <1>18
  <2> QED
    BY <2>1, <2>2
<1>24. \A t \in (r + 1)..Len(b.read) : \E d \in Q \cup {c} : d.tsn = t
  <2> SUFFICES ASSUME NEW t \in (r + 1)..Len(b.read) PROVE \E d \in Q \cup {c} : d.tsn = t
    OBVIOUS
  <2>1. CASE t = r + 1
    BY <1>1, <2>1
  <2>2. CASE t # r + 1
    <3>1. t - (r + 1) \in 1..k /\ c.tsn + (t - (r + 1)) = t
      BY <1>0, <1>1, <1>11, <1>18, <2>2
    <3> DEFINE j == t - (r + 1)
    <3>2. f[j] \in Q /\ f[j].tsn = c.tsn + j
      BY <1>7, <1>9, <3>1 DEF f
    <3> QED
      BY <3>1, <3>2
  <2> QED
    BY <2>1, <2>2
<1>25. Len(b.read) >= r
  BY <1>0, <1>11, <1>18
<1> QED
  BY <1>13, <1>16, <1>17, <1>20, <1>22, <1>23, <1>24, <1>25 DEF Queued, r, Q

-----------------------------------------------------------------------------
(* A chunk is given to the queue of the stream. *)

\* The chunk is not next and waits in the queue.
LEMMA QueueLater ==
  ASSUME OneStream, NEW a, IsRecv(a), ~a.bad, NEW n, Synced(a, n), NEW c \in Chunk,
         c.tsn <= MaxTsn, c.ssn = c.tsn - n, a.last[Stm] < c.ssn, a.last[Stm] + 1 # c.ssn,
         NEW b, b = [a EXCEPT !.inqueue[Stm] = @ \cup {c}]
  PROVE  Queued(a, b, c) /\ Synced(b, n) /\ SameQueue(a, b)
<1> DEFINE Q == a.inqueue[Stm]
           P == Q \cup {c}
           r == Len(a.read)
<1>0. /\ Stm \in Streams /\ DOMAIN a = Fields /\ DOMAIN a.inqueue = Streams
      /\ r \in Nat /\ n \in Int /\ c.tsn \in Int /\ c.ssn \in Int /\ Q \subseteq Chunk
      /\ a.last[Stm] = r - n
  BY StmFacts, ChunkFacts DEF IsRecv, Synced
<1>1. c.tsn > r + 1
  <2> DEFINE l == a.last[Stm]
  <2>1. l = r - n /\ l < c.ssn /\ l + 1 # c.ssn
    BY <1>0
  <2> HIDE DEF l, r
  <2>2. r + 1 - n \in Int /\ l \in Int
    BY <1>0, <2>1
  <2>3. c.ssn > l + 1
    BY <1>0, <2>1, <2>2
  <2>4. c.tsn - n > (r - n) + 1
    BY <1>0, <2>1, <2>3
  <2> QED
    BY <1>0, <2>4
<1>2. b = [a EXCEPT !.inqueue[Stm] = P]
  OBVIOUS
<1> HIDE DEF P
<1>3. /\ DOMAIN b = Fields /\ b.read = a.read /\ b.bad = a.bad /\ b.last = a.last
      /\ SameQueue(a, b) /\ b.inqueue = [a.inqueue EXCEPT ![Stm] = P]
  BY <1>0, <1>2 DEF SameQueue, Fields
<1>4. DOMAIN b.inqueue = Streams /\ b.inqueue[Stm] = P
      /\ \A s \in Streams \ {Stm} : b.inqueue[s] = a.inqueue[s]
  BY <1>0, <1>3
<1>5. P \subseteq Chunk /\ \A d \in P : d \in Q \/ d = c
  BY <1>0 DEF P
<1>6. IsRecv(b)
  BY <1>3, <1>4, <1>5 DEF IsRecv, SameQueue
<1>7. Synced(b, n)
  BY <1>1, <1>3, <1>4, <1>5 DEF Synced
<1>8. Queued(a, b, c)
  <2>1. Len(b.read) >= Len(a.read)
    BY <1>0, <1>3
  <2>2. \A t \in (Len(a.read) + 1)..Len(b.read) : FALSE
    BY <1>0, <1>3
  <2> QED
    BY <1>3, <1>4, <1>6, <2>1, <2>2 DEF Queued, P
<1> QED
  BY <1>3, <1>7, <1>8

\* What a chunk does that is given to the queue.
QueuedOrBad(a, b, c, n) ==
    \/ b = [a EXCEPT !.bad = TRUE]
    \/ Queued(a, b, c) /\ Synced(b, n) /\ SameQueue(a, b)

LEMMA QueueSync ==
  ASSUME OneStream, NEW a, IsRecv(a), ~a.bad, NEW n, Synced(a, n), NEW c \in Chunk,
         c.tsn <= MaxTsn, c.ssn = c.tsn - n, \A d \in a.inqueue[Stm] : d.tsn # c.tsn, a.cum \in Int,
         NEW b, b = QueueToStream(a, Stm, c)
  PROVE  /\ QueuedOrBad(a, b, c, n)
         /\ a.last[Stm] < c.ssn /\ a.cum < c.tsn => ~b.bad
<1>0. a.last[Stm] \in Int /\ c.ssn \in Int /\ c.tsn \in Int /\ DOMAIN a = Fields /\ n \in Int
  BY ChunkFacts DEF IsRecv, Synced
<1>1. CASE a.last[Stm] >= c.ssn \/ a.cum >= c.tsn
  <2>1. b = [a EXCEPT !.bad = TRUE]
    BY <1>1 DEF QueueToStream
  <2> QED
    BY <1>0, <1>1, <2>1 DEF QueuedOrBad
<1>2. CASE ~(a.last[Stm] >= c.ssn \/ a.cum >= c.tsn) /\ a.last[Stm] + 1 = c.ssn
  <2> DEFINE k == RunLength(a, Stm, c.ssn + 1)
  <2>1. b = Delivered(a, c, k)
    BY <1>2 DEF QueueToStream, Delivered
  <2> HIDE DEF k
  <2>2. k = RunLength(a, Stm, c.ssn + 1)
    BY DEF k
  <2>3. Queued(a, b, c) /\ Synced(b, n) /\ SameQueue(a, b)
    BY <1>2, <2>1, <2>2, DeliverNext
  <2> QED
    BY <2>3 DEF QueuedOrBad, Queued
<1>3. CASE ~(a.last[Stm] >= c.ssn \/ a.cum >= c.tsn) /\ a.last[Stm] + 1 # c.ssn
  <2>1. \A d \in a.inqueue[Stm] : d.ssn # c.ssn
    <3> SUFFICES ASSUME NEW d \in a.inqueue[Stm], d.ssn = c.ssn PROVE FALSE
      OBVIOUS
    <3>1. d \in Chunk /\ d.tsn # c.tsn /\ d.ssn = d.tsn - n
      BY DEF IsRecv, Synced
    <3>2. d.tsn \in Int /\ d.ssn \in Int
      BY <3>1, ChunkFacts
    <3> QED
      BY <1>0, <3>1, <3>2
  <2>2. b = [a EXCEPT !.inqueue[Stm] = @ \cup {c}]
    BY <1>3, <2>1 DEF QueueToStream
  <2>3. a.last[Stm] < c.ssn
    BY <1>0, <1>3
  <2>4. Queued(a, b, c) /\ Synced(b, n) /\ SameQueue(a, b)
    BY <1>3, <2>2, <2>3, QueueLater
  <2> QED
    BY <2>4 DEF QueuedOrBad, Queued
<1> QED
  BY <1>1, <1>2, <1>3

-----------------------------------------------------------------------------
(* The receiver. t is the next TSN of the sender, B the bases of the SSNs, *)
(* W the chunks under way. *)

\* The chunks an endpoint holds.
Held(b) == b.pending \cup b.inqueue[Stm]

\* What was read are the first TSNs, and whatever is under way or held comes later.
Ord(b, W) ==
    /\ IsRecv(b) /\ W \subseteq Chunk
    /\ \A c \in W \cup Held(b) : c.tsn > Len(b.read)

\* The first reset waits although a later TSN was counted already.
Doomed(b) == b.resetHead # <<>> /\ b.cum > b.resetHead[1].tsn

\* Every chunk carries the SSN of its TSN, and no TSN is there twice.
Known(t, B, b, W) ==
    /\ \A c \in W \cup Held(b) : Numbered(c, B) /\ c.tsn < t
    /\ \A c, d \in W : c.tsn = d.tsn => c = d
    /\ \A c, d \in Held(b) : c.tsn = d.tsn => c = d

\* What arrived was read or is held, and is not under way.
Arrived(t, b, W) ==
    /\ b.got \subseteq 1..(t - 1)
    /\ \A c \in W : c.tsn \notin b.got
    /\ \A c \in Held(b) : c.tsn \in b.got
    /\ \A u \in b.got : u <= Len(b.read) \/ \E c \in Held(b) : c.tsn = u
    /\ 1..Len(b.read) \subseteq b.got
    /\ b.cum \in 0..(t - 1) /\ 1..b.cum \subseteq b.got

\* The waiting resets, in the order of their TSNs.
Heads(t, B, b) ==
    /\ b.resetHead \in Seq(WaitingReset)
    /\ \A i \in 1..Len(b.resetHead) :
          /\ b.resetHead[i].tsn < t
          /\ \A j \in 1..i : b.resetHead[j].tsn <= b.resetHead[i].tsn
          /\ Resets(b.resetHead[i].list) => b.resetHead[i].tsn + 1 \in B

\* What was sent after the first waiting reset waits for it, and no more.
Behind(b) ==
    /\ b.resetHead = <<>> => b.pending = {}
    /\ b.resetHead # <<>> => /\ Len(b.read) <= b.resetHead[1].tsn
                             /\ \A c \in b.pending : c.tsn > b.resetHead[1].tsn
                             /\ \A c \in b.inqueue[Stm] : c.tsn <= b.resetHead[1].tsn
    /\ \A c \in b.inqueue[Stm] : c.tsn > Len(b.read) + 1

\* The SSN expected next counts from the TSN n, and all later starts wait.
Waits(b, m) == \E i \in 1..Len(b.resetHead) :
                  m = b.resetHead[i].tsn + 1 /\ Resets(b.resetHead[i].list)
Counts(B, b, n) ==
    /\ n \in B /\ b.last[Stm] = Len(b.read) - n /\ n <= Len(b.read) + 1
    /\ \A m \in B : m <= n \/ Waits(b, m)

\* The invariant of a receiver that can go on.
Keeps(t, B, b, W) ==
    /\ Ord(b, W) /\ ~b.bad /\ t \in 1..(MaxTsn + 1) /\ B \subseteq Int
    /\ Known(t, B, b, W) /\ Arrived(t, b, W) /\ Heads(t, B, b) /\ Behind(b)
    /\ Doomed(b) \/ \E n : Counts(B, b, n)

LEMMA KeepsTypes ==
  ASSUME OneStream, NEW t, NEW B, NEW b, NEW W, Keeps(t, B, b, W)
  PROVE  /\ t \in Int /\ t <= MaxTsn + 1 /\ MaxTsn \in Nat /\ Len(b.read) \in Nat /\ b.cum \in Int
         /\ Held(b) \subseteq Chunk /\ W \subseteq Chunk /\ DOMAIN b = Fields
         /\ \A c \in W \cup Held(b) : c.tsn \in Int /\ c.ssn \in Int /\ c.tsn <= MaxTsn
         /\ \A i \in 1..Len(b.resetHead) : b.resetHead[i].tsn \in Int /\ b.resetHead[i].list \in SUBSET Nat
         /\ b.resetHead # <<>> => 1 \in 1..Len(b.resetHead)
         /\ Len(b.resetHead) \in Nat
<1>0. MaxTsn \in Nat /\ t \in 1..(MaxTsn + 1)
  BY StrResetAssumption DEF Keeps
<1>1. t \in Int /\ t <= MaxTsn + 1
  BY <1>0
<1>2. Len(b.read) \in Nat /\ DOMAIN b = Fields /\ Held(b) \subseteq Chunk /\ W \subseteq Chunk
  BY DEF Keeps, Ord, IsRecv, Held
<1>3. b.cum \in Int
  BY <1>1 DEF Keeps, Arrived
<1>4. ASSUME NEW c \in W \cup Held(b) PROVE c.tsn \in Int /\ c.ssn \in Int /\ c.tsn <= MaxTsn
  <2>1. c.tsn \in Int /\ c.ssn \in Int
    BY <1>2, ChunkFacts
  <2>2. c.tsn < t
    BY DEF Keeps, Known
  <2> QED
    BY <1>0, <1>1, <2>1, <2>2
<1>5. b.resetHead \in Seq(WaitingReset)
  BY DEF Keeps, Heads
<1>6. \A i \in 1..Len(b.resetHead) : b.resetHead[i] \in WaitingReset
  BY <1>5
<1>7. \A i \in 1..Len(b.resetHead) : b.resetHead[i].tsn \in Int /\ b.resetHead[i].list \in SUBSET Nat
  BY <1>6 DEF WaitingReset
<1>8. (b.resetHead # <<>> => 1 \in 1..Len(b.resetHead)) /\ Len(b.resetHead) \in Nat
  BY <1>5
<1> QED
  BY <1>0, <1>1, <1>2, <1>3, <1>4, <1>7, <1>8

\* The SSN of a chunk that need not wait for a reset counts from n.
LEMMA CountedSsn ==
  ASSUME OneStream, NEW t, NEW B, NEW b, NEW W, Keeps(t, B, b, W), NEW n, Counts(B, b, n),
         NEW c \in W \cup Held(b), b.resetHead = <<>> \/ c.tsn <= b.resetHead[1].tsn
  PROVE  c.ssn = c.tsn - n
<1>0. /\ c.tsn \in Int /\ c.ssn \in Int /\ Len(b.read) \in Nat /\ B \subseteq Int /\ n \in Int
      /\ c.tsn > Len(b.read)
      /\ \A i \in 1..Len(b.resetHead) : b.resetHead[i].tsn \in Int
      /\ b.resetHead # <<>> => 1 \in 1..Len(b.resetHead)
  BY KeepsTypes DEF Keeps, Counts, Ord
<1>1. PICK m : IsBase(m, B, c.tsn) /\ c.ssn = c.tsn - m
  BY DEF Keeps, Known, Numbered
<1>2. ASSUME NEW k \in B, k <= c.tsn PROVE k <= n
  <2> SUFFICES ASSUME NEW i \in 1..Len(b.resetHead), k = b.resetHead[i].tsn + 1 PROVE FALSE
    BY DEF Counts, Waits
  <2> DEFINE h == b.resetHead[i].tsn
             g == b.resetHead[1].tsn
  <2>1. b.resetHead # <<>> /\ 1 \in 1..i
    BY <1>0 DEF Keeps, Heads
  <2>2. h \in Int /\ g \in Int /\ g <= h /\ c.tsn <= g /\ k = h + 1
    BY <1>0, <2>1 DEF Keeps, Heads
  <2> HIDE DEF h, g
  <2> QED
    BY <1>0, <1>2, <2>2
<1>3. n <= c.tsn
  <2>1. n <= Len(b.read) + 1
    BY DEF Counts
  <2> DEFINE r == Len(b.read)
  <2>2. n <= r + 1 /\ c.tsn > r /\ r \in Nat
    BY <1>0, <2>1
  <2> HIDE DEF r
  <2> QED
    BY <1>0, <2>2
<1>4. IsBase(n, B, c.tsn)
  BY <1>2, <1>3 DEF IsBase, Counts
<1>5. m = n
  BY <1>0, <1>1, <1>4, BaseUnique
<1> QED
  BY <1>1, <1>5

LEMMA CountedSync ==
  ASSUME OneStream, NEW t, NEW B, NEW b, NEW W, Keeps(t, B, b, W), NEW n, Counts(B, b, n)
  PROVE  Synced(b, n)
<1>1. n \in Int /\ b.last[Stm] = Len(b.read) - n
  BY DEF Keeps, Counts
<1>2. ASSUME NEW d \in b.inqueue[Stm]
      PROVE  d.ssn = d.tsn - n /\ d.tsn > Len(b.read) + 1 /\ d.tsn <= MaxTsn
  <2>1. d \in W \cup Held(b) /\ d.tsn > Len(b.read) + 1
    BY DEF Held, Keeps, Behind
  <2>2. b.resetHead = <<>> \/ d.tsn <= b.resetHead[1].tsn
    BY DEF Keeps, Behind
  <2> QED
    BY <2>1, <2>2, KeepsTypes, CountedSsn
<1> QED
  BY <1>1, <1>2 DEF Synced

\* The cumulative TSN advances over what arrived.
LEMMA CumGrows ==
  ASSUME OneStream, NEW t, NEW B, NEW a, NEW W, Keeps(t, B, a, W),
         NEW k \in Int, k >= a.cum, 1..k \subseteq a.got, NEW b, b = [a EXCEPT !.cum = k]
  PROVE  Keeps(t, B, b, W)
<1>0. /\ t \in Int /\ DOMAIN a = Fields /\ a.cum \in Int /\ a.cum >= 0
      /\ a.resetHead # <<>> => a.resetHead[1].tsn \in Int
  <2>1. t \in Int /\ DOMAIN a = Fields /\ a.cum \in Int
        /\ (a.resetHead # <<>> => a.resetHead[1].tsn \in Int)
    BY KeepsTypes
  <2>2. a.cum \in 0..(t - 1)
    BY DEF Keeps, Arrived
  <2>3. a.cum >= 0
    BY <2>1, <2>2
  <2> QED
    BY <2>1, <2>3
<1>1. /\ DOMAIN b = Fields /\ b.cum = k /\ b.got = a.got /\ b.last = a.last /\ b.bad = a.bad
      /\ b.inqueue = a.inqueue /\ b.pending = a.pending /\ b.read = a.read /\ b.resetHead = a.resetHead
  BY <1>0 DEF Fields
<1>2. k \in 0..(t - 1)
  <2>1. CASE k = 0
    BY <1>0, <2>1 DEF Keeps
  <2>2. CASE k # 0
    <3>1. k \in 1..k
      BY <1>0, <2>2
    <3>2. k \in 1..(t - 1)
      BY <3>1 DEF Keeps, Arrived
    <3> QED
      BY <1>0, <3>2
  <2> QED
    BY <2>1, <2>2
<1>3. Held(b) = Held(a)
  BY <1>1 DEF Held
<1>4. Ord(b, W)
  BY <1>1, <1>3 DEF Keeps, Ord, IsRecv
<1>5. Known(t, B, b, W) /\ Heads(t, B, b) /\ Behind(b)
  BY <1>1, <1>3 DEF Keeps, Known, Heads, Behind
<1>6. Arrived(t, b, W)
  BY <1>1, <1>2, <1>3 DEF Keeps, Arrived
<1>7. Doomed(a) => Doomed(b)
  BY <1>0, <1>1 DEF Doomed
<1>8. \A n : Counts(B, a, n) => Counts(B, b, n)
  BY <1>1 DEF Counts, Waits
<1> QED
  BY <1>1, <1>4, <1>5, <1>6, <1>7, <1>8 DEF Keeps

LEMMA CumOrd ==
  ASSUME NEW a, NEW W, Ord(a, W), NEW k, NEW b, b = [a EXCEPT !.cum = k]
  PROVE  Ord(b, W) /\ b.bad = a.bad
<1>1. /\ DOMAIN b = Fields /\ b.last = a.last /\ b.bad = a.bad
      /\ b.inqueue = a.inqueue /\ b.pending = a.pending /\ b.read = a.read
  BY DEF Fields, Ord, IsRecv
<1> QED
  BY <1>1 DEF Ord, IsRecv, Held

-----------------------------------------------------------------------------
(* Chunks that are taken or wait behind a reset. *)

\* The new chunks N and what a held were read in b or are held there.
Takes(a, b, N) ==
    /\ IsRecv(b) /\ b.cum = a.cum /\ b.got = a.got \cup {d.tsn : d \in N}
    /\ Len(b.read) >= Len(a.read)
    /\ Held(b) \subseteq Held(a) \cup N
    /\ \A d \in Held(a) \cup N : d \in Held(b) \/ d.tsn <= Len(b.read)
    /\ \A u \in (Len(a.read) + 1)..Len(b.read) : \E d \in Held(a) \cup N : d.tsn = u
    /\ \A d \in Held(b) : d.tsn > Len(b.read)

LEMMA Taken ==
  ASSUME OneStream, NEW t, NEW B, NEW a, NEW W, Keeps(t, B, a, W), NEW N \in SUBSET W,
         NEW b, Takes(a, b, N)
  PROVE  Ord(b, W \ N) /\ Known(t, B, b, W \ N) /\ Arrived(t, b, W \ N)
<1> DEFINE V == W \ N
           H == Held(a) \cup N
           r == Len(a.read)
           s == Len(b.read)
<1>0. /\ t \in Int /\ r \in Nat /\ W \subseteq Chunk /\ H \subseteq W \cup Held(a)
      /\ \A d \in W \cup Held(a) : d.tsn \in Int
  BY KeepsTypes
<1>0a. s \in Nat
  BY DEF Takes, IsRecv
<1>1. /\ IsRecv(b) /\ b.cum = a.cum /\ s >= r /\ Held(b) \subseteq H
      /\ \A d \in H : d \in Held(b) \/ d.tsn <= s
      /\ \A u \in (r + 1)..s : \E d \in H : d.tsn = u
      /\ \A d \in Held(b) : d.tsn > s
  BY DEF Takes
<1>2. \A u : u \in b.got <=> u \in a.got \/ \E d \in N : d.tsn = u
  BY DEF Takes
<1>3. \A c, d \in H : c.tsn = d.tsn => c = d
  BY DEF Keeps, Known, Arrived
<1>3a. \A c \in V, d \in H : c.tsn # d.tsn
  BY DEF Keeps, Known, Arrived
<1>4. \A d \in W \cup Held(a) : d.tsn > r /\ d.tsn < t /\ Numbered(d, B)
  BY DEF Keeps, Ord, Known
<1>4a. /\ a.got \subseteq 1..(t - 1) /\ \A c \in W : c.tsn \notin a.got
       /\ \A c \in Held(a) : c.tsn \in a.got
       /\ \A u \in a.got : u <= r \/ \E c \in Held(a) : c.tsn = u
       /\ 1..r \subseteq a.got /\ a.cum \in 0..(t - 1) /\ 1..a.cum \subseteq a.got
  BY DEF Keeps, Arrived
<1>4b. \A c, d \in W : c.tsn = d.tsn => c = d
  BY DEF Keeps, Known
<1>h. Held(a) \subseteq H /\ N \subseteq H /\ \A d \in H : d \in Held(a) \/ d \in N
  OBVIOUS
<1>v. V \subseteq W
  OBVIOUS
<1> HIDE DEF V, H, r, s
<1>5. \A d \in V : d.tsn > s
  <2> SUFFICES ASSUME NEW d \in V, ~(d.tsn > s) PROVE FALSE
    OBVIOUS
  <2>1. d.tsn \in Int /\ d.tsn > r
    BY <1>0, <1>4, <1>v
  <2>2. d.tsn \in (r + 1)..s
    BY <1>0, <1>0a, <2>1
  <2> QED
    BY <1>1, <1>3a, <2>2
<1>6. Ord(b, V)
  BY <1>0, <1>1, <1>5, <1>v DEF Ord, s
<1>7. Known(t, B, b, V)
  BY <1>0, <1>1, <1>3, <1>4, <1>4b, <1>v DEF Known
<1>8. Arrived(t, b, V)
  <2>1. b.got \subseteq 1..(t - 1)
    <3> SUFFICES ASSUME NEW d \in N PROVE d.tsn \in 1..(t - 1)
      BY <1>2, <1>4a
    <3>1. d.tsn \in Int /\ d.tsn > r /\ d.tsn < t
      BY <1>0, <1>4
    <3> QED
      BY <1>0, <3>1
  <2>2. \A c \in V : c.tsn \notin b.got
    BY <1>2, <1>3a, <1>4a, <1>h, <1>v
  <2>3. \A c \in Held(b) : c.tsn \in b.got
    BY <1>1, <1>2, <1>4a, <1>h
  <2>4. \A u \in b.got : u <= s \/ \E c \in Held(b) : c.tsn = u
    <3> SUFFICES ASSUME NEW u \in b.got PROVE u <= s \/ \E c \in Held(b) : c.tsn = u
      OBVIOUS
    <3>1. CASE \E d \in H : d.tsn = u
      BY <1>1, <3>1
    <3>2. CASE u \in a.got /\ u <= r
      <4>1. u \in Int
        BY <1>4a, <3>2
      <4> QED
        BY <1>0, <1>0a, <1>1, <3>2, <4>1
    <3> QED
      BY <1>2, <1>4a, <1>h, <3>1, <3>2
  <2>5. 1..s \subseteq b.got
    <3> SUFFICES ASSUME NEW u \in 1..s PROVE u \in b.got
      OBVIOUS
    <3>1. u \in 1..r \/ u \in (r + 1)..s
      BY <1>0, <1>0a
    <3> QED
      BY <1>1, <1>2, <1>4a, <1>h, <3>1
  <2>6. b.cum \in 0..(t - 1) /\ 1..b.cum \subseteq b.got
    BY <1>1, <1>2, <1>4a
  <2> QED
    BY <2>1, <2>2, <2>3, <2>4, <2>5, <2>6 DEF Arrived, s
<1> QED
  BY <1>6, <1>7, <1>8 DEF V

\* The chunk was sent after a reset that waits.
LEMMA WaitBehind ==
  ASSUME OneStream, NEW t, NEW B, NEW a, NEW W, Keeps(t, B, a, W), NEW c \in W,
         a.resetHead # <<>>, c.tsn > a.resetHead[1].tsn,
         NEW b, b = [a EXCEPT !.got = @ \cup {c.tsn}, !.pending = @ \cup {c}]
  PROVE  Keeps(t, B, b, W \ {c})
<1>0. DOMAIN a = Fields /\ Len(a.read) \in Nat /\ {c} \in SUBSET W /\ c \in Chunk
  BY KeepsTypes
<1>1. /\ DOMAIN b = Fields /\ b.cum = a.cum /\ b.last = a.last /\ b.bad = a.bad /\ b.read = a.read
      /\ b.inqueue = a.inqueue /\ b.resetHead = a.resetHead
      /\ b.got = a.got \cup {c.tsn} /\ b.pending = a.pending \cup {c}
  BY <1>0 DEF Fields
<1>2. IsRecv(b)
  BY <1>0, <1>1 DEF Keeps, Ord, IsRecv
<1>3. Held(b) = Held(a) \cup {c} /\ b.got = a.got \cup {d.tsn : d \in {c}}
  BY <1>1 DEF Held
<1>4. \A d \in W \cup Held(a) : d.tsn > Len(a.read)
  BY DEF Keeps, Ord
<1>5. Len(b.read) >= Len(a.read) /\ \A u \in (Len(a.read) + 1)..Len(b.read) : FALSE
  BY <1>0, <1>1
<1>6. Takes(a, b, {c})
  BY <1>1, <1>2, <1>3, <1>4, <1>5 DEF Takes
<1>7. Ord(b, W \ {c}) /\ Known(t, B, b, W \ {c}) /\ Arrived(t, b, W \ {c})
  BY <1>0, <1>6, Taken
<1>8. Heads(t, B, b) /\ Behind(b)
  BY <1>1 DEF Keeps, Heads, Behind
<1>9. (Doomed(a) => Doomed(b)) /\ \A n : Counts(B, a, n) => Counts(B, b, n)
  BY <1>1 DEF Doomed, Counts, Waits
<1> QED
  BY <1>1, <1>7, <1>8, <1>9 DEF Keeps

-----------------------------------------------------------------------------
(* A chunk that arrives is placed. *)

\* The state is good, or the association ends and the order is kept.
KeptOrBad(t, B, b, W) == Keeps(t, B, b, W) \/ (b.bad = TRUE /\ Ord(b, W))

LEMMA BadOrd ==
  ASSUME NEW a, NEW W, Ord(a, W), NEW b, b = [a EXCEPT !.bad = TRUE], NEW V \in SUBSET W
  PROVE  b.bad = TRUE /\ Ord(b, V)
<1>1. /\ DOMAIN b = Fields /\ b.last = a.last /\ b.bad = TRUE
      /\ b.inqueue = a.inqueue /\ b.pending = a.pending /\ b.read = a.read
  BY DEF Fields, Ord, IsRecv
<1> QED
  BY <1>1 DEF Ord, IsRecv, Held

\* Nothing that was read or queued in b was sent after the first waiting reset.
UpToHead(b, g) == Len(b.read) <= g /\ \A d \in b.inqueue[Stm] : d.tsn <= g

LEMMA NotBeyond ==
  ASSUME NEW a, NEW b, NEW c, Queued(a, b, c), Len(a.read) \in Nat, NEW g \in Int,
         Len(a.read) <= g, \A d \in a.inqueue[Stm] \cup {c} : d.tsn \in Int /\ d.tsn <= g
  PROVE  UpToHead(b, g)
<1> DEFINE r == Len(a.read)
           s == Len(b.read)
<1>0. /\ s \in Nat /\ r \in Nat /\ r <= g /\ s >= r
      /\ \A u \in (r + 1)..s : \E d \in a.inqueue[Stm] \cup {c} : d.tsn = u
      /\ b.inqueue[Stm] \subseteq a.inqueue[Stm] \cup {c}
  BY DEF Queued, IsRecv
<1> HIDE DEF r, s
<1>1. s <= g
  <2>1. CASE s = r
    BY <1>0, <2>1
  <2>2. CASE s # r
    <3>1. s \in (r + 1)..s
      BY <1>0, <2>2
    <3> QED
      BY <1>0, <3>1
  <2> QED
    BY <2>1, <2>2
<1>2. \A d \in b.inqueue[Stm] : d.tsn <= g
  <2> TAKE d \in b.inqueue[Stm]
  <2>1. d \in a.inqueue[Stm] \cup {c}
    BY <1>0
  <2> QED
    BY <2>1
<1>3. Len(b.read) <= g
  BY <1>1 DEF s
<1> QED
  BY <1>2, <1>3 DEF UpToHead

LEMMA QueueNow ==
  ASSUME OneStream, NEW t, NEW B, NEW a, NEW W, Keeps(t, B, a, W), NEW c \in W,
         a.resetHead = <<>> \/ c.tsn <= a.resetHead[1].tsn,
         NEW x, x = [a EXCEPT !.got = @ \cup {c.tsn}], NEW b, b = QueueToStream(x, Stm, c)
  PROVE  KeptOrBad(t, B, b, W \ {c})
<1> DEFINE V == W \ {c}
           r == Len(a.read)
           s == Len(b.read)
<1>0. /\ DOMAIN a = Fields /\ r \in Nat /\ c \in Chunk /\ c.tsn \in Int /\ c.tsn <= MaxTsn
      /\ a.cum \in Int /\ {c} \in SUBSET W /\ V \in SUBSET W /\ Ord(a, W) /\ IsRecv(a)
      /\ \A d \in Held(a) : d.tsn \in Int
      /\ a.resetHead # <<>> => a.resetHead[1].tsn \in Int
  BY KeepsTypes DEF Keeps, Ord
<1>1. c.tsn > r /\ c.tsn \notin a.got /\ 1..a.cum \subseteq a.got
      /\ \A d \in Held(a) : d.tsn \in a.got /\ d.tsn > r
  BY DEF Keeps, Ord, Arrived
<1>2. ~Doomed(a)
  <2> SUFFICES ASSUME a.resetHead # <<>>, a.cum > a.resetHead[1].tsn PROVE FALSE
    BY DEF Doomed
  <2> DEFINE g == a.resetHead[1].tsn
  <2>1. g \in Int /\ c.tsn <= g /\ a.cum > g
    BY <1>0
  <2> HIDE DEF g, r
  <2>2. c.tsn \in 1..a.cum
    BY <1>0, <1>1, <2>1
  <2> QED
    BY <1>1, <2>2
<1>3. PICK n : Counts(B, a, n)
  BY <1>2 DEF Keeps
<1>4. Synced(a, n) /\ c.ssn = c.tsn - n
  BY <1>3, CountedSync, CountedSsn
<1>5. /\ DOMAIN x = Fields /\ x.cum = a.cum /\ x.last = a.last /\ x.bad = a.bad /\ x.read = a.read
      /\ x.inqueue = a.inqueue /\ x.resetHead = a.resetHead /\ x.pending = a.pending
      /\ x.got = a.got \cup {c.tsn}
  BY <1>0 DEF Fields
<1>6. IsRecv(x) /\ Synced(x, n) /\ ~x.bad
  BY <1>0, <1>4, <1>5 DEF IsRecv, Synced, Keeps
<1>7. \A d \in x.inqueue[Stm] : d.tsn # c.tsn
  BY <1>1, <1>5 DEF Held
<1>8. QueuedOrBad(x, b, c, n)
  BY <1>0, <1>4, <1>5, <1>6, <1>7, QueueSync
<1>9. CASE b = [x EXCEPT !.bad = TRUE]
  <2>1. Ord(x, W)
    BY <1>0, <1>5, <1>6 DEF Ord, Held
  <2> QED
    BY <1>0, <1>9, <2>1, BadOrd DEF KeptOrBad
<1>10. CASE Queued(x, b, c) /\ Synced(b, n) /\ SameQueue(x, b)
  <2>1. /\ IsRecv(b) /\ ~b.bad /\ b.cum = a.cum /\ b.got = a.got \cup {c.tsn}
        /\ b.resetHead = a.resetHead /\ b.pending = a.pending /\ s \in Nat /\ s >= r
        /\ b.inqueue[Stm] \subseteq a.inqueue[Stm] \cup {c}
        /\ \A d \in a.inqueue[Stm] \cup {c} : d \in b.inqueue[Stm] \/ d.tsn <= s
        /\ \A u \in (r + 1)..s : \E d \in a.inqueue[Stm] \cup {c} : d.tsn = u
    <3>1. IsRecv(b) /\ ~b.bad
      BY <1>10 DEF Queued
    <3>2. b.cum = a.cum /\ b.got = a.got \cup {c.tsn} /\ b.resetHead = a.resetHead /\ b.pending = a.pending
      BY <1>5, <1>10 DEF SameQueue
    <3>3. s \in Nat
      BY <3>1 DEF IsRecv
    <3>4. s >= r
      BY <1>5, <1>10 DEF Queued
    <3>5. b.inqueue[Stm] \subseteq a.inqueue[Stm] \cup {c}
      BY <1>5, <1>10 DEF Queued
    <3>6. \A d \in a.inqueue[Stm] \cup {c} : d \in b.inqueue[Stm] \/ d.tsn <= s
      BY <1>5, <1>10 DEF Queued
    <3>7. \A u \in (r + 1)..s : \E d \in a.inqueue[Stm] \cup {c} : d.tsn = u
      BY <1>5, <1>10 DEF Queued
    <3> QED
      BY <3>1, <3>2, <3>3, <3>4, <3>5, <3>6, <3>7
  <2>2. \A d \in b.inqueue[Stm] : d.tsn > s + 1
    BY <1>10 DEF Synced
  <2>3. a.resetHead # <<>> => /\ s <= a.resetHead[1].tsn
                              /\ \A d \in b.inqueue[Stm] : d.tsn <= a.resetHead[1].tsn
    <3> SUFFICES ASSUME a.resetHead # <<>>
                 PROVE  /\ s <= a.resetHead[1].tsn
                        /\ \A d \in b.inqueue[Stm] : d.tsn <= a.resetHead[1].tsn
      OBVIOUS
    <3> DEFINE g == a.resetHead[1].tsn
    <3>1. g \in Int /\ r <= g /\ c.tsn <= g /\ \A d \in a.inqueue[Stm] : d.tsn <= g
      BY <1>0 DEF Keeps, Behind
    <3>2. \A d \in x.inqueue[Stm] \cup {c} : d.tsn \in Int /\ d.tsn <= g
      BY <1>0, <1>5, <3>1 DEF Held
    <3> HIDE DEF g
    <3>3. Len(x.read) \in Nat /\ Len(x.read) <= g
      <4>1. Len(x.read) = r
        BY <1>5
      <4> HIDE DEF r
      <4> QED
        BY <1>0, <3>1, <4>1
    <3>4. UpToHead(b, g)
      BY <1>10, <3>1, <3>2, <3>3, NotBeyond
    <3> QED
      BY <3>4 DEF g, UpToHead
  <2>4. \A d \in b.pending : a.resetHead # <<>> /\ d.tsn > a.resetHead[1].tsn /\ d.tsn \in Int
    BY <1>0, <2>1 DEF Keeps, Behind, Held
  <2>i. \A d \in b.inqueue[Stm] : d.tsn \in Int
    BY <1>0, <2>1 DEF Held
  <2>5. \A d \in Held(b) : d.tsn > s
    <3>1. ASSUME NEW d \in b.inqueue[Stm] PROVE d.tsn > s
      <4>1. d.tsn \in Int /\ d.tsn > s + 1
        BY <2>2, <2>i
      <4> HIDE DEF s
      <4> QED
        BY <2>1, <4>1
    <3>2. ASSUME NEW d \in b.pending PROVE d.tsn > s
      <4> DEFINE g == a.resetHead[1].tsn
      <4>1. d.tsn \in Int /\ d.tsn > g /\ g \in Int /\ s <= g
        BY <1>0, <2>3, <2>4
      <4> HIDE DEF s, g
      <4> QED
        BY <2>1, <4>1
    <3> QED
      BY <3>1, <3>2 DEF Held
  <2>6. Takes(a, b, {c})
    <3>1. Held(b) \subseteq Held(a) \cup {c}
      BY <2>1 DEF Held
    <3>2. \A d \in Held(a) \cup {c} : d \in Held(b) \/ d.tsn <= s
      BY <2>1 DEF Held
    <3>3. \A u \in (r + 1)..s : \E d \in Held(a) \cup {c} : d.tsn = u
      BY <2>1 DEF Held
    <3>4. b.got = a.got \cup {d.tsn : d \in {c}}
      BY <2>1
    <3> QED
      BY <2>1, <2>5, <3>1, <3>2, <3>3, <3>4 DEF Takes
  <2>7. Ord(b, V) /\ Known(t, B, b, V) /\ Arrived(t, b, V)
    BY <1>0, <2>6, Taken
  <2>8. Heads(t, B, b)
    BY <2>1 DEF Keeps, Heads
  <2>9. Behind(b)
    BY <2>1, <2>2, <2>3, <2>4 DEF Keeps, Behind
  <2>10. Counts(B, b, n)
    <3>1. n \in B /\ n \in Int /\ n <= r + 1 /\ b.last[Stm] = s - n
      BY <1>3, <1>10 DEF Counts, Synced
    <3>2. n <= s + 1
      <4> HIDE DEF r, s
      <4> QED
        BY <1>0, <2>1, <3>1
    <3> QED
      BY <1>3, <2>1, <3>1, <3>2 DEF Counts, Waits
  <2>11. Keeps(t, B, b, V)
    BY <2>1, <2>7, <2>8, <2>9, <2>10 DEF Keeps
  <2> QED
    BY <2>11 DEF KeptOrBad
<1> QED
  BY <1>8, <1>9, <1>10 DEF QueuedOrBad

LEMMA PlaceKeeps ==
  ASSUME OneStream, NEW t, NEW B, NEW a, NEW W, Keeps(t, B, a, W), NEW c \in W,
         NEW b, b = Place(a, c)
  PROVE  KeptOrBad(t, B, b, W \ {c}) /\ b.cum = a.cum /\ (~b.bad => c.tsn \in b.got)
<1> DEFINE x == [a EXCEPT !.got = @ \cup {c.tsn}]
           full == \/ \E d \in a.inqueue[c.strm] : d.ssn = c.ssn /\ d.strm = c.strm
                   \/ a.resetHead = <<>> /\ a.last[c.strm] >= c.ssn
<1>0. c.strm = Stm /\ Ord(a, W) /\ W \ {c} \in SUBSET W /\ DOMAIN a = Fields
  BY KeepsTypes, ChunkFacts DEF Keeps
<1>x. DOMAIN x = Fields /\ x.cum = a.cum /\ x.got = a.got \cup {c.tsn}
  BY <1>0 DEF Fields
<1>1. CASE full
  <2>1. b = [a EXCEPT !.bad = TRUE]
    BY <1>1 DEF Place
  <2>2. b.bad = TRUE /\ Ord(b, W \ {c})
    BY <1>0, <2>1, BadOrd
  <2>3. b.cum = a.cum
    BY <1>0, <2>1 DEF Fields
  <2> QED
    BY <2>2, <2>3 DEF KeptOrBad
<1>2. CASE ~full /\ a.resetHead # <<>> /\ c.tsn > a.resetHead[1].tsn
  <2>1. b = [x EXCEPT !.pending = @ \cup {c}]
    BY <1>2 DEF Place
  <2>2. b = [a EXCEPT !.got = @ \cup {c.tsn}, !.pending = @ \cup {c}]
    BY <2>1
  <2>3. b.cum = a.cum /\ b.got = a.got \cup {c.tsn}
    BY <1>0, <2>2 DEF Fields
  <2>4. Keeps(t, B, b, W \ {c})
    BY <1>2, <2>2, WaitBehind
  <2> QED
    BY <2>3, <2>4 DEF KeptOrBad
<1>3. CASE ~full /\ ~(a.resetHead # <<>> /\ c.tsn > a.resetHead[1].tsn)
  <2>1. b = QueueToStream(x, Stm, c)
    BY <1>0, <1>3 DEF Place
  <2>x. x = [a EXCEPT !.got = @ \cup {c.tsn}]
    OBVIOUS
  <2> HIDE DEF x
  <2>2. a.resetHead = <<>> \/ c.tsn <= a.resetHead[1].tsn
    <3>1. c.tsn \in Int /\ (a.resetHead # <<>> => a.resetHead[1].tsn \in Int)
      BY KeepsTypes
    <3> QED
      BY <1>3, <3>1
  <2>3. KeptOrBad(t, B, b, W \ {c})
    BY <2>1, <2>2, <2>x, QueueNow
  <2>4. b.cum = x.cum /\ b.got = x.got
    BY <1>x, <2>1 DEF QueueToStream, Fields
  <2> QED
    BY <1>x, <2>3, <2>4
<1> QED
  BY <1>1, <1>2, <1>3

-----------------------------------------------------------------------------
(* What waited for a reset is queued, one chunk after the other. *)

\* The chunks of F that a reset releases: they follow what was read.
Released(z, F, n) ==
    /\ IsRecv(z) /\ ~z.bad /\ Synced(z, n) /\ z.inqueue[Stm] = {} /\ z.cum \in Int
    /\ F \subseteq Chunk
    /\ \A c \in F : c.tsn > z.cum /\ c.tsn > Len(z.read) /\ c.tsn <= MaxTsn /\ c.ssn = c.tsn - n
    /\ \A c, d \in F : c.tsn = d.tsn => c = d

\* x is z after those up to the TSN k were queued.
QueuedTo(z, x, F, n, k) ==
    /\ IsRecv(x) /\ ~x.bad /\ SameQueue(z, x) /\ Synced(x, n) /\ Len(x.read) >= Len(z.read)
    /\ \A d \in x.inqueue[Stm] : d \in F /\ d.tsn <= k
    /\ \A d \in F : d.tsn <= k => d \in x.inqueue[Stm] \/ d.tsn <= Len(x.read)
    /\ \A u \in (Len(z.read) + 1)..Len(x.read) : \E d \in F : d.tsn = u /\ d.tsn <= k

LEMMA QueuedFirst ==
  ASSUME NEW z, NEW F, NEW n, Released(z, F, n)
  PROVE  QueuedTo(z, z, F, n, 0)
<1> DEFINE r == Len(z.read)
<1>1. r \in Nat /\ \A d \in F : d.tsn > r /\ d.tsn \in Int
  BY ChunkFacts DEF Released, IsRecv
<1>2. \A d \in F : ~(d.tsn <= 0)
  <2> HIDE DEF r
  <2> QED
    BY <1>1
<1>3. r >= r /\ (r + 1)..r = {}
  BY <1>1
<1> QED
  BY <1>2, <1>3 DEF Released, QueuedTo, SameQueue

LEMMA QueuedNone ==
  ASSUME NEW z, NEW F, NEW n, Released(z, F, n), NEW k \in Int, NEW x, QueuedTo(z, x, F, n, k - 1),
         \A c \in F : c.tsn # k
  PROVE  QueuedTo(z, x, F, n, k)
<1>1. \A d \in F : d.tsn \in Int
  BY ChunkFacts DEF Released
<1>2. \A d \in F : d.tsn <= k <=> d.tsn <= k - 1
  BY <1>1
<1> QED
  BY <1>2 DEF QueuedTo

LEMMA QueuedOne ==
  ASSUME OneStream, NEW z, NEW F, NEW n, Released(z, F, n), NEW k \in Int, NEW x,
         QueuedTo(z, x, F, n, k - 1), NEW c \in F, c.tsn = k, NEW y, y = QueueToStream(x, Stm, c)
  PROVE  QueuedTo(z, y, F, n, k)
<1> DEFINE r == Len(z.read)
           s == Len(x.read)
           v == Len(y.read)
<1>0. /\ c \in Chunk /\ c.tsn \in Int /\ c.ssn \in Int /\ n \in Int /\ r \in Nat /\ s \in Nat
      /\ IsRecv(x) /\ ~x.bad /\ Synced(x, n) /\ SameQueue(z, x) /\ x.cum = z.cum
      /\ z.cum \in Int /\ c.tsn > z.cum /\ c.tsn > r /\ c.tsn <= MaxTsn /\ c.ssn = c.tsn - n
  BY ChunkFacts DEF Released, QueuedTo, IsRecv, Synced, SameQueue
<1>1. /\ \A d \in F : d.tsn \in Int
      /\ \A d \in x.inqueue[Stm] : d \in F /\ d.tsn <= k - 1
      /\ \A d \in F : d.tsn <= k - 1 => d \in x.inqueue[Stm] \/ d.tsn <= s
      /\ \A u \in (r + 1)..s : \E d \in F : d.tsn = u /\ d.tsn <= k - 1
      /\ s >= r
  BY ChunkFacts DEF Released, QueuedTo
<1>u. \A d \in F : d.tsn = k => d = c
  BY DEF Released
<1> HIDE DEF r, s
<1>2. s < k
  <2> SUFFICES ASSUME ~(s < k) PROVE FALSE
    OBVIOUS
  <2>1. k \in (r + 1)..s
    BY <1>0
  <2>2. PICK d \in F : d.tsn = k /\ d.tsn <= k - 1
    BY <1>1, <2>1
  <2> QED
    BY <2>2
<1>3. x.last[Stm] < c.ssn
  <2> DEFINE l == x.last[Stm]
  <2>1. l = s - n
    BY <1>0 DEF Synced, s
  <2> HIDE DEF l
  <2>2. l < c.ssn
    BY <1>0, <1>2, <2>1
  <2> QED
    BY <2>2 DEF l
<1>4. \A d \in x.inqueue[Stm] : d.tsn # c.tsn
  BY <1>0, <1>1
<1>5. x.cum \in Int /\ x.cum < c.tsn
  BY <1>0
<1>6. QueuedOrBad(x, y, c, n) /\ ~y.bad
  BY <1>0, <1>3, <1>4, <1>5, QueueSync
<1>7. y # [x EXCEPT !.bad = TRUE]
  <2>1. DOMAIN x = Fields
    BY <1>0 DEF IsRecv
  <2>2. [x EXCEPT !.bad = TRUE].bad = TRUE
    BY <2>1 DEF Fields
  <2> QED
    BY <1>6, <2>2
<1>8. Queued(x, y, c) /\ Synced(y, n) /\ SameQueue(x, y)
  BY <1>6, <1>7 DEF QueuedOrBad
<1>9. /\ IsRecv(y) /\ ~y.bad /\ v >= s /\ v \in Nat
      /\ y.inqueue[Stm] \subseteq x.inqueue[Stm] \cup {c}
      /\ \A d \in x.inqueue[Stm] \cup {c} : d \in y.inqueue[Stm] \/ d.tsn <= v
      /\ \A u \in (s + 1)..v : \E d \in x.inqueue[Stm] \cup {c} : d.tsn = u
  BY <1>8 DEF Queued, IsRecv, s
<1> HIDE DEF v
<1>10. SameQueue(z, y)
  BY <1>0, <1>8 DEF SameQueue
<1>11. v >= r
  BY <1>0, <1>1, <1>9
<1>12. \A d \in x.inqueue[Stm] \cup {c} : d \in F /\ d.tsn <= k
  BY <1>0, <1>1
<1>13. \A d \in y.inqueue[Stm] : d \in F /\ d.tsn <= k
  BY <1>9, <1>12
<1>14. ASSUME NEW d \in F, d.tsn <= k PROVE d \in y.inqueue[Stm] \/ d.tsn <= v
  <2>1. CASE d = c
    BY <1>9, <2>1
  <2>2. CASE d # c
    <3>1. d.tsn <= k - 1
      BY <1>1, <1>14, <1>u, <2>2
    <3>2. CASE d \in x.inqueue[Stm]
      BY <1>9, <3>2
    <3>3. CASE d.tsn <= s
      BY <1>0, <1>1, <1>9, <3>3
    <3> QED
      BY <1>1, <3>1, <3>2, <3>3
  <2> QED
    BY <2>1, <2>2
<1>15. ASSUME NEW u \in (r + 1)..v PROVE \E d \in F : d.tsn = u /\ d.tsn <= k
  <2>1. CASE u \in (r + 1)..s
    BY <1>1, <2>1
  <2>2. CASE u \in (s + 1)..v
    BY <1>9, <1>12, <2>2
  <2> QED
    BY <1>0, <1>9, <2>1, <2>2
<1> QED
  BY <1>8, <1>9, <1>10, <1>11, <1>13, <1>14, <1>15 DEF QueuedTo, r, v

\* All that was released is queued.
LEMMA QueueAllSync ==
  ASSUME OneStream, NEW z, NEW F, NEW n, Released(z, F, n), NEW b, b = QueueAll(z, Stm, F)
  PROVE  QueuedTo(z, b, F, n, MaxTsn)
<1>0. MaxTsn \in Nat
  BY StrResetAssumption
<1>1. PICK g : /\ QueueAll(z, Stm, F) = g[MaxTsn] /\ g[0] = z
               /\ \A t \in 1..MaxTsn : g[t] = QueueOne(g[t - 1], Stm, F, t)
  BY QueueAllGoes
<1> DEFINE R == {t \in 0..MaxTsn : QueuedTo(z, g[t], F, n, t)}
<1>2. 0 \in R
  BY <1>0, <1>1, QueuedFirst
<1>3. ASSUME NEW t \in 1..MaxTsn, t - 1 \in R PROVE t \in R
  <2>0. t \in Int /\ t \in 0..MaxTsn /\ QueuedTo(z, g[t - 1], F, n, t - 1)
    BY <1>0, <1>3
  <2>1. CASE \E c \in F : c.tsn = t
    <3> DEFINE c == CHOOSE d \in F : d.tsn = t
    <3>1. c \in F /\ c.tsn = t
      BY <2>1
    <3>2. g[t] = QueueToStream(g[t - 1], Stm, c)
      BY <1>1, <2>1 DEF QueueOne
    <3> HIDE DEF c
    <3>3. QueuedTo(z, g[t], F, n, t)
      BY <2>0, <3>1, <3>2, QueuedOne
    <3> QED
      BY <2>0, <3>3
  <2>2. CASE ~\E c \in F : c.tsn = t
    <3>1. g[t] = g[t - 1]
      BY <1>1, <2>2 DEF QueueOne
    <3>2. QueuedTo(z, g[t], F, n, t)
      BY <2>0, <2>2, <3>1, QueuedNone
    <3> QED
      BY <2>0, <3>2
  <2> QED
    BY <2>1, <2>2
<1>4. MaxTsn \in R
  <2> HIDE DEF R
  <2> QED
    BY <1>0, <1>2, <1>3, UpTo
<1> QED
  BY <1>1, <1>4

\* A released chunk that was counted already ends the association.
LEMMA QueueAllBad ==
  ASSUME OneStream, NEW z, DOMAIN z = Fields, ~z.bad, z.cum \in Int, NEW F,
         \A c \in F : c.tsn \in Int, NEW h \in Nat, h < z.cum, h + 1 <= MaxTsn,
         \A c \in F : c.tsn > h, \E c \in F : c.tsn = h + 1
  PROVE  QueueAll(z, Stm, F) = [z EXCEPT !.bad = TRUE]
<1> DEFINE w == [z EXCEPT !.bad = TRUE]
<1>0. MaxTsn \in Nat
  BY StrResetAssumption
<1>1. PICK g : /\ QueueAll(z, Stm, F) = g[MaxTsn] /\ g[0] = z
               /\ \A t \in 1..MaxTsn : g[t] = QueueOne(g[t - 1], Stm, F, t)
  BY QueueAllGoes
<1>2. w.bad = TRUE
  BY DEF Fields
<1>w. w = [z EXCEPT !.bad = TRUE]
  OBVIOUS
<1> HIDE DEF w
<1> DEFINE R == {t \in 0..MaxTsn : (t <= h => g[t] = z) /\ (t > h => g[t] = w)}
<1>3. 0 \in R
  BY <1>0, <1>1
<1>4. ASSUME NEW t \in 1..MaxTsn, t - 1 \in R PROVE t \in R
  <2>0. t \in Int /\ t \in 0..MaxTsn /\ (t - 1 <= h => g[t - 1] = z) /\ (t - 1 > h => g[t - 1] = w)
        /\ g[t] = QueueOne(g[t - 1], Stm, F, t)
    BY <1>0, <1>1, <1>4
  <2>1. CASE t <= h
    <3>1. ~\E c \in F : c.tsn = t
      BY <2>0, <2>1
    <3>2. g[t - 1] = z
      BY <2>0, <2>1
    <3>3. g[t] = z
      BY <2>0, <3>1, <3>2 DEF QueueOne
    <3> QED
      BY <2>0, <2>1, <3>3
  <2>2. CASE t = h + 1
    <3> DEFINE c == CHOOSE d \in F : d.tsn = t
    <3>1. c \in F /\ c.tsn = t /\ \E d \in F : d.tsn = t
      BY <2>2
    <3>2. g[t - 1] = z
      BY <2>0, <2>2
    <3>3. g[t] = QueueToStream(z, Stm, c)
      BY <2>0, <3>1, <3>2 DEF QueueOne
    <3> HIDE DEF c
    <3>4. z.cum >= c.tsn
      BY <2>0, <2>2, <3>1
    <3>5. g[t] = w
      BY <3>3, <3>4, <1>w DEF QueueToStream
    <3> QED
      BY <2>0, <2>2, <3>5
  <2>3. CASE t > h + 1
    <3>1. g[t - 1] = w
      BY <2>0, <2>3
    <3>2. \A c : QueueToStream(w, Stm, c) = w
      BY <1>2 DEF QueueToStream
    <3>3. g[t] = w
      BY <2>0, <3>1, <3>2 DEF QueueOne
    <3> QED
      BY <2>0, <2>3, <3>3
  <2> QED
    BY <2>0, <2>1, <2>2, <2>3
<1>5. MaxTsn \in R
  <2> HIDE DEF R
  <2> QED
    BY <1>0, <1>3, <1>4, UpTo
<1>6. MaxTsn > h
  BY <1>0
<1> QED
  BY <1>1, <1>5, <1>6, <1>w

LEMMA QueueAllNone ==
  ASSUME NEW z
  PROVE  QueueAll(z, Stm, {}) = z
<1>0. MaxTsn \in Nat
  BY StrResetAssumption
<1>1. PICK g : /\ QueueAll(z, Stm, {}) = g[MaxTsn] /\ g[0] = z
               /\ \A t \in 1..MaxTsn : g[t] = QueueOne(g[t - 1], Stm, {}, t)
  BY QueueAllGoes
<1> DEFINE R == {t \in 0..MaxTsn : g[t] = z}
<1>2. 0 \in R
  BY <1>0, <1>1
<1>3. ASSUME NEW t \in 1..MaxTsn, t - 1 \in R PROVE t \in R
  BY <1>0, <1>1, <1>3 DEF QueueOne
<1>4. MaxTsn \in R
  <2> HIDE DEF R
  <2> QED
    BY <1>0, <1>2, <1>3, UpTo
<1> QED
  BY <1>1, <1>4

-----------------------------------------------------------------------------
(* The list of waiting resets without its first. *)

\* Once all up to g arrived and only later chunks wait behind a reset, all of
\* them were read and nothing is queued.
LEMMA AllRead ==
  ASSUME OneStream, NEW t, NEW B, NEW a, NEW W, Keeps(t, B, a, W), NEW g \in Int,
         a.cum >= g, Len(a.read) <= g, \A c \in a.pending : c.tsn > g,
         \A c \in a.inqueue[Stm] : c.tsn <= g
  PROVE  Len(a.read) = g /\ a.inqueue[Stm] = {}
<1> DEFINE r == Len(a.read)
<1>0. /\ r \in Nat /\ a.cum \in Int /\ r <= g
      /\ \A c \in Held(a) : c.tsn \in Int
  BY KeepsTypes
<1>1. /\ 1..a.cum \subseteq a.got
      /\ \A u \in a.got : u <= r \/ \E c \in Held(a) : c.tsn = u
      /\ \A c \in a.inqueue[Stm] : c.tsn > r + 1
  BY DEF Keeps, Arrived, Behind
<1> HIDE DEF r
<1>2. r = g
  <2> SUFFICES ASSUME r # g PROVE FALSE
    OBVIOUS
  <2>1. r + 1 \in 1..a.cum /\ ~(r + 1 <= r) /\ r + 1 <= g
    BY <1>0
  <2>2. PICK c \in Held(a) : c.tsn = r + 1
    BY <1>1, <2>1
  <2>3. c.tsn \in Int
    BY <1>0
  <2>4. c \notin a.pending
    BY <2>1, <2>2, <2>3
  <2>5. c \in a.inqueue[Stm]
    BY <2>4 DEF Held
  <2> QED
    BY <1>0, <1>1, <2>2, <2>3, <2>5
<1>3. ASSUME NEW c \in a.inqueue[Stm] PROVE FALSE
  <2>1. c.tsn \in Int /\ c.tsn > r + 1 /\ c.tsn <= g
    BY <1>0, <1>1 DEF Held
  <2> QED
    BY <1>0, <1>2, <2>1
<1> QED
  BY <1>2, <1>3 DEF r

\* The first reset is taken from the list.
RestOf(p, q) ==
    /\ q \in Seq(WaitingReset) /\ Len(q) \in Nat /\ Len(q) + 1 = Len(p)
    /\ \A i \in 1..Len(q) : q[i] = p[i + 1] /\ i + 1 \in 1..Len(p)
    /\ \A i \in 2..Len(p) : i - 1 \in 1..Len(q) /\ q[i - 1] = p[i]
    /\ q # <<>> => 1 \in 1..Len(q) /\ p[1].tsn <= q[1].tsn

LEMMA RestHeads ==
  ASSUME OneStream, NEW t, NEW B, NEW a, NEW W, Keeps(t, B, a, W), a.resetHead # <<>>,
         NEW q, q = Tail(a.resetHead)
  PROVE  RestOf(a.resetHead, q)
<1> DEFINE p == a.resetHead
<1>0. p \in Seq(WaitingReset) /\ p # <<>> /\ q = Tail(p)
  BY DEF Keeps, Heads
<1>0a. \A i \in 1..Len(p) : \A j \in 1..i : p[j].tsn <= p[i].tsn
  BY DEF Keeps, Heads
<1> HIDE DEF p
<1>1. q \in Seq(WaitingReset) /\ Len(q) = Len(p) - 1 /\ Len(p) \in Nat /\ Len(p) >= 1
  <2>1. q \in Seq(WaitingReset) /\ Len(q) = Len(p) - 1
    BY <1>0, HeadTailProperties
  <2>2. Len(p) \in Nat /\ Len(p) # 0
    BY <1>0, EmptySeq
  <2> QED
    BY <2>1, <2>2
<1>2. \A i \in 1..Len(q) : q[i] = p[i + 1]
  BY <1>0, <1>1, HeadTailProperties
<1>3. Len(q) \in Nat /\ Len(q) + 1 = Len(p)
  BY <1>1
<1>4. \A i \in 1..Len(q) : i + 1 \in 1..Len(p)
  BY <1>3
<1>5. ASSUME NEW i \in 2..Len(p) PROVE i - 1 \in 1..Len(q) /\ q[i - 1] = p[i]
  <2>1. i - 1 \in 1..Len(q) /\ (i - 1) + 1 = i
    BY <1>1, <1>3
  <2> QED
    BY <1>2, <2>1
<1>6. ASSUME q # <<>> PROVE 1 \in 1..Len(q) /\ p[1].tsn <= q[1].tsn
  <2>1. 1 \in 1..Len(q)
    BY <1>1, <1>6
  <2>2. 2 \in 1..Len(p) /\ 1 \in 1..2
    BY <1>3, <2>1
  <2>3. q[1] = p[1 + 1]
    BY <1>2, <2>1
  <2> QED
    BY <1>0a, <2>1, <2>2, <2>3
<1> QED
  BY <1>1, <1>2, <1>3, <1>4, <1>5, <1>6 DEF p, RestOf

LEMMA RestWait ==
  ASSUME OneStream, NEW t, NEW B, NEW a, NEW W, Keeps(t, B, a, W), a.resetHead # <<>>,
         NEW z, z.resetHead = Tail(a.resetHead)
  PROVE  /\ Heads(t, B, z)
         /\ \A m : Waits(a, m) => \/ m = a.resetHead[1].tsn + 1 /\ Resets(a.resetHead[1].list)
                                  \/ Waits(z, m)
<1> DEFINE p == a.resetHead
           q == z.resetHead
<1>1. /\ q \in Seq(WaitingReset) /\ Len(q) \in Nat /\ Len(q) + 1 = Len(p)
      /\ \A i \in 1..Len(q) : q[i] = p[i + 1] /\ i + 1 \in 1..Len(p)
      /\ \A i \in 2..Len(p) : i - 1 \in 1..Len(q) /\ q[i - 1] = p[i]
  <2>1. RestOf(p, q)
    BY RestHeads
  <2> QED
    BY <2>1 DEF RestOf
<1>2. \A i \in 1..Len(p) :
          /\ p[i].tsn < t
          /\ \A j \in 1..i : p[j].tsn <= p[i].tsn
          /\ Resets(p[i].list) => p[i].tsn + 1 \in B
  BY DEF Keeps, Heads
<1> HIDE DEF p, q
<1>3. ASSUME NEW i \in 1..Len(q)
      PROVE  /\ q[i].tsn < t
             /\ \A j \in 1..i : q[j].tsn <= q[i].tsn
             /\ Resets(q[i].list) => q[i].tsn + 1 \in B
  <2>1. q[i] = p[i + 1] /\ i + 1 \in 1..Len(p)
    BY <1>1
  <2>2. \A j \in 1..i : j \in 1..Len(q) /\ j + 1 \in 1..(i + 1)
    BY <1>1
  <2>3. \A j \in 1..i : q[j] = p[j + 1]
    BY <1>1, <2>2
  <2> QED
    BY <1>2, <2>1, <2>2, <2>3
<1>4. Heads(t, B, z)
  BY <1>1, <1>3 DEF Heads, q
<1>5. ASSUME NEW m, NEW i \in 1..Len(p), m = p[i].tsn + 1, Resets(p[i].list)
      PROVE  (m = p[1].tsn + 1 /\ Resets(p[1].list)) \/ Waits(z, m)
  <2>1. CASE i = 1
    BY <1>5, <2>1
  <2>2. CASE i # 1
    <3>1. i \in 2..Len(p)
      BY <1>1, <2>2
    <3>2. i - 1 \in 1..Len(q) /\ q[i - 1] = p[i]
      BY <1>1, <3>1
    <3> QED
      BY <1>5, <3>2 DEF Waits, q
  <2> QED
    BY <2>1, <2>2
<1> QED
  BY <1>4, <1>5 DEF p, Waits

-----------------------------------------------------------------------------
(* The first waiting reset takes place. *)

\* z is a without its first waiting reset, which took place, and F what it releases.
AfterHead(a, z, F) ==
    /\ DOMAIN z = Fields /\ z.cum = a.cum /\ z.got = a.got /\ z.read = a.read /\ z.bad = a.bad
    /\ z.inqueue = a.inqueue /\ z.resetHead = Tail(a.resetHead) /\ z.pending = a.pending \ F
    /\ DOMAIN z.last = Streams
    /\ z.last[Stm] = IF Resets(a.resetHead[1].list) THEN -1 ELSE a.last[Stm]
    /\ F = {c \in a.pending : z.resetHead = <<>> \/ c.tsn <= z.resetHead[1].tsn}

LEMMA ServeIs ==
  ASSUME OneStream, NEW a, IsRecv(a), ~a.bad, a.resetHead # <<>>, ~(a.cum < a.resetHead[1].tsn),
         a.incnt \in Nat, a.incnt >= InitStreams
  PROVE  \E z, F : AfterHead(a, z, F) /\ ServeReset(a, Stm) = QueueAll(z, Stm, F)
<1> DEFINE list == a.resetHead[1].list
           last == [s \in Streams |-> IF s \in Listed(list, a.incnt) THEN -1 ELSE a.last[s]]
           y == [ResetInStream(a, list) EXCEPT !.resetHead = Tail(@)]
           F == {c \in y.pending : y.resetHead = <<>> \/ c.tsn <= y.resetHead[1].tsn}
           z == [y EXCEPT !.pending = @ \ F]
<1>0. DOMAIN a = Fields /\ Stm \in Streams /\ (Stm \in Listed(list, a.incnt) <=> Resets(list))
  BY StmFacts DEF IsRecv
<1>1. ServeReset(a, Stm) = QueueAll(z, Stm, F)
  BY DEF ServeReset
<1>2. ResetInStream(a, list) = [a EXCEPT !.last = last]
  BY DEF ResetInStream
<1> HIDE DEF last
<1>3. y = [a EXCEPT !.last = last, !.resetHead = Tail(a.resetHead)]
  BY <1>0, <1>2 DEF Fields
<1> HIDE DEF y
<1>4. /\ DOMAIN y = Fields /\ y.cum = a.cum /\ y.got = a.got /\ y.read = a.read /\ y.bad = a.bad
      /\ y.inqueue = a.inqueue /\ y.resetHead = Tail(a.resetHead) /\ y.pending = a.pending
      /\ y.last = last
  BY <1>0, <1>3 DEF Fields
<1>5. F = {c \in a.pending : y.resetHead = <<>> \/ c.tsn <= y.resetHead[1].tsn}
  BY <1>4
<1> HIDE DEF F
<1>6. /\ DOMAIN z = Fields /\ z.cum = a.cum /\ z.got = a.got /\ z.read = a.read /\ z.bad = a.bad
      /\ z.inqueue = a.inqueue /\ z.resetHead = Tail(a.resetHead) /\ z.pending = a.pending \ F
      /\ z.last = last /\ z.resetHead = y.resetHead
  BY <1>4 DEF Fields
<1> HIDE DEF z
<1>7. DOMAIN last = Streams /\ last[Stm] = IF Resets(list) THEN -1 ELSE a.last[Stm]
  BY <1>0 DEF last
<1>8. AfterHead(a, z, F)
  BY <1>5, <1>6, <1>7 DEF AfterHead
<1> QED
  BY <1>1, <1>8

LEMMA AfterOrd ==
  ASSUME OneStream, NEW t, NEW B, NEW a, NEW W, Keeps(t, B, a, W), NEW z, NEW F, AfterHead(a, z, F)
  PROVE  IsRecv(z) /\ Ord(z, W) /\ Held(z) = Held(a) \ (F \ a.inqueue[Stm]) /\ ~z.bad /\ F \subseteq a.pending
<1>1. IsRecv(a) /\ a.last[Stm] \in Int /\ ~a.bad
  BY DEF Keeps, Ord, IsRecv
<1>2. z.last[Stm] \in Int
  BY <1>1 DEF AfterHead
<1>3. IsRecv(z)
  BY <1>1, <1>2 DEF AfterHead, IsRecv
<1>4. Held(z) = Held(a) \ (F \ a.inqueue[Stm]) /\ F \subseteq a.pending
  BY DEF Held, AfterHead
<1>5. Ord(z, W)
  BY <1>3, <1>4 DEF Keeps, Ord, AfterHead
<1> QED
  BY <1>1, <1>3, <1>4, <1>5 DEF AfterHead

AtHead(t, a, g) ==
    /\ g \in Nat /\ Len(a.read) = g /\ a.inqueue[Stm] = {} /\ g < t
    /\ \A c \in a.pending : c.tsn > g

LEMMA HeadFacts ==
  ASSUME OneStream, NEW t, NEW B, NEW a, NEW W, Keeps(t, B, a, W), a.resetHead # <<>>,
         NEW g, g = a.resetHead[1].tsn, a.cum >= g
  PROVE  AtHead(t, a, g)
<1>1. /\ g \in Int /\ Len(a.read) <= g /\ \A c \in a.pending : c.tsn > g
  BY KeepsTypes DEF Keeps, Behind
<1>2. \A c \in a.inqueue[Stm] : c.tsn <= g
  BY DEF Keeps, Behind
<1>3. Len(a.read) = g /\ a.inqueue[Stm] = {}
  BY <1>1, <1>2, AllRead
<1>4. g < t /\ Len(a.read) \in Nat
  BY KeepsTypes DEF Keeps, Heads
<1> QED
  BY <1>1, <1>3, <1>4 DEF AtHead

\* A later TSN was counted already: the first chunk that is released is refused.
LEMMA ServeDoomed ==
  ASSUME OneStream, NEW t, NEW B, NEW a, NEW W, Keeps(t, B, a, W), Doomed(a),
         NEW z, NEW F, AfterHead(a, z, F), NEW b, b = QueueAll(z, Stm, F)
  PROVE  KeptOrBad(t, B, b, W)
<1> DEFINE g == a.resetHead[1].tsn
<1>0. a.resetHead # <<>> /\ a.cum > g
  BY DEF Doomed
<1>1. /\ g \in Nat /\ Len(a.read) = g /\ a.inqueue[Stm] = {} /\ g < t
      /\ \A c \in a.pending : c.tsn > g
  <2>1. g \in Int /\ a.cum \in Int
    BY <1>0, KeepsTypes
  <2>2. a.cum >= g
    BY <1>0, <2>1
  <2>3. AtHead(t, a, g)
    BY <1>0, <2>2, HeadFacts
  <2> QED
    BY <2>3 DEF AtHead
<1>2. /\ IsRecv(z) /\ Ord(z, W) /\ ~z.bad /\ DOMAIN z = Fields /\ z.cum = a.cum /\ a.cum \in Int
      /\ F \subseteq a.pending /\ \A c \in a.pending : c.tsn \in Int /\ c.tsn <= MaxTsn
  <2>1. \A c \in Held(a) : c.tsn \in Int /\ c.tsn <= MaxTsn
    BY KeepsTypes
  <2>2. IsRecv(z) /\ Ord(z, W) /\ ~z.bad /\ F \subseteq a.pending
    BY AfterOrd
  <2>3. DOMAIN z = Fields /\ z.cum = a.cum
    BY DEF AfterHead
  <2>4. a.cum \in Int
    BY KeepsTypes
  <2> QED
    BY <2>1, <2>2, <2>3, <2>4 DEF Held
<1>3. PICK c \in a.pending : c.tsn = g + 1
  <2>1. g + 1 \in 1..a.cum /\ ~(g + 1 <= g)
    BY <1>0, <1>1, <1>2
  <2>2. g + 1 \in a.got
    BY <2>1 DEF Keeps, Arrived
  <2>3. g + 1 <= Len(a.read) \/ \E c \in Held(a) : c.tsn = g + 1
    BY <2>2 DEF Keeps, Arrived
  <2>4. \E c \in Held(a) : c.tsn = g + 1
    BY <1>1, <2>1, <2>3
  <2> QED
    BY <1>1, <2>4 DEF Held
<1> HIDE DEF g
<1>4. CASE c \in F
  <2>1. /\ \A d \in F : d.tsn \in Int /\ d.tsn > g
        /\ \E d \in F : d.tsn = g + 1
        /\ g < z.cum /\ g + 1 <= MaxTsn /\ z.cum \in Int
    <3>1. \A d \in F : d.tsn \in Int /\ d.tsn > g
      BY <1>1, <1>2
    <3>2. g < z.cum /\ z.cum \in Int
      BY <1>0, <1>1, <1>2
    <3>3. g + 1 <= MaxTsn
      BY <1>2, <1>3
    <3> QED
      BY <1>3, <1>4, <3>1, <3>2, <3>3
  <2>2. b = [z EXCEPT !.bad = TRUE]
    BY <1>1, <1>2, <2>1, QueueAllBad
  <2> QED
    BY <1>2, <2>2, BadOrd DEF KeptOrBad
<1>5. CASE c \notin F
  <2> DEFINE q == z.resetHead
             h == q[1].tsn
  <2>0. RestOf(a.resetHead, q)
    BY <1>0, RestHeads DEF AfterHead
  <2>1. q # <<>> /\ ~(c.tsn <= h)
    BY <1>5 DEF AfterHead
  <2>2. h \in Int /\ g <= h
    <3>1. q[1] \in WaitingReset /\ g <= h
      BY <2>0, <2>1 DEF RestOf, g
    <3> QED
      BY <3>1 DEF WaitingReset
  <2>3. h = g
    <3> HIDE DEF h
    <3> QED
      BY <1>1, <1>3, <2>1, <2>2
  <2>4. F = {}
    <3>1. \A d \in a.pending : ~(d.tsn <= h)
      <4> HIDE DEF h
      <4> QED
        BY <1>1, <1>2, <2>3
    <3> QED
      BY <2>1, <3>1 DEF AfterHead
  <2>5. b = z
    BY <2>4, QueueAllNone
  <2>6. Held(z) = Held(a) /\ z.pending = a.pending
    BY <2>4 DEF AfterHead, Held
  <2>7. Known(t, B, z, W) /\ Arrived(t, z, W)
    BY <2>6 DEF Keeps, Known, Arrived, AfterHead
  <2>8. Heads(t, B, z)
    BY <1>0, RestWait DEF AfterHead
  <2>9. Behind(z)
    <3>1. Len(z.read) <= h
      <4>1. Len(z.read) = g
        BY <1>1 DEF AfterHead
      <4> HIDE DEF h
      <4> QED
        BY <1>1, <2>3, <4>1
    <3>2. \A d \in z.pending : d.tsn > h
      BY <1>1, <2>3, <2>6
    <3>3. z.inqueue[Stm] = {}
      BY <1>1 DEF AfterHead
    <3> QED
      BY <2>1, <3>1, <3>2, <3>3 DEF Behind
  <2>10. Doomed(z)
    BY <1>0, <1>2, <2>1, <2>3 DEF Doomed, g
  <2>11. Keeps(t, B, z, W)
    BY <1>2, <2>7, <2>8, <2>9, <2>10 DEF Keeps
  <2> QED
    BY <2>5, <2>11 DEF KeptOrBad
<1> QED
  BY <1>4, <1>5

-----------------------------------------------------------------------------
(* The first waiting reset takes place in time. *)

\* The SSNs count from the reset, or from where they counted before.
LEMMA HeadCounts ==
  ASSUME OneStream, NEW t, NEW B, NEW a, NEW W, Keeps(t, B, a, W), a.resetHead # <<>>,
         NEW g, g = a.resetHead[1].tsn, AtHead(t, a, g), NEW k, Counts(B, a, k),
         NEW z, NEW F, AfterHead(a, z, F)
  PROVE  \E n : Counts(B, z, n)
<1>0. /\ g \in Nat /\ Len(a.read) = g /\ Len(z.read) = g /\ k \in B /\ k \in Int /\ B \subseteq Int
      /\ k <= g + 1 /\ a.last[Stm] = g - k /\ \A m \in B : m <= k \/ Waits(a, m)
      /\ z.last[Stm] = IF Resets(a.resetHead[1].list) THEN -1 ELSE a.last[Stm]
  BY DEF AtHead, AfterHead, Counts, Keeps
<1>1. \A m : Waits(a, m) => \/ m = g + 1 /\ Resets(a.resetHead[1].list)
                            \/ Waits(z, m)
  BY RestWait DEF AfterHead
<1>2. CASE Resets(a.resetHead[1].list)
  <2>1. g + 1 \in B
    <3>1. 1 \in 1..Len(a.resetHead)
      BY KeepsTypes
    <3> QED
      BY <1>2, <3>1 DEF Keeps, Heads
  <2>2. z.last[Stm] = g - (g + 1) /\ g + 1 <= g + 1
    BY <1>0, <1>2
  <2>3. ASSUME NEW m \in B PROVE m <= g + 1 \/ Waits(z, m)
    <3>1. m \in Int
      BY <1>0
    <3>2. m <= k \/ m = g + 1 \/ Waits(z, m)
      BY <1>0, <1>1
    <3> QED
      BY <1>0, <3>1, <3>2
  <2>4. Counts(B, z, g + 1)
    BY <1>0, <2>1, <2>2, <2>3 DEF Counts
  <2> QED
    BY <2>4
<1>3. CASE ~Resets(a.resetHead[1].list)
  <2>1. Counts(B, z, k)
    BY <1>0, <1>1, <1>3 DEF Counts
  <2> QED
    BY <2>1
<1> QED
  BY <1>2, <1>3

\* What the reset releases counts from the same TSN.
LEMMA HeadReleases ==
  ASSUME OneStream, NEW t, NEW B, NEW a, NEW W, Keeps(t, B, a, W), a.resetHead # <<>>,
         NEW g, g = a.resetHead[1].tsn, AtHead(t, a, g), a.cum = g,
         NEW z, NEW F, AfterHead(a, z, F), NEW n, Counts(B, z, n)
  PROVE  Released(z, F, n)
<1>0a. IsRecv(z) /\ ~z.bad /\ F \subseteq a.pending
  BY AfterOrd
<1>0b. z.inqueue = a.inqueue /\ z.read = a.read /\ z.cum = a.cum
  BY DEF AfterHead
<1>0. /\ IsRecv(z) /\ ~z.bad /\ F \subseteq a.pending /\ z.inqueue = a.inqueue /\ z.read = a.read
      /\ z.cum = a.cum
  BY <1>0a, <1>0b
<1>1. /\ g \in Nat /\ Len(z.read) = g /\ z.inqueue[Stm] = {} /\ \A c \in F : c.tsn > g
      /\ B \subseteq Int /\ n \in Int /\ n \in B /\ z.last[Stm] = g - n /\ n <= g + 1
      /\ \A m \in B : m <= n \/ Waits(z, m)
  BY <1>0 DEF AtHead, Counts, Keeps
<1>2. Synced(z, n)
  BY <1>1 DEF Synced
<1>3. F \subseteq Held(a)
  BY <1>0 DEF Held
<1>4. /\ F \subseteq Chunk /\ \A c \in F : c.tsn \in Int /\ c.ssn \in Int /\ c.tsn <= MaxTsn
  BY <1>3, KeepsTypes
<1>5. \A c, d \in F : c.tsn = d.tsn => c = d
  BY <1>3 DEF Keeps, Known
<1>6. ASSUME NEW c \in F PROVE c.ssn = c.tsn - n
  <2>0. c.tsn \in Int /\ c.ssn \in Int /\ c.tsn > g
    BY <1>1, <1>4
  <2>1. PICK m : IsBase(m, B, c.tsn) /\ c.ssn = c.tsn - m
    BY <1>3 DEF Keeps, Known, Numbered
  <2>2. ASSUME NEW k \in B, k <= c.tsn, ~(k <= n) PROVE FALSE
    <3>1. PICK i \in 1..Len(z.resetHead) : k = z.resetHead[i].tsn + 1
      BY <1>1, <2>2 DEF Waits
    <3> DEFINE h == z.resetHead[i].tsn
               f == z.resetHead[1].tsn
    <3>2. Heads(t, B, z) /\ RestOf(a.resetHead, z.resetHead)
      BY RestWait, RestHeads DEF AfterHead
    <3>3. z.resetHead # <<>> /\ 1 \in 1..i /\ z.resetHead \in Seq(WaitingReset) /\ 1 \in 1..Len(z.resetHead)
      BY <3>1, <3>2 DEF Heads
    <3>4. f <= h
      BY <3>1, <3>2, <3>3 DEF Heads
    <3>5. z.resetHead[i] \in WaitingReset /\ z.resetHead[1] \in WaitingReset
      BY <3>1, <3>3
    <3>6. h \in Int /\ f \in Int
      BY <3>5 DEF WaitingReset
    <3>7. c.tsn <= f /\ k = h + 1
      BY <3>1, <3>3 DEF AfterHead
    <3> HIDE DEF h, f
    <3> QED
      BY <2>0, <2>2, <3>4, <3>6, <3>7
  <2>3. IsBase(n, B, c.tsn)
    <3>1. n <= c.tsn
      BY <1>1, <2>0
    <3> QED
      BY <1>1, <2>2, <3>1 DEF IsBase
  <2>4. m = n
    BY <1>1, <2>0, <2>1, <2>3, BaseUnique
  <2> QED
    BY <2>1, <2>4
<1>7. \A c \in F : c.tsn > z.cum /\ c.tsn > Len(z.read)
  BY <1>0, <1>1
<1>8. z.cum \in Int
  BY <1>0, <1>1
<1> QED
  BY <1>0, <1>1, <1>2, <1>4, <1>5, <1>6, <1>7, <1>8 DEF Released

\* The reset takes place in time.
LEMMA ServeTimely ==
  ASSUME OneStream, NEW t, NEW B, NEW a, NEW W, Keeps(t, B, a, W), a.resetHead # <<>>,
         NEW g, g = a.resetHead[1].tsn, AtHead(t, a, g), a.cum = g,
         NEW z, NEW F, AfterHead(a, z, F), NEW n, Counts(B, z, n),
         NEW b, QueuedTo(z, b, F, n, MaxTsn)
  PROVE  Keeps(t, B, b, W)
<1> DEFINE s == Len(b.read)
           q == z.resetHead
<1>0. /\ F \subseteq a.pending /\ z.inqueue = a.inqueue /\ z.read = a.read
      /\ z.cum = a.cum /\ z.got = a.got /\ z.pending = a.pending \ F
      /\ F = {c \in a.pending : q = <<>> \/ c.tsn <= q[1].tsn}
  BY AfterOrd DEF AfterHead
<1>1. /\ g \in Nat /\ Len(a.read) = g /\ Len(z.read) = g /\ a.inqueue[Stm] = {}
      /\ \A c \in a.pending : c.tsn > g
  BY <1>0 DEF AtHead
<1>2. /\ IsRecv(b) /\ ~b.bad /\ Synced(b, n) /\ s >= g /\ s \in Nat
      /\ b.cum = a.cum /\ b.got = a.got /\ b.resetHead = q /\ b.pending = a.pending \ F
      /\ \A d \in b.inqueue[Stm] : d \in F
      /\ \A d \in b.inqueue[Stm] : d.tsn > s + 1
  <2>1. IsRecv(b) /\ ~b.bad /\ Synced(b, n) /\ SameQueue(z, b)
    BY DEF QueuedTo
  <2>2. s >= g
    BY <1>1 DEF QueuedTo
  <2>3. s \in Nat
    BY <2>1 DEF IsRecv
  <2>4. \A d \in b.inqueue[Stm] : d \in F
    BY DEF QueuedTo
  <2>5. \A d \in b.inqueue[Stm] : d.tsn > s + 1
    BY <2>1 DEF Synced
  <2> QED
    BY <1>0, <2>1, <2>2, <2>3, <2>4, <2>5 DEF SameQueue
<1>3. \A d \in a.pending : d.tsn \in Int /\ d.tsn <= MaxTsn
  <2>1. \A d \in Held(a) : d.tsn \in Int /\ d.tsn <= MaxTsn
    BY KeepsTypes
  <2> QED
    BY <2>1 DEF Held
<1>4. \A d \in F : d \in b.inqueue[Stm] \/ d.tsn <= s
  BY <1>0, <1>3 DEF QueuedTo
<1>5. \A u \in (g + 1)..s : \E d \in F : d.tsn = u
  BY <1>1 DEF QueuedTo
<1>6. Heads(t, B, z) /\ RestOf(a.resetHead, q)
  BY RestWait, RestHeads DEF AfterHead
<1>7. q # <<>> => q[1].tsn \in Int /\ g <= q[1].tsn
  <2> SUFFICES ASSUME q # <<>> PROVE q[1].tsn \in Int /\ g <= q[1].tsn
    OBVIOUS
  <2>1. q \in Seq(WaitingReset) /\ 1 \in 1..Len(q) /\ g <= q[1].tsn
    BY <1>6 DEF RestOf
  <2>2. q[1] \in WaitingReset
    BY <2>1
  <2> QED
    BY <2>1, <2>2 DEF WaitingReset
<1> HIDE DEF s, q
<1>8. q # <<>> => s <= q[1].tsn
  <2> SUFFICES ASSUME q # <<>> PROVE s <= q[1].tsn
    OBVIOUS
  <2> DEFINE h == q[1].tsn
  <2>1. h \in Int /\ g <= h /\ \A d \in F : d.tsn <= h
    BY <1>0, <1>7
  <2> HIDE DEF h
  <2>2. CASE s = g
    BY <1>1, <2>1, <2>2 DEF h
  <2>3. CASE s # g
    <3>1. s \in (g + 1)..s
      BY <1>1, <1>2, <2>3
    <3> QED
      BY <1>5, <2>1, <3>1 DEF h
  <2> QED
    BY <2>2, <2>3
<1>9. \A d \in b.pending : q # <<>> /\ ~(d.tsn <= q[1].tsn) /\ d \in a.pending
  BY <1>0, <1>2
<1>10. \A d \in b.pending : q # <<>> /\ d.tsn > q[1].tsn
  BY <1>3, <1>7, <1>9
<1>11. \A d \in Held(b) : d.tsn > s
  <2>1. ASSUME NEW d \in b.inqueue[Stm] PROVE d.tsn > s
    <3>1. d.tsn \in Int /\ d.tsn > s + 1
      BY <1>0, <1>2, <1>3
    <3> QED
      BY <1>2, <3>1
  <2>2. ASSUME NEW d \in b.pending PROVE d.tsn > s
    <3> DEFINE h == q[1].tsn
    <3>1. d.tsn \in Int /\ h \in Int /\ s <= h /\ d.tsn > h
      BY <1>3, <1>7, <1>8, <1>9, <1>10
    <3> HIDE DEF h
    <3> QED
      BY <1>2, <3>1
  <2> QED
    BY <2>1, <2>2 DEF Held
<1>12. Takes(a, b, {})
  <2>1. Held(b) \subseteq Held(a) /\ Held(a) = a.pending
    BY <1>0, <1>1, <1>2 DEF Held
  <2>2. \A d \in Held(a) : d \in Held(b) \/ d.tsn <= s
    BY <1>2, <1>4, <2>1 DEF Held
  <2>3. \A u \in (Len(a.read) + 1)..s : \E d \in Held(a) : d.tsn = u
    BY <1>0, <1>1, <1>5, <2>1
  <2>4. b.got = a.got \cup {d.tsn : d \in {}} /\ s >= Len(a.read)
    BY <1>1, <1>2
  <2> QED
    BY <1>2, <1>11, <2>1, <2>2, <2>3, <2>4 DEF Takes, s
<1>13. Ord(b, W \ {}) /\ Known(t, B, b, W \ {}) /\ Arrived(t, b, W \ {}) /\ W \ {} = W
  BY <1>12, Taken
<1>14. Heads(t, B, b)
  BY <1>2, <1>6 DEF Heads, q
<1>15. Behind(b)
  <2>1. b.resetHead = <<>> => b.pending = {}
    BY <1>2, <1>9
  <2>2. b.resetHead # <<>> => \A c \in b.inqueue[Stm] : c.tsn <= b.resetHead[1].tsn
    BY <1>0, <1>2
  <2> QED
    BY <1>2, <1>8, <1>10, <2>1, <2>2 DEF Behind, s
<1>16. Counts(B, b, n)
  <2>1. n \in B /\ n <= g + 1 /\ n \in Int /\ \A m \in B : m <= n \/ Waits(z, m)
    BY <1>1 DEF Counts, Keeps
  <2>2. \A m : Waits(z, m) <=> Waits(b, m)
    BY <1>2 DEF Waits, q
  <2>3. b.last[Stm] = s - n
    BY <1>2 DEF Synced, s
  <2>4. n <= s + 1
    BY <1>1, <1>2, <2>1
  <2> QED
    BY <2>1, <2>2, <2>3, <2>4 DEF Counts, s
<1> QED
  BY <1>2, <1>13, <1>14, <1>15, <1>16 DEF Keeps

LEMMA ServeKeeps ==
  ASSUME OneStream, NEW t, NEW B, NEW a, NEW W, Keeps(t, B, a, W),
         a.incnt \in Nat, a.incnt >= InitStreams, NEW b, b = ServeReset(a, Stm)
  PROVE  KeptOrBad(t, B, b, W)
<1>0. ~a.bad /\ IsRecv(a) /\ a.cum \in Int /\ (a.resetHead # <<>> => a.resetHead[1].tsn \in Int)
  BY KeepsTypes DEF Keeps, Ord
<1>1. CASE a.resetHead = <<>> \/ a.cum < a.resetHead[1].tsn
  <2>1. b = a
    BY <1>1 DEF ServeReset
  <2> QED
    BY <2>1 DEF KeptOrBad
<1>2. CASE ~(a.resetHead = <<>> \/ a.cum < a.resetHead[1].tsn)
  <2> DEFINE g == a.resetHead[1].tsn
  <2>0. a.resetHead # <<>> /\ a.cum >= g /\ ~(a.cum < g)
    BY <1>0, <1>2
  <2>1. PICK z, F : AfterHead(a, z, F) /\ b = QueueAll(z, Stm, F)
    BY <1>0, <2>0, ServeIs
  <2>2. CASE a.cum > g
    <3>1. Doomed(a)
      BY <2>0, <2>2 DEF Doomed
    <3> QED
      BY <2>1, <3>1, ServeDoomed
  <2>3. CASE ~(a.cum > g)
    <3>1. a.cum = g
      BY <1>0, <2>0, <2>3
    <3>2. AtHead(t, a, g)
      BY <2>0, HeadFacts
    <3>3. ~Doomed(a)
      BY <2>3 DEF Doomed
    <3>4. PICK k : Counts(B, a, k)
      BY <3>3 DEF Keeps
    <3>5. PICK n : Counts(B, z, n)
      BY <2>0, <2>1, <3>2, <3>4, HeadCounts
    <3>6. Released(z, F, n)
      BY <2>0, <2>1, <3>1, <3>2, <3>5, HeadReleases
    <3>7. QueuedTo(z, b, F, n, MaxTsn)
      BY <2>1, <3>6, QueueAllSync
    <3>8. Keeps(t, B, b, W)
      BY <2>0, <2>1, <3>1, <3>2, <3>5, <3>7, ServeTimely
    <3> QED
      BY <3>8 DEF KeptOrBad
  <2> QED
    BY <2>2, <2>3
<1> QED
  BY <1>1, <1>2

-----------------------------------------------------------------------------
(* A DATA chunk is processed. *)

\* Sliding the arrays moves the cumulative TSN only.
LEMMA SlideKeeps ==
  ASSUME OneStream, NEW t, NEW B, NEW a, NEW W, KeptOrBad(t, B, a, W), NEW b, b = Slide(a)
  PROVE  KeptOrBad(t, B, b, W)
<1> DEFINE full == {u \in a.cum..MaxTsn : \A v \in (a.cum + 1)..u : v \in a.got}
           k == CHOOSE u \in full : \A v \in full : v <= u
<1>1. b = [a EXCEPT !.cum = k]
  BY DEF Slide
<1>2. CASE a.bad = TRUE /\ Ord(a, W)
  <2> HIDE DEF k
  <2>1. Ord(b, W) /\ b.bad = a.bad
    BY <1>1, <1>2, CumOrd
  <2> QED
    BY <1>2, <2>1 DEF KeptOrBad
<1>3. CASE Keeps(t, B, a, W)
  <2>1. /\ MaxTsn \in Nat /\ a.cum \in Nat /\ a.cum <= MaxTsn /\ 1..a.cum \subseteq a.got
    <3>1. t \in Int /\ t <= MaxTsn + 1 /\ MaxTsn \in Nat
      BY <1>3, KeepsTypes
    <3>2. a.cum \in 0..(t - 1) /\ 1..a.cum \subseteq a.got
      BY <1>3 DEF Keeps, Arrived
    <3> QED
      BY <3>1, <3>2
  <2>2. a.cum \in full /\ full \in SUBSET (0..MaxTsn)
    BY <2>1
  <2>3. \E g \in full : \A h \in full : h <= g
    <3> HIDE DEF full
    <3> QED
      BY <2>1, <2>2, Largest
  <2>4. k \in full
    <3> HIDE DEF full
    <3> QED
      BY <2>3
  <2> HIDE DEF k
  <2>5. k \in Int /\ k >= a.cum /\ 1..k \subseteq a.got
    BY <2>1, <2>4
  <2>6. Keeps(t, B, b, W)
    <3> HIDE DEF full
    <3> QED
      BY <1>1, <1>3, <2>5, CumGrows
  <2> QED
    BY <2>6 DEF KeptOrBad
<1> QED
  BY <1>2, <1>3 DEF KeptOrBad

LEMMA CumStepKeeps ==
  ASSUME OneStream, NEW t, NEW B, NEW a, NEW W, KeptOrBad(t, B, a, W), NEW c,
         ~a.bad => c.tsn \in a.got, NEW b, b = CumStep(a, c)
  PROVE  KeptOrBad(t, B, b, W)
<1>1. CASE c.tsn # a.cum + 1
  BY <1>1 DEF CumStep
<1>2. CASE c.tsn = a.cum + 1 /\ a.bad = TRUE /\ Ord(a, W)
  <2>1. b = [a EXCEPT !.cum = c.tsn]
    BY <1>2 DEF CumStep
  <2>2. Ord(b, W) /\ b.bad = a.bad
    BY <1>2, <2>1, CumOrd
  <2> QED
    BY <1>2, <2>2 DEF KeptOrBad
<1>3. CASE c.tsn = a.cum + 1 /\ Keeps(t, B, a, W)
  <2> DEFINE k == c.tsn
  <2>1. b = [a EXCEPT !.cum = k]
    BY <1>3 DEF CumStep
  <2>2. a.cum \in Int /\ ~a.bad /\ 1..a.cum \subseteq a.got
    <3>1. a.cum \in Int
      BY <1>3, KeepsTypes
    <3> QED
      BY <1>3, <3>1 DEF Keeps, Arrived
  <2>3. k \in Int /\ k >= a.cum
    BY <1>3, <2>2
  <2>4. 1..k \subseteq a.got
    <3> SUFFICES ASSUME NEW u \in 1..k PROVE u \in a.got
      OBVIOUS
    <3>1. u = k \/ u \in 1..a.cum
      BY <1>3, <2>2
    <3> QED
      BY <2>2, <3>1
  <2> HIDE DEF k
  <2>5. Keeps(t, B, b, W)
    BY <1>3, <2>1, <2>3, <2>4, CumGrows
  <2> QED
    BY <2>5 DEF KeptOrBad
<1> QED
  BY <1>1, <1>2, <1>3 DEF KeptOrBad

\* A chunk that was under way is processed.
LEMMA ProcessKeeps ==
  ASSUME OneStream, NEW t, NEW B, NEW a, NEW W, Keeps(t, B, a, W), NEW c \in W,
         a.incnt \in Nat, a.incnt >= InitStreams, NEW b, b = ProcessData(a, c)
  PROVE  KeptOrBad(t, B, b, W \ {c})
<1> DEFINE p == Place(a, c)
           q == CumStep(p, c)
           r == ServeReset(q, Stm)
           V == W \ {c}
<1>0. c \in Chunk /\ DOMAIN a = Fields
  BY KeepsTypes
<1>1. c.strm = Stm /\ Stm < InitStreams /\ Stm \in Nat /\ InitStreams \in Nat
  BY <1>0, ChunkFacts, StmFacts DEF OneStream
<1>2. ~(c.strm >= a.incnt)
  BY <1>1
<1>3. b = Slide(r)
  BY <1>1, <1>2 DEF ProcessData
<1>4. KeptOrBad(t, B, p, V) /\ (~p.bad => c.tsn \in p.got)
  BY PlaceKeeps
<1>5. SameControl(a, p)
  BY <1>0, PlaceControl
<1> HIDE DEF p
<1>6. KeptOrBad(t, B, q, V)
  <2> HIDE DEF V
  <2> QED
    BY <1>4, CumStepKeeps
<1>7. SameControl(p, q)
  BY <1>5 DEF CumStep, SameControl, Fields
<1> HIDE DEF q, V
<1>8. q.incnt = a.incnt
  BY <1>5, <1>7 DEF SameControl
<1>9. KeptOrBad(t, B, r, V)
  <2>1. CASE Keeps(t, B, q, V)
    BY <1>8, <2>1, ServeKeeps
  <2>2. CASE q.bad = TRUE /\ Ord(q, V)
    <3>1. r = q
      BY <2>2 DEF ServeReset
    <3> QED
      BY <2>2, <3>1 DEF KeptOrBad
  <2> QED
    BY <1>6, <2>1, <2>2 DEF KeptOrBad
<1> HIDE DEF r
<1>10. KeptOrBad(t, B, b, V)
  BY <1>3, <1>9, SlideKeeps
<1> QED
  BY <1>10 DEF V

-----------------------------------------------------------------------------
(* A reset is accepted, at once or to wait. *)

\* A reset that comes after all that was sent leaves the numbers of it alone.
LEMMA NumberedMore ==
  ASSUME NEW B \in SUBSET Int, NEW t \in Int, NEW E \in SUBSET {t}, NEW d, d.tsn \in Int, d.tsn < t,
         Numbered(d, B)
  PROVE  Numbered(d, B \cup E)
<1>1. PICK n : IsBase(n, B, d.tsn) /\ d.ssn = d.tsn - n
  BY DEF Numbered
<1>2. n \in B /\ n <= d.tsn /\ \A m \in B : m <= d.tsn => m <= n
  BY <1>1 DEF IsBase
<1>3. ASSUME NEW m \in B \cup E, m <= d.tsn PROVE m <= n
  <2>1. m # t
    BY <1>3
  <2> QED
    BY <1>2, <1>3, <2>1
<1>4. IsBase(n, B \cup E, d.tsn)
  BY <1>2, <1>3 DEF IsBase
<1> QED
  BY <1>1, <1>4 DEF Numbered

\* The reset that follows all of t - 1 chunks adds the base t.
LEMMA BasesAdd ==
  ASSUME NEW T, NEW p, NEW t \in Int, p.tsn = t - 1
  PROVE  Bases(T \cup {p}) = Bases(T) \cup (IF Resets(p.list) THEN {t} ELSE {})
<1>1. p.tsn + 1 = t
  OBVIOUS
<1>2. ASSUME NEW n PROVE n \in Bases(T \cup {p}) <=> n \in Bases(T) \cup (IF Resets(p.list) THEN {t} ELSE {})
  <2>1. n \in Bases(T \cup {p}) <=> n = 1 \/ \E q \in T \cup {p} : Resets(q.list) /\ n = q.tsn + 1
    BY BasesIs
  <2>2. n \in Bases(T) <=> n = 1 \/ \E q \in T : Resets(q.list) /\ n = q.tsn + 1
    BY BasesIs
  <2> QED
    BY <1>1, <2>1, <2>2
<1> QED
  BY <1>2

\* What the acceptance of a reset after t - 1 leaves at the receiver.
Accepted(x, c, t, list) ==
    /\ DOMAIN c = Fields /\ c.bad = x.bad
    /\ c.cum = x.cum /\ c.got = x.got /\ c.inqueue = x.inqueue /\ c.pending = x.pending
    /\ c.read = x.read
    /\ DOMAIN c.last = Streams
    /\ IF x.cum >= t - 1
       THEN c.resetHead = x.resetHead /\ c.last[Stm] = IF Resets(list) THEN -1 ELSE x.last[Stm]
       ELSE /\ c.last = x.last
            /\ c.resetHead = Append(x.resetHead, [tsn |-> t - 1, list |-> list])

LEMMA AcceptedIs ==
  ASSUME OneStream, NEW x, IsRecv(x), x.incnt \in Nat, x.incnt >= InitStreams,
         NEW t \in Int, NEW p, p.tsn = t - 1, NEW c, DOMAIN c = Fields, c.bad = x.bad, Accepts(x, c, p)
  PROVE  Accepted(x, c, t, p.list)
<1>1. Stm \in Streams /\ (Stm \in Listed(p.list, x.incnt) <=> Resets(p.list))
  BY StmFacts
<1> DEFINE r == ResetInStream(x, p.list).last
<1>2. r = [s \in Streams |-> IF s \in Listed(p.list, x.incnt) THEN -1 ELSE x.last[s]]
  BY DEF ResetInStream, IsRecv, Fields
<1>3. DOMAIN r = Streams /\ r[Stm] = IF Resets(p.list) THEN -1 ELSE x.last[Stm]
  BY <1>1, <1>2
<1>4. DOMAIN x.last = Streams
  BY DEF IsRecv
<1> HIDE DEF r
<1>5. IF x.cum >= p.tsn THEN c.last = r /\ c.resetHead = x.resetHead
      ELSE c.last = x.last /\ c.resetHead = Append(x.resetHead, [tsn |-> p.tsn, list |-> p.list])
  BY DEF Accepts, r
<1>6. CASE x.cum >= t - 1
  BY <1>3, <1>4, <1>5, <1>6 DEF Accepts, Accepted
<1>7. CASE ~(x.cum >= t - 1)
  BY <1>3, <1>4, <1>5, <1>7 DEF Accepts, Accepted
<1> QED
  BY <1>6, <1>7

StillOrd(t, D, x, c, W) ==
    /\ Ord(c, W) /\ ~c.bad /\ D \subseteq Int
    /\ Known(t, D, c, W) /\ Arrived(t, c, W) /\ Held(c) = Held(x)

LEMMA AcceptedOrd ==
  ASSUME OneStream, NEW t, NEW B, NEW x, NEW W, Keeps(t, B, x, W), NEW list,
         NEW c, Accepted(x, c, t, list), NEW E \in SUBSET {t}, NEW D, D = B \cup E
  PROVE  StillOrd(t, D, x, c, W)
<1>0. t \in Int /\ \A d \in W \cup Held(x) : d.tsn \in Int
  BY KeepsTypes
<1>0a. B \subseteq Int /\ ~x.bad /\ Ord(x, W) /\ IsRecv(x)
  BY DEF Keeps, Ord
<1>1. Held(c) = Held(x)
  BY DEF Held, Accepted
<1>2. c.last[Stm] \in Int
  BY <1>0a DEF Accepted, IsRecv
<1>3. IsRecv(c)
  BY <1>0a, <1>2 DEF Accepted, IsRecv
<1>4. Ord(c, W)
  BY <1>0a, <1>1, <1>3 DEF Ord, Accepted
<1>5. Known(t, B \cup E, c, W)
  <2>1. ASSUME NEW d \in W \cup Held(x) PROVE Numbered(d, B \cup E) /\ d.tsn < t
    <3>1. Numbered(d, B) /\ d.tsn < t
      BY DEF Keeps, Known
    <3> QED
      BY <1>0, <1>0a, <3>1, NumberedMore
  <2>2. /\ \A e, d \in W : e.tsn = d.tsn => e = d
        /\ \A e, d \in Held(x) : e.tsn = d.tsn => e = d
    BY DEF Keeps, Known
  <2> QED
    BY <1>1, <2>1, <2>2 DEF Known
<1>6. Arrived(t, x, W) /\ c.got = x.got /\ c.read = x.read /\ c.cum = x.cum /\ c.bad = x.bad
  BY DEF Keeps, Accepted
<1>7. Arrived(t, c, W)
  BY <1>1, <1>6 DEF Arrived
<1>8. D \subseteq Int /\ Known(t, D, c, W)
  BY <1>0, <1>0a, <1>5
<1> QED
  BY <1>0a, <1>1, <1>4, <1>6, <1>7, <1>8 DEF StillOrd

\* The reset that takes place at once.
LEMMA AppendFacts ==
  ASSUME NEW S, NEW r \in Seq(S), NEW w \in S, NEW q, q = Append(r, w)
  PROVE  /\ q \in Seq(S) /\ Len(r) \in Nat /\ Len(q) = Len(r) + 1
         /\ (\A i \in 1..Len(r) : q[i] = r[i]) /\ q[Len(r) + 1] = w
         /\ (Len(r) = 0 <=> r = <<>>) /\ q # <<>>
<1>1. q \in Seq(S) /\ Len(r) \in Nat /\ Len(q) = Len(r) + 1 /\ q[Len(r) + 1] = w
  OBVIOUS
<1>2. \A i \in 1..Len(r) : q[i] = r[i]
  OBVIOUS
<1>3. Len(r) = 0 <=> r = <<>>
  OBVIOUS
<1>4. q # <<>>
  BY <1>1
<1> QED
  BY <1>1, <1>2, <1>3, <1>4

LEMMA AcceptNow ==
  ASSUME OneStream, NEW t, NEW B, NEW x, NEW W, Keeps(t, B, x, W), NEW list,
         NEW c, Accepted(x, c, t, list), NEW E, E = (IF Resets(list) THEN {t} ELSE {}),
         NEW D, D = B \cup E,
         x.cum >= t - 1
  PROVE  Keeps(t, D, c, W)
<1>0. /\ t \in Int /\ Len(x.read) \in Nat /\ x.cum \in Int /\ MaxTsn \in Nat
      /\ x.resetHead # <<>> => 1 \in 1..Len(x.resetHead) /\ x.resetHead[1].tsn \in Int
      /\ \A d \in W \cup Held(x) : d.tsn \in Int
  BY KeepsTypes
<1>1. /\ Ord(c, W) /\ ~c.bad /\ D \subseteq Int
      /\ Known(t, D, c, W) /\ Arrived(t, c, W) /\ Held(c) = Held(x)
  <2>1. E \in SUBSET {t}
    OBVIOUS
  <2>2. StillOrd(t, D, x, c, W)
    BY <2>1, AcceptedOrd
  <2> QED
    BY <2>2 DEF StillOrd
<1>2. /\ c.resetHead = x.resetHead /\ c.last[Stm] = IF Resets(list) THEN -1 ELSE x.last[Stm]
      /\ c.read = x.read /\ c.inqueue = x.inqueue /\ c.pending = x.pending /\ c.cum = x.cum
  BY DEF Accepted
<1>3. Heads(t, B, x) /\ Behind(x) /\ t \in 1..(MaxTsn + 1)
  BY DEF Keeps
<1>4. Heads(t, D, c)
  BY <1>2, <1>3 DEF Heads
<1>5. Behind(c)
  BY <1>2, <1>3 DEF Behind
<1>6. Doomed(c) \/ \E n : Counts(D, c, n)
  <2>1. CASE Doomed(x)
    BY <1>2, <2>1 DEF Doomed
  <2>2. ASSUME ~Doomed(x), NEW n, Counts(B, x, n) PROVE \E k : Counts(D, c, k)
    <3>0. /\ n \in B /\ n \in Int /\ x.last[Stm] = Len(x.read) - n /\ n <= Len(x.read) + 1
          /\ \A m \in B : m <= n \/ Waits(x, m)
      BY <2>2, <1>1 DEF Counts
    <3>1. \A m : Waits(x, m) => Waits(c, m)
      BY <1>2 DEF Waits
    <3>2. CASE ~Resets(list)
      <4>1. E = {}
        BY <3>2
      <4>2. Counts(D, c, n)
        BY <1>2, <3>0, <3>1, <3>2, <4>1 DEF Counts
      <4> QED
        BY <4>2
    <3>3. CASE Resets(list)
      <4> DEFINE R == Len(x.read)
                 g == t - 1
      <4>1. R \in Nat /\ g \in Int
        BY <1>0
      <4>2. R <= g /\ (\A d \in x.pending : d.tsn > g) /\ (\A d \in x.inqueue[Stm] : d.tsn <= g)
        <5>1. \A d \in x.inqueue[Stm] : d.tsn <= g
          <6>1. \A d \in x.inqueue[Stm] : d.tsn \in Int /\ d.tsn < t
            BY <1>0 DEF Keeps, Known, Held
          <6> QED
            BY <1>0, <6>1
        <5>2. R <= g
          <6>1. 1..R \subseteq x.got /\ x.got \subseteq 1..(t - 1)
            BY DEF Keeps, Arrived
          <6> HIDE DEF R, g
          <6>2. R = 0 \/ R \in 1..R
            BY <4>1
          <6>3. t - 1 >= 0
            BY <1>3, <1>0
          <6> QED
            BY <4>1, <6>1, <6>2, <6>3, <1>0 DEF g
        <5>3. CASE x.resetHead = <<>>
          BY <1>3, <5>1, <5>2, <5>3 DEF Behind
        <5>4. CASE x.resetHead # <<>>
          <6> DEFINE h == x.resetHead[1].tsn
          <6>1. h \in Int /\ h < t /\ ~(x.cum > h) /\ \A d \in x.pending : d.tsn > h
            BY <1>0, <1>3, <2>2, <5>4 DEF Heads, Behind, Doomed
          <6> HIDE DEF h
          <6>2. h = g
            BY <1>0, <6>1
          <6> QED
            BY <5>1, <5>2, <6>1, <6>2
        <5> QED
          BY <5>3, <5>4
      <4> HIDE DEF R, g
      <4>3. R = g
        BY <4>1, <4>2, AllRead DEF R, g
      <4>4. t \in D /\ c.last[Stm] = Len(c.read) - t /\ t <= Len(c.read) + 1
        <5>1. c.last[Stm] = -1 /\ Len(c.read) = R
          BY <1>2, <3>3 DEF R
        <5> QED
          BY <1>0, <3>3, <4>1, <4>3, <5>1 DEF g
      <4>5. ASSUME NEW m \in D PROVE m <= t \/ Waits(c, m)
        <5>1. n <= t
          BY <1>0, <3>0, <4>1, <4>3 DEF g, R
        <5>2. m \in Int
          BY <1>1
        <5> QED
          BY <1>0, <3>0, <3>1, <5>1, <5>2
      <4>6. Counts(D, c, t)
        BY <4>4, <4>5 DEF Counts
      <4> QED
        BY <4>6
    <3> QED
      BY <3>2, <3>3
  <2> QED
    BY <2>1, <2>2 DEF Keeps
<1> QED
  BY <1>1, <1>3, <1>4, <1>5, <1>6 DEF Keeps

\* The reset that waits.
LEMMA AcceptLater ==
  ASSUME OneStream, NEW t, NEW B, NEW x, NEW W, Keeps(t, B, x, W), NEW list \in SUBSET Nat,
         NEW c, Accepted(x, c, t, list), NEW E, E = (IF Resets(list) THEN {t} ELSE {}),
         NEW D, D = B \cup E,
         ~(x.cum >= t - 1)
  PROVE  Keeps(t, D, c, W)
<1> DEFINE w == [tsn |-> t - 1, list |-> list]
           N == Len(x.resetHead)
<1>0. /\ t \in Int /\ Len(x.read) \in Nat /\ x.cum \in Int /\ MaxTsn \in Nat
      /\ x.resetHead # <<>> => 1 \in 1..Len(x.resetHead)
      /\ \A d \in W \cup Held(x) : d.tsn \in Int
      /\ \A i \in 1..Len(x.resetHead) : x.resetHead[i].tsn \in Int
  BY KeepsTypes
<1>1. /\ Ord(c, W) /\ ~c.bad /\ D \subseteq Int
      /\ Known(t, D, c, W) /\ Arrived(t, c, W) /\ Held(c) = Held(x)
  <2>1. E \in SUBSET {t}
    OBVIOUS
  <2>2. StillOrd(t, D, x, c, W)
    BY <2>1, AcceptedOrd
  <2> QED
    BY <2>2 DEF StillOrd
<1>2. /\ c.resetHead = Append(x.resetHead, w) /\ c.last = x.last
      /\ c.read = x.read /\ c.inqueue = x.inqueue /\ c.pending = x.pending /\ c.cum = x.cum
  BY DEF Accepted
<1>3. Heads(t, B, x) /\ Behind(x) /\ t \in 1..(MaxTsn + 1) /\ x.resetHead \in Seq(WaitingReset)
  BY DEF Keeps, Heads
<1>w. w \in WaitingReset /\ w.tsn = t - 1 /\ w.list = list
  BY <1>0 DEF WaitingReset
<1> HIDE DEF w
<1>4. /\ c.resetHead \in Seq(WaitingReset) /\ N \in Nat /\ Len(c.resetHead) = N + 1
      /\ (\A i \in 1..N : c.resetHead[i] = x.resetHead[i]) /\ c.resetHead[N + 1] = w
      /\ (N = 0 <=> x.resetHead = <<>>) /\ c.resetHead # <<>>
  <2> DEFINE r == x.resetHead
             q == c.resetHead
  <2>1. r \in Seq(WaitingReset) /\ w \in WaitingReset /\ q = Append(r, w)
    BY <1>2, <1>3, <1>w
  <2> HIDE DEF r, q
  <2>2. /\ q \in Seq(WaitingReset) /\ Len(r) \in Nat /\ Len(q) = Len(r) + 1
        /\ (\A i \in 1..Len(r) : q[i] = r[i]) /\ q[Len(r) + 1] = w
        /\ (Len(r) = 0 <=> r = <<>>) /\ q # <<>>
    BY <2>1, AppendFacts
  <2> QED
    BY <2>2 DEF r, q
<1> HIDE DEF N
<1>5. ASSUME NEW i \in 1..N PROVE i \in 1..Len(x.resetHead) /\ x.resetHead[i].tsn \in Int
                                   /\ x.resetHead[i].tsn < t
  BY <1>0, <1>3 DEF N, Heads
<1>6. Heads(t, D, c)
  <2>1. ASSUME NEW i \in 1..(N + 1)
        PROVE  /\ c.resetHead[i].tsn < t
               /\ \A j \in 1..i : c.resetHead[j].tsn <= c.resetHead[i].tsn
               /\ Resets(c.resetHead[i].list) => c.resetHead[i].tsn + 1 \in D
    <3>1. CASE i \in 1..N
      <4>1. c.resetHead[i] = x.resetHead[i] /\ \A j \in 1..i : c.resetHead[j] = x.resetHead[j]
        <5>1. \A j \in 1..i : j \in 1..N
          BY <1>4, <3>1
        <5> QED
          BY <1>4, <3>1, <5>1
      <4> QED
        BY <1>3, <1>5, <3>1, <4>1 DEF Heads
    <3>2. CASE i = N + 1
      <4>1. c.resetHead[i].tsn = t - 1 /\ c.resetHead[i].list = list
        BY <1>4, <1>w, <3>2
      <4>2. ASSUME NEW j \in 1..i PROVE c.resetHead[j].tsn <= t - 1
        <5>1. CASE j = i
          BY <1>0, <4>1, <5>1
        <5>2. CASE j # i
          <6>1. j \in 1..N
            BY <1>4, <3>2, <5>2
          <6> DEFINE v == x.resetHead[j].tsn
          <6>2. c.resetHead[j].tsn = v
            BY <1>4, <6>1
          <6>3. v \in Int /\ v < t
            BY <1>5, <6>1
          <6> HIDE DEF v
          <6>4. v <= t - 1
            BY <1>0, <6>3
          <6> QED
            BY <6>2, <6>4
        <5> QED
          BY <5>1, <5>2
      <4> QED
        BY <1>0, <4>1, <4>2
    <3> QED
      BY <1>4, <3>1, <3>2
  <2> QED
    BY <1>4, <2>1 DEF Heads
<1>7. Behind(c)
  <2>1. CASE x.resetHead = <<>>
    <3>1. c.resetHead[1].tsn = t - 1
      BY <1>4, <1>w, <2>1
    <3>2. x.pending = {} /\ \A d \in x.inqueue[Stm] : d.tsn > Len(x.read) + 1
      BY <1>3, <2>1 DEF Behind
    <3>3. \A d \in x.inqueue[Stm] : d.tsn <= t - 1
      <4>1. \A d \in x.inqueue[Stm] : d.tsn \in Int /\ d.tsn < t
        BY <1>0 DEF Keeps, Known, Held
      <4> QED
        BY <1>0, <4>1
    <3>4. Len(x.read) <= t - 1
      <4> DEFINE R == Len(x.read)
      <4>1. 1..R \subseteq x.got /\ x.got \subseteq 1..(t - 1) /\ R \in Nat
        BY <1>0 DEF Keeps, Arrived
      <4> HIDE DEF R
      <4>2. R = 0 \/ R \in 1..R
        BY <4>1
      <4>3. t - 1 >= 0
        BY <1>3, <1>0
      <4>4. R <= t - 1
        BY <4>1, <4>2, <4>3, <1>0
      <4> QED
        BY <4>4 DEF R
    <3> QED
      BY <1>2, <1>4, <3>1, <3>2, <3>3, <3>4 DEF Behind
  <2>2. CASE x.resetHead # <<>>
    <3>1. c.resetHead[1] = x.resetHead[1]
      BY <1>0, <1>4, <2>2 DEF N
    <3> QED
      BY <1>2, <1>3, <1>4, <2>2, <3>1 DEF Behind
  <2> QED
    BY <2>1, <2>2
<1>8. Doomed(c) \/ \E n : Counts(D, c, n)
  <2>1. CASE Doomed(x)
    <3>1. c.resetHead[1] = x.resetHead[1]
      BY <1>0, <1>4, <2>1 DEF N, Doomed
    <3> QED
      BY <1>2, <1>4, <2>1, <3>1 DEF Doomed
  <2>2. ASSUME NEW n, Counts(B, x, n) PROVE \E k : Counts(D, c, k)
    <3>0. /\ n \in B /\ x.last[Stm] = Len(x.read) - n /\ n <= Len(x.read) + 1
          /\ \A m \in B : m <= n \/ Waits(x, m)
      BY <2>2 DEF Counts
    <3>1. ASSUME NEW m, Waits(x, m) PROVE Waits(c, m)
      <4>1. PICK i \in 1..N : m = x.resetHead[i].tsn + 1 /\ Resets(x.resetHead[i].list)
        BY <3>1 DEF Waits, N
      <4>2. i \in 1..Len(c.resetHead) /\ c.resetHead[i] = x.resetHead[i]
        BY <1>4
      <4> QED
        BY <4>1, <4>2 DEF Waits
    <3>2. ASSUME NEW m \in E PROVE Waits(c, m)
      <4>1. N + 1 \in 1..Len(c.resetHead)
        BY <1>4
      <4>2. m = t /\ Resets(list)
        OBVIOUS
      <4>3. m = c.resetHead[N + 1].tsn + 1 /\ Resets(c.resetHead[N + 1].list)
        BY <1>0, <1>4, <1>w, <4>2
      <4> QED
        BY <4>1, <4>3 DEF Waits
    <3>3. Counts(D, c, n)
      BY <1>2, <3>0, <3>1, <3>2 DEF Counts
    <3> QED
      BY <3>3
  <2> QED
    BY <2>1, <2>2 DEF Keeps
<1> QED
  BY <1>1, <1>3, <1>6, <1>7, <1>8 DEF Keeps

\* An outgoing reset of the peer is accepted: it comes after all that was sent.
LEMMA AcceptKeeps ==
  ASSUME OneStream, NEW t, NEW x, NEW W, Keeps(t, Bases(x.took), x, W), x.incnt \in Nat,
         x.incnt >= InitStreams, NEW p \in Param, p.type = "OUT", p.tsn = t - 1,
         NEW c, DOMAIN c = Fields, c.bad = x.bad, Accepts(x, c, p)
  PROVE  Keeps(t, Bases(c.took), c, W)
<1>1. t \in Int /\ IsRecv(x)
  BY KeepsTypes DEF Keeps, Ord
<1>2. p.list \in SUBSET Nat
  BY ParamFacts
<1>3. Accepted(x, c, t, p.list)
  BY <1>1, AcceptedIs
<1>4. Bases(c.took) = Bases(x.took) \cup (IF Resets(p.list) THEN {t} ELSE {})
  BY <1>1, BasesAdd DEF Accepts
<1> DEFINE l == p.list
           E == IF Resets(l) THEN {t} ELSE {}
           B == Bases(x.took)
           D == Bases(c.took)
<1>4a. Keeps(t, B, x, W) /\ l \in SUBSET Nat /\ Accepted(x, c, t, l) /\ D = B \cup E
  BY <1>2, <1>3, <1>4
<1>4b. E = (IF Resets(l) THEN {t} ELSE {})
  OBVIOUS
<1> HIDE DEF B, D, E, l
<1>5. CASE x.cum >= t - 1
  <2>1. Keeps(t, D, c, W)
    BY <1>4a, <1>4b, <1>5, AcceptNow
  <2> QED
    BY <2>1 DEF D
<1>6. CASE ~(x.cum >= t - 1)
  <2>1. Keeps(t, D, c, W)
    BY <1>4a, <1>4b, <1>6, AcceptLater
  <2> QED
    BY <2>1 DEF D
<1> QED
  BY <1>5, <1>6

-----------------------------------------------------------------------------
(* The sender: its numbers and the resets its peer took. *)

\* The receiver b has applied the reset p that a still waits for.
Applied(a, b, p) ==
    /\ a.outstanding > 0 /\ p = FirstFound(a, a.seqOut)
    /\ b.seqIn > a.seqOut /\ Remembered(b, a.seqOut) = "performed"

\* The sender a numbers its messages from its last reset on, which comes after
\* all it has sent; b took no other.
Sends(a, b) ==
    /\ a.tsn \in 1..(MaxTsn + 1) /\ DOMAIN a.next = Streams
    /\ a.outcnt >= InitStreams /\ b.incnt >= InitStreams /\ IsOuts(b.took)
    /\ \A q \in a.did : q.tsn < a.tsn
    /\ \E n : IsBase(n, Bases(a.did), a.tsn) /\ a.next[Stm] = a.tsn - n
    /\ \A p \in b.took : p \in a.did \/ Applied(a, b, p)
    /\ \A n \in Window(a) : FirstFound(a, n).type = "OUT" => FirstFound(a, n).tsn = a.tsn - 1

LEMMA SendsSame ==
  ASSUME NEW a, NEW b, Sends(a, b), NEW c, NEW d, SameAsker(a, c), SameSend(a, c),
         SameAnswerer(b, d)
  PROVE  Sends(c, d)
<1>1. /\ Window(c) = Window(a) /\ \A n : FirstFound(c, n) = FirstFound(a, n)
  BY AskerSame
<1>2. \A n : Remembered(d, n) = Remembered(b, n)
  BY DEF Remembered, SameAnswerer
<1>3. \A p : Applied(a, b, p) => Applied(c, d, p)
  BY <1>1, <1>2 DEF Applied, SameAsker, SameAnswerer
<1>4. /\ c.tsn = a.tsn /\ c.next = a.next /\ c.outcnt = a.outcnt /\ c.did = a.did
      /\ d.incnt = b.incnt /\ d.took = b.took
  BY DEF SameAsker, SameSend, SameAnswerer
<1> QED
  BY <1>1, <1>3, <1>4 DEF Sends

\* New requests: a reset among them names the last TSN.
LEMMA AskSends ==
  ASSUME NEW a, NEW b, Sends(a, b), a.outstanding = 0, NEW c, c.outcnt = a.outcnt, c.did = a.did,
         SameSend(a, c),
         \A n \in Window(c) : FirstFound(c, n).type = "OUT" => FirstFound(c, n).tsn = c.tsn - 1
  PROVE  Sends(c, b)
<1>1. \A p : ~Applied(a, b, p)
  BY DEF Applied
<1>2. c.tsn = a.tsn /\ c.next = a.next
  BY DEF SameSend
<1> QED
  BY <1>1, <1>2 DEF Sends

LEMMA NewAskSends ==
  ASSUME NEW a, NEW b, Sends(a, b), a.outstanding = 0, NEW c, IsAssoc(c), NEW q, NewAsk(a, c, q),
         SameSend(a, c), q.type = "OUT" => q.tsn = a.tsn - 1
  PROVE  Sends(c, b)
<1>1. c.seqOut \in Int /\ c.outstanding = 1 /\ FirstFound(c, c.seqOut) = q
      /\ c.outcnt = a.outcnt /\ c.did = a.did
  BY DEF NewAsk, IsAssoc
<1>2. \A n \in Window(c) : n = c.seqOut
  BY <1>1 DEF Window
<1>3. \A n \in Window(c) : FirstFound(c, n).type = "OUT" => FirstFound(c, n).tsn = c.tsn - 1
  BY <1>1, <1>2 DEF SameSend
<1> QED
  BY <1>1, <1>3, AskSends

\* What starts the numbers again was sent after all the rest.
LEMMA BaseNow ==
  ASSUME NEW T, NEW p, NEW t \in Int, p.tsn = t - 1, Resets(p.list)
  PROVE  IsBase(t, Bases(T \cup {p}), t)
<1>1. t \in Bases(T \cup {p})
  BY BasesAdd
<1> QED
  BY <1>1 DEF IsBase

\* A request is answered.
LEMMA AnswerSends ==
  ASSUME OneStream, NEW a, NEW b, IsAssoc(a), IsAssoc(b), NEW A, NEW B, Dir(a, b, A, B), Sends(a, b),
         NEW r, Fits(a, b, r), NEW c, IsAssoc(c), AfterAnswer(a, c, FirstFound(a, a.seqOut), r),
         AfterNext(a, c, FirstFound(a, a.seqOut), r), c.tsn = a.tsn
  PROVE  Sends(c, b)
<1> DEFINE p == FirstFound(a, a.seqOut)
<1>0. /\ a.outstanding \in 0..2 /\ a.outstanding > 0 /\ a.seqOut \in Int /\ a.tsn \in Int
      /\ a.outcnt \in Nat /\ DOMAIN a = Fields
  BY DEF Dir, Asked, IsAssoc, Fits
<1>1. a.seqOut \in Window(a)
  BY <1>0 DEF Window
<1>2. p.type = "OUT" => p.tsn = a.tsn - 1
  BY <1>1 DEF Sends
<1>3. /\ c.seqOut = a.seqOut + 1 /\ c.outstanding = a.outstanding - 1
      /\ c.outstanding # 0 => c.strReset = a.strReset
      /\ c.did = IF p.type = "OUT" /\ r = "performed" THEN a.did \cup {p} ELSE a.did
      /\ c.outcnt = IF p.type = "ADDO" /\ r = "performed" THEN a.outcnt + a.adding ELSE a.outcnt
  BY DEF AfterAnswer
<1>4. c.next = IF p.type = "OUT" /\ r = "performed" THEN ResetOutStreams(a, p.list).next ELSE a.next
  BY DEF AfterNext
<1>5. p.type = "OUT" => (r = "performed" <=> Remembered(b, a.seqOut) = "performed")
  BY DEF Fits
<1> HIDE DEF p
<1>6. \A n \in Window(c) : FirstFound(c, n).type # "OUT"
  <2> TAKE n \in Window(c)
  <2>1. n \in Window(a) /\ n > a.seqOut /\ c.outstanding # 0
    BY <1>0, <1>3 DEF Window
  <2>2. FirstFound(c, n) = FirstFound(a, n)
    BY <1>3, <2>1, FoundSame
  <2> QED
    BY <2>1, <2>2 DEF Dir, SecondIn
<1>7. c.outcnt >= InitStreams
  <2>1. a.adding \in Nat /\ a.outcnt >= InitStreams /\ InitStreams \in Nat
    BY StmFacts DEF IsAssoc, Sends
  <2> QED
    BY <1>0, <1>3, <2>1
<1>8. b.incnt >= InitStreams /\ IsOuts(b.took) /\ c.tsn \in 1..(MaxTsn + 1)
  BY DEF Sends
<1>9. CASE p.type = "OUT" /\ r = "performed"
  <2>1. c.did = a.did \cup {p} /\ p.tsn = a.tsn - 1 /\ p.tsn < a.tsn
    BY <1>0, <1>2, <1>3, <1>9
  <2>2. c.next = [s \in Streams |-> IF s \in Listed(p.list, a.outcnt) THEN 0 ELSE a.next[s]]
    BY <1>0, <1>4, <1>9 DEF ResetOutStreams, Fields
  <2>3. Stm \in Streams /\ (Stm \in Listed(p.list, a.outcnt) <=> Resets(p.list))
    BY <1>0, StmFacts DEF Sends
  <2>4. \E n : IsBase(n, Bases(c.did), c.tsn) /\ c.next[Stm] = c.tsn - n
    <3>1. CASE Resets(p.list)
      <4>1. c.next[Stm] = 0
        BY <2>2, <2>3, <3>1
      <4>2. IsBase(c.tsn, Bases(c.did), c.tsn)
        BY <1>0, <2>1, <3>1, BaseNow
      <4>3. c.next[Stm] = c.tsn - c.tsn
        BY <1>0, <4>1
      <4> QED
        BY <4>2, <4>3
    <3>2. CASE ~Resets(p.list)
      <4>1. c.next[Stm] = a.next[Stm]
        BY <2>2, <2>3, <3>2
      <4>2. Bases(c.did) = Bases(a.did)
        BY <1>0, <2>1, <3>2, BasesAdd
      <4> QED
        BY <4>1, <4>2 DEF Sends
    <3> QED
      BY <3>1, <3>2
  <2>5. \A q \in b.took : q \in c.did
    BY <2>1 DEF Sends, Applied, p
  <2>6. \A q \in c.did : q.tsn < c.tsn
    BY <2>1 DEF Sends
  <2>7. DOMAIN c.next = Streams
    BY <2>2
  <2> QED
    BY <1>6, <1>7, <1>8, <2>4, <2>5, <2>6, <2>7 DEF Sends
<1>10. CASE ~(p.type = "OUT" /\ r = "performed")
  <2>1. c.did = a.did /\ c.next = a.next
    BY <1>3, <1>4, <1>10
  <2>2. \A q \in b.took : ~Applied(a, b, q)
    <3> SUFFICES ASSUME NEW q \in b.took, Applied(a, b, q) PROVE FALSE
      OBVIOUS
    <3>1. q.type = "OUT" /\ q = p /\ Remembered(b, a.seqOut) = "performed"
      BY <1>8 DEF IsOuts, Applied, p
    <3> QED
      BY <1>5, <1>10, <3>1
  <2> QED
    BY <1>6, <1>7, <1>8, <2>1, <2>2 DEF Sends
<1> QED
  BY <1>9, <1>10

\* A request is answered by b, which remembers it.
LEMMA GaveSends ==
  ASSUME NEW a, NEW b, IsAssoc(a), IsAssoc(b), NEW A, NEW B, Dir(a, b, A, B), Sends(a, b),
         NEW p \in A, IsReq(p), p.seq = b.seqIn,
         NEW d, d.seqIn = b.seqIn + 1, d.actions[2] = b.actions[1], d.took = b.took,
         d.incnt >= InitStreams
  PROVE  Sends(a, d)
<1>0. a.seqOut \in Int /\ b.seqIn \in Int /\ a.outstanding \in 0..2
  BY DEF Dir, Asked, IsAssoc
<1>1. p.seq < a.seqOut + a.outstanding
  BY DEF Dir, OwnRequests
<1>2. ASSUME NEW q, Applied(a, b, q) PROVE Applied(a, d, q)
  <2>1. b.seqIn > a.seqOut /\ Remembered(b, a.seqOut) = "performed"
    BY <1>2 DEF Applied
  <2>2. b.seqIn - a.seqOut = 1 /\ d.seqIn - a.seqOut = 2 /\ d.seqIn > a.seqOut
    BY <1>0, <1>1, <2>1
  <2>3. Remembered(d, a.seqOut) = "performed"
    BY <2>1, <2>2 DEF Remembered
  <2> QED
    BY <1>2, <2>2, <2>3 DEF Applied
<1> QED
  BY <1>2 DEF Sends

\* A reset that b accepts is the one a waits for.
LEMMA AcceptSends ==
  ASSUME NEW a, NEW b, IsAssoc(a), IsAssoc(b), NEW A, NEW B, Dir(a, b, A, B), Sends(a, b),
         NEW p \in A, p.type = "OUT", p.seq = b.seqIn,
         NEW d, d.seqIn = b.seqIn + 1, d.actions[1] = "performed", d.took = b.took \cup {p},
         d.incnt = b.incnt
  PROVE  Sends(a, d) /\ p.tsn = a.tsn - 1
<1>0. a.seqOut \in Int /\ b.seqIn \in Int /\ a.outstanding \in 0..2 /\ IsReq(p) /\ p \in Param
  BY DEF Dir, Asked, IsAssoc, IsReq
<1>1. p.seq < a.seqOut + a.outstanding /\ p.seq >= a.seqOut
  BY <1>0 DEF Dir, OwnRequests, InStep
<1>2. p = FirstFound(a, p.seq)
  BY <1>0, <1>1 DEF Dir, OwnRequests
<1>3. p.seq \in Window(a)
  BY <1>0, <1>1 DEF Window
<1>4. p.seq = a.seqOut
  BY <1>0, <1>1, <1>2, <1>3 DEF Dir, SecondIn
<1>5. p.tsn = a.tsn - 1
  BY <1>2, <1>3 DEF Sends
<1>6. \A q : ~Applied(a, b, q)
  BY <1>0, <1>4 DEF Applied
<1>7. Applied(a, d, p)
  <2>1. d.seqIn - a.seqOut = 1 /\ d.seqIn > a.seqOut /\ a.outstanding > 0
    BY <1>0, <1>1, <1>4
  <2> QED
    BY <1>2, <1>4, <2>1 DEF Applied, Remembered
<1>8. IsOuts(d.took)
  BY <1>0 DEF Sends, IsOuts
<1> QED
  BY <1>5, <1>6, <1>7, <1>8 DEF Sends

LEMMA KeepsSame ==
  ASSUME NEW t, NEW B, NEW a, NEW W, Keeps(t, B, a, W), NEW c, DOMAIN c = Fields, SameData(a, c),
         c.bad = a.bad
  PROVE  Keeps(t, B, c, W)
<1>0. /\ c.cum = a.cum /\ c.got = a.got /\ c.last = a.last /\ c.inqueue = a.inqueue
      /\ c.resetHead = a.resetHead /\ c.pending = a.pending /\ c.read = a.read
  BY DEF SameData
<1>1. Held(c) = Held(a)
  BY <1>0 DEF Held
<1>2. Ord(c, W)
  BY <1>0, <1>1 DEF Keeps, Ord, IsRecv
<1>3. Known(t, B, c, W)
  BY <1>1 DEF Keeps, Known
<1>4. Arrived(t, c, W)
  BY <1>0, <1>1 DEF Keeps, Arrived
<1>5. Heads(t, B, c) /\ Behind(c)
  BY <1>0 DEF Keeps, Heads, Behind
<1>6. Doomed(a) => Doomed(c)
  BY <1>0 DEF Doomed
<1>7. \A m : Waits(a, m) => Waits(c, m)
  BY <1>0 DEF Waits
<1>8. \A n : Counts(B, a, n) => Counts(B, c, n)
  BY <1>0, <1>7 DEF Counts
<1> QED
  BY <1>2, <1>3, <1>4, <1>5, <1>6, <1>8 DEF Keeps

LEMMA OrdSame ==
  ASSUME NEW a, NEW W, Ord(a, W), NEW c, DOMAIN c = Fields, SameData(a, c)
  PROVE  Ord(c, W)
<1>0. /\ c.last = a.last /\ c.inqueue = a.inqueue /\ c.pending = a.pending /\ c.read = a.read
  BY DEF SameData
<1>1. Held(c) = Held(a)
  BY <1>0 DEF Held
<1> QED
  BY <1>0, <1>1 DEF Ord, IsRecv

-----------------------------------------------------------------------------
(* One parameter, and the order of the data. *)

\* What x sends and receives fits what y sends; W is under way to x.
OrdPair(x, y, W) == Sends(x, y) /\ Sends(y, x) /\ Keeps(y.tsn, Bases(x.took), x, W)

\* c, which is x after a parameter, still does, or it cannot go on.
OrdNext(x, c, y, W) ==
    /\ c.tsn = x.tsn /\ Ord(c, W)
    /\ ~c.bad => OrdPair(c, y, W)

LEMMA PairOrd ==
  ASSUME NEW x, NEW y, NEW c, NEW W, OrdPair(c, y, W), c.tsn = x.tsn
  PROVE  OrdNext(x, c, y, W)
  BY DEF OrdPair, OrdNext, Keeps

\* An answer, in its own parameter or in the number a reset names.
LEMMA TakeOrd ==
  ASSUME OneStream, NEW x, NEW y, NEW X, NEW Y, Pair(x, y, X, Y), NEW W, OrdPair(x, y, W),
         NEW n \in Int, NEW r, x.outstanding > 0 /\ n = x.seqOut => Fits(x, y, r),
         NEW c, c = HandleResponse(x, n, r)
  PROVE  OrdPair(c, y, W) /\ c.tsn = x.tsn
<1>0. IsAssoc(x) /\ IsAssoc(y) /\ Asked(x) /\ Dir(x, y, X, Y)
  BY DEF Pair, Dir
<1>1. CASE x.outstanding = 0 \/ n # x.seqOut
  <2>1. c = x
    BY <1>0, <1>1, HandleResponseIs
  <2> QED
    BY <2>1
<1>2. CASE ~(x.outstanding = 0 \/ n # x.seqOut)
  <2> DEFINE p == FirstFound(x, x.seqOut)
  <2>1. /\ c = CleanUp(Answered(x, p, r)) /\ p \in Param /\ IsReq(p) /\ x.outstanding > 0
    BY <1>0, <1>2, HandleResponseIs
  <2>2. Fits(x, y, r)
    BY <1>2, <2>1
  <2>3. IsAssoc(c) /\ AfterAnswer(x, c, p, r) /\ SameRest(x, c) /\ AfterNext(x, c, p, r)
    BY <1>0, <2>1, AnsweredIs
  <2>4. /\ SameData(x, c) /\ SameAnswerer(x, c) /\ c.tsn = x.tsn /\ c.bad = x.bad /\ DOMAIN c = Fields
        /\ c.took = x.took
    BY <2>3 DEF SameRest, SameData, SameAnswerer, IsAssoc
  <2>5. Sends(c, y)
    BY <1>0, <2>2, <2>3, <2>4, AnswerSends DEF OrdPair
  <2>6. Sends(y, c)
    <3>1. SameAsker(y, y) /\ SameSend(y, y)
      BY DEF SameAsker, SameSend
    <3> QED
      BY <2>4, <3>1, SendsSame DEF OrdPair
  <2>7. Keeps(y.tsn, Bases(c.took), c, W)
    <3>1. Keeps(y.tsn, Bases(x.took), x, W)
      BY DEF OrdPair
    <3>2. Keeps(y.tsn, Bases(x.took), c, W)
      BY <2>4, <3>1, KeepsSame
    <3> QED
      BY <2>4, <3>2
  <2> QED
    BY <2>4, <2>5, <2>6, <2>7 DEF OrdPair
<1> QED
  BY <1>1, <1>2

LEMMA RespOrd ==
  ASSUME OneStream, NEW x, NEW y, NEW X, NEW Y, Pair(x, y, X, Y), NEW W, OrdPair(x, y, W),
         NEW p \in Y, p.type = "RESP", NEW c, c = HandleResponse(x, p.seq, p.result)
  PROVE  OrdNext(x, c, y, W)
<1>0. p \in Param /\ p.seq \in Int /\ ~IsReq(p) /\ IsAssoc(x)
  BY ParamFacts DEF Pair, Dir, IsReq
<1>1. p.seq < y.seqIn /\ (p.seq >= x.seqOut => p.result = Remembered(y, p.seq))
  BY <1>0 DEF Pair, Dir, TrueAnswers
<1>2. x.outstanding > 0 /\ p.seq = x.seqOut => Fits(x, y, p.result)
  BY <1>0, <1>1 DEF Fits, IsAssoc
<1> QED
  BY <1>0, <1>2, TakeOrd, PairOrd

\* A step of x that changes nothing it has received, and its results.
LEMMA SameOrd ==
  ASSUME NEW x, NEW y, NEW W, OrdPair(x, y, W), NEW c, IsAssoc(c), SameSend(x, c),
         SameData(x, c), c.took = x.took, c.bad = x.bad, Sends(c, y), Sends(y, c)
  PROVE  OrdNext(x, c, y, W)
<1>1. Keeps(y.tsn, Bases(x.took), x, W) /\ DOMAIN c = Fields
  BY DEF OrdPair, IsAssoc
<1>2. Keeps(y.tsn, Bases(x.took), c, W)
  BY <1>1, KeepsSame
<1>3. OrdPair(c, y, W)
  BY <1>2 DEF OrdPair
<1> QED
  BY <1>3, PairOrd DEF SameSend

LEMMA OldOrd ==
  ASSUME NEW x, IsAssoc(x), NEW y, NEW W, OrdPair(x, y, W), NEW p \in Param, NEW c, c = Repeat(x, p)
  PROVE  OrdNext(x, c, y, W)
<1>1. /\ IsAssoc(c) /\ SameAsker(x, c) /\ SameSend(x, c) /\ SameData(x, c)
      /\ SameAnswerer(x, c) /\ c.bad = x.bad
  BY RepeatIs
<1>2. SameAsker(y, y) /\ SameSend(y, y) /\ SameAnswerer(y, y)
  BY DEF SameAsker, SameSend, SameAnswerer
<1>3. Sends(c, y) /\ Sends(y, c)
  BY <1>1, <1>2, SendsSame DEF OrdPair
<1>4. c.took = x.took
  BY <1>1 DEF SameAnswerer
<1> QED
  BY <1>1, <1>3, <1>4, SameOrd

\* The result of a request that changes nothing x has received.
LEMMA GaveOrd ==
  ASSUME NEW x, NEW y, NEW X, NEW Y, Pair(x, y, X, Y), NEW W, OrdPair(x, y, W),
         NEW p \in Y, IsReq(p), p.seq = x.seqIn,
         NEW c, IsAssoc(c), Sends(c, y), SameSend(x, c), SameData(x, c), c.took = x.took,
         c.bad = x.bad, c.incnt >= InitStreams, NEW r, NEW E, Gave(x, c, p, r, E)
  PROVE  OrdNext(x, c, y, W)
<1>1. c.seqIn = x.seqIn + 1 /\ c.actions[2] = x.actions[1]
  BY DEF Gave
<1>2. IsAssoc(x) /\ IsAssoc(y) /\ Dir(y, x, Y, X) /\ Sends(y, x)
  BY DEF Pair, OrdPair
<1>3. Sends(y, c)
  BY <1>1, <1>2, GaveSends
<1> QED
  BY <1>3, SameOrd

LEMMA OutOrd ==
  ASSUME OneStream, NEW x, NEW y, NEW X, NEW Y, Pair(x, y, X, Y), NEW W, OrdPair(x, y, W),
         NEW p \in Y, p.type = "OUT", p.seq = x.seqIn, NEW ok \in BOOLEAN,
         NEW c, c = RequestOut(x, p, ok)
  PROVE  OrdNext(x, c, y, W)
<1>0. /\ p \in Param /\ IsReq(p) /\ IsAssoc(x) /\ IsAssoc(y) /\ Dir(y, x, Y, X)
      /\ Sends(x, y) /\ Sends(y, x)
  BY DEF Pair, Dir, IsReq, OrdPair
<1>1. /\ IsAssoc(c) /\ SameAsker(x, c) /\ SameSend(x, c)
      /\ c.bad = x.bad /\ c.incnt = x.incnt
      /\ \/ ok /\ Gave(x, c, p, "performed", <<Response(p.seq, "performed")>>) /\ Accepts(x, c, p)
         \/ /\ ~ok /\ Gave(x, c, p, "denied", <<Response(p.seq, "denied")>>)
            /\ SameData(x, c) /\ c.took = x.took
  BY <1>0, RequestOutIs
<1>2. x.incnt \in Nat /\ x.incnt >= InitStreams /\ DOMAIN c = Fields
  BY <1>0, <1>1 DEF Sends, IsAssoc
<1>3. Sends(c, y)
  <2>1. SameAnswerer(y, y)
    BY DEF SameAnswerer
  <2> QED
    BY <1>0, <1>1, <2>1, SendsSame
<1>4. CASE Gave(x, c, p, "performed", <<Response(p.seq, "performed")>>) /\ Accepts(x, c, p)
  <2>1. c.seqIn = x.seqIn + 1 /\ c.actions[1] = "performed" /\ c.took = x.took \cup {p}
    BY <1>4 DEF Gave, Accepts
  <2>2. Sends(y, c) /\ p.tsn = y.tsn - 1
    BY <1>0, <1>1, <2>1, AcceptSends
  <2>3. Keeps(y.tsn, Bases(x.took), x, W)
    BY DEF OrdPair
  <2> DEFINE t == y.tsn
  <2>3a. p.tsn = t - 1 /\ Keeps(t, Bases(x.took), x, W)
    BY <2>2, <2>3
  <2> HIDE DEF t
  <2>4. Keeps(t, Bases(c.took), c, W)
    BY <1>0, <1>1, <1>2, <1>4, <2>3a, AcceptKeeps
  <2>5. OrdPair(c, y, W)
    BY <1>3, <2>2, <2>4 DEF OrdPair, t
  <2> QED
    BY <1>1, <2>5, PairOrd DEF SameSend
<1>5. CASE /\ Gave(x, c, p, "denied", <<Response(p.seq, "denied")>>)
           /\ SameData(x, c) /\ c.took = x.took
  BY <1>0, <1>1, <1>2, <1>3, <1>5, GaveOrd
<1> QED
  BY <1>1, <1>4, <1>5

\* A request for an outgoing reset: what it names first.
LEMMA HandleOutOrd ==
  ASSUME OneStream, NEW x, NEW y, NEW X, NEW Y, Pair(x, y, X, Y), NEW W, OrdPair(x, y, W),
         NEW p \in Y, p.type = "OUT", NEW ok \in BOOLEAN, NEW c, c = HandleParam(x, p, ok)
  PROVE  OrdNext(x, c, y, W)
<1> DEFINE b == ImplicitAck(x, p)
<1>0. p \in Param /\ p.resp \in Int
  BY ParamFacts DEF Pair, Dir
<1>1. c = IF p.seq = b.seqIn THEN RequestOut(b, p, ok) ELSE Repeat(b, p)
  BY DEF HandleParam
<1>2. Pair(b, y, X, Y) /\ OrdPair(b, y, W) /\ b.tsn = x.tsn
  <2>1. CASE ~(x.outstanding > 0 /\ p.resp = x.seqOut)
    <3>1. b = x
      BY <2>1 DEF ImplicitAck
    <3> QED
      BY <3>1
  <2>2. CASE x.outstanding > 0 /\ p.resp = x.seqOut
    <3>1. b = HandleResponse(x, p.resp, "performed")
      BY <2>2 DEF ImplicitAck
    <3>2. Fits(x, y, "performed")
      BY <2>2, NamedFits
    <3>3. Pair(b, y, X, Y)
      BY <1>0, <3>1, <3>2, TakeAnswer
    <3>4. OrdPair(b, y, W) /\ b.tsn = x.tsn
      BY <1>0, <3>1, <3>2, TakeOrd
    <3> QED
      BY <3>3, <3>4
  <2> QED
    BY <2>1, <2>2
<1> HIDE DEF b
<1>3. OrdNext(b, c, y, W)
  <2>1. CASE p.seq = b.seqIn
    BY <1>1, <1>2, <2>1, OutOrd
  <2>2. CASE p.seq # b.seqIn
    BY <1>0, <1>1, <1>2, <2>2, OldOrd DEF Pair
  <2> QED
    BY <2>1, <2>2
<1> QED
  BY <1>2, <1>3 DEF OrdNext

LEMMA AddOutOrd ==
  ASSUME OneStream, NEW x, NEW y, NEW X, NEW Y, Pair(x, y, X, Y), NEW W, OrdPair(x, y, W),
         NEW p \in Y, p.type = "ADDO", IsNew(x, p), NEW ok \in BOOLEAN,
         NEW c, c = RequestAddOut(x, p, ok)
  PROVE  OrdNext(x, c, y, W)
<1>0. p \in Param /\ IsAssoc(x) /\ IsReq(p) /\ p.num \in Nat /\ p.seq = x.seqIn
  BY ParamFacts DEF Pair, Dir, IsReq, IsNew
<1>1. OpensOrNot(x, c, p)
  BY <1>0, RequestAddOutIs
<1>2. /\ IsAssoc(c) /\ SameAsker(x, c) /\ SameSend(x, c) /\ SameData(x, c) /\ c.took = x.took
  BY <1>1 DEF OpensOrNot
<1>3. \/ c.bad = TRUE
      \/ c.bad = x.bad /\ (c.incnt = x.incnt + p.num \/ c.incnt = x.incnt)
            /\ \E r : Gave(x, c, p, r, <<Response(p.seq, r)>>)
  BY <1>1 DEF OpensOrNot
<1>4. Sends(c, y)
  <2>1. SameAnswerer(y, y)
    BY DEF SameAnswerer
  <2> QED
    BY <1>2, <2>1, SendsSame DEF OrdPair
<1>5. CASE c.bad = TRUE
  <2>1. Ord(c, W)
    BY <1>2, OrdSame DEF OrdPair, Keeps, IsAssoc
  <2> QED
    BY <1>2, <1>5, <2>1 DEF OrdNext, SameSend
<1>6. CASE c.bad = x.bad /\ (c.incnt = x.incnt + p.num \/ c.incnt = x.incnt)
            /\ \E r : Gave(x, c, p, r, <<Response(p.seq, r)>>)
  <2>1. c.incnt >= InitStreams
    <3>1. x.incnt \in Nat /\ x.incnt >= InitStreams /\ InitStreams \in Nat
      BY <1>0, StmFacts DEF OrdPair, Sends, IsAssoc
    <3> QED
      BY <1>0, <1>6, <3>1
  <2> QED
    BY <1>0, <1>2, <1>4, <1>6, <2>1, GaveOrd
<1> QED
  BY <1>3, <1>5, <1>6

\* A new request for a reset of the incoming streams, or for more of them, may
\* bring a request with it.
LEMMA BackOrd ==
  ASSUME NEW x, NEW y, NEW X, NEW Y, Pair(x, y, X, Y), NEW W, OrdPair(x, y, W),
         NEW p \in Y, IsReq(p), p.seq = x.seqIn, NEW c, IsAssoc(c), SameSend(x, c),
         SameData(x, c), c.took = x.took, c.incnt = x.incnt, c.bad = x.bad, NEW r, NEW E,
         Gave(x, c, p, r, E),
         SameAsker(x, c) \/ \E q : /\ x.outstanding = 0 /\ NewAsk(x, c, q)
                                   /\ q.type = "OUT" => q.tsn = x.tsn - 1
  PROVE  OrdNext(x, c, y, W)
<1>0. Sends(x, y) /\ c.incnt >= InitStreams
  BY DEF OrdPair, Sends
<1>1. Sends(c, y)
  <2>1. CASE SameAsker(x, c)
    <3>1. SameAnswerer(y, y)
      BY DEF SameAnswerer
    <3> QED
      BY <1>0, <2>1, <3>1, SendsSame
  <2>2. CASE \E q : /\ x.outstanding = 0 /\ NewAsk(x, c, q)
                    /\ q.type = "OUT" => q.tsn = x.tsn - 1
    BY <1>0, <2>2, NewAskSends
  <2> QED
    BY <2>1, <2>2
<1> QED
  BY <1>0, <1>1, GaveOrd

LEMMA InOrd ==
  ASSUME NEW x, NEW y, NEW X, NEW Y, Pair(x, y, X, Y), NEW W, OrdPair(x, y, W),
         NEW p \in Y, p.type = "IN", IsNew(x, p), ShortReply(x.reply), NEW ok \in BOOLEAN,
         NEW c, c = RequestIn(x, p, ok), AnsweredAlone(c)
  PROVE  OrdNext(x, c, y, W)
<1>0. /\ p \in Param /\ IsAssoc(x) /\ IsReq(p) /\ x.outstanding \in 0..2 /\ p.seq = x.seqIn
  BY DEF Pair, Dir, IsReq, Asked, IsNew
<1> DEFINE q == OutReq(x.seqOut, p.seq, x.tsn - 1, p.list)
           u == Response(p.seq, "performed")
<1>1. /\ IsAssoc(c) /\ SameSend(x, c) /\ SameData(x, c) /\ c.took = x.took /\ c.incnt = x.incnt
      /\ c.bad = x.bad
      /\ \/ /\ SameAsker(x, c)
            /\ \E r \in {"denied", "inprogress"} : Gave(x, c, p, r, <<Response(p.seq, r)>>)
         \/ /\ x.outstanding = 0 /\ NewAsk(x, c, q)
            /\ c.reply = (x.reply \o <<q>>) \o <<u>>
            /\ c.seqIn = x.seqIn + 1
            /\ c.actions[1] = "performed" /\ c.actions[2] = x.actions[1]
  <2>1. AsksBack(x, c, p)
    BY <1>0, RequestInIs
  <2> QED
    BY <2>1 DEF AsksBack
<1>2. q.type = "OUT" => q.tsn = x.tsn - 1
  BY DEF OutReq
<1> HIDE DEF q
<1>3. CASE /\ SameAsker(x, c)
           /\ \E r \in {"denied", "inprogress"} : Gave(x, c, p, r, <<Response(p.seq, r)>>)
  BY <1>0, <1>1, <1>3, BackOrd
<1>4. CASE /\ x.outstanding = 0 /\ NewAsk(x, c, q)
           /\ c.reply = (x.reply \o <<q>>) \o <<u>>
           /\ c.seqIn = x.seqIn + 1
           /\ c.actions[1] = "performed" /\ c.actions[2] = x.actions[1]
  <2> DEFINE E == <<q>> \o <<u>>
  <2>1. q \in Param /\ u \in Param /\ x.reply \in Seq(Param)
    <3>1. p.seq \in Int /\ "performed" \in Outcome
      BY <1>0, ParamFacts DEF Outcome
    <3> QED
      BY <1>0, <1>4, <3>1, MakeParam DEF NewAsk, IsAssoc
  <2> HIDE DEF u
  <2>2. (x.reply \o <<q>>) \o <<u>> = x.reply \o E
    BY <2>1
  <2>3. Gave(x, c, p, "performed", E)
    BY <1>4, <2>2 DEF Gave
  <2> HIDE DEF E
  <2> QED
    BY <1>0, <1>1, <1>2, <1>4, <2>3, BackOrd
<1> QED
  BY <1>1, <1>3, <1>4

LEMMA AddInOrd ==
  ASSUME NEW x, NEW y, NEW X, NEW Y, Pair(x, y, X, Y), NEW W, OrdPair(x, y, W),
         NEW p \in Y, p.type = "ADDI", IsNew(x, p), NEW ok \in BOOLEAN,
         NEW c, c = RequestAddIn(x, p, ok)
  PROVE  OrdNext(x, c, y, W)
<1>0. /\ p \in Param /\ IsAssoc(x) /\ IsReq(p) /\ p.seq = x.seqIn
      /\ x.outstanding >= 0 /\ (x.outstanding = 0 => ~x.outIs)
  <2>1. x.outIs => x.outstanding > 0
    BY DEF Pair, Dir, OutIsFirst
  <2>2. x.outstanding \in 0..2
    BY DEF Pair, Dir, Asked
  <2>3. x.outstanding >= 0 /\ (x.outstanding = 0 => ~x.outIs)
    BY <2>1, <2>2
  <2> QED
    BY <2>3 DEF Pair, Dir, IsReq, IsNew
<1> DEFINE q == AddOut(x.seqOut, p.num)
<1>1. /\ IsAssoc(c) /\ SameSend(x, c) /\ SameData(x, c) /\ c.took = x.took /\ c.incnt = x.incnt
      /\ c.bad = x.bad
      /\ \/ /\ SameAsker(x, c)
            /\ \E r \in {"denied", "inprogress"} : Gave(x, c, p, r, <<Response(p.seq, r)>>)
         \/ /\ x.outstanding = 0 /\ NewAsk(x, c, q)
            /\ Gave(x, c, p, "performed", <<Response(p.seq, "performed")>>)
  BY <1>0, RequestAddInIs
<1>2. q.type = "OUT" => q.tsn = x.tsn - 1
  BY DEF AddOut
<1> HIDE DEF q
<1>3. CASE /\ SameAsker(x, c)
           /\ \E r \in {"denied", "inprogress"} : Gave(x, c, p, r, <<Response(p.seq, r)>>)
  BY <1>0, <1>1, <1>3, BackOrd
<1>4. CASE /\ x.outstanding = 0 /\ NewAsk(x, c, q)
           /\ Gave(x, c, p, "performed", <<Response(p.seq, "performed")>>)
  BY <1>0, <1>1, <1>2, <1>4, BackOrd
<1> QED
  BY <1>1, <1>3, <1>4

\* Any parameter that was under way.
LEMMA ParamOrd ==
  ASSUME OneStream, NEW x, NEW y, NEW X, NEW Y, Pair(x, y, X, Y), NEW W, OrdPair(x, y, W),
         NEW p \in Y, ShortReply(x.reply), NEW ok \in BOOLEAN,
         NEW c, c = HandleParam(x, p, ok), p.type = "IN" => AnsweredAlone(c)
  PROVE  OrdNext(x, c, y, W)
<1>0. p \in Param /\ p.type \in {"OUT", "IN", "ADDO", "ADDI", "RESP"} /\ IsAssoc(x)
  BY ParamFacts DEF Pair, Dir
<1>1. CASE p.type = "RESP"
  BY <1>1, RespOrd DEF HandleParam
<1>2. CASE p.type = "OUT"
  BY <1>2, HandleOutOrd
<1>3. CASE p.type \in {"IN", "ADDO", "ADDI"} /\ p.seq # x.seqIn
  <2>1. c = Repeat(x, p)
    BY <1>3 DEF HandleParam
  <2> QED
    BY <1>0, <2>1, OldOrd
<1>4. CASE p.type = "IN" /\ p.seq = x.seqIn
  <2>1. c = RequestIn(x, p, ok)
    BY <1>4 DEF HandleParam
  <2> QED
    BY <1>4, <2>1, InOrd DEF IsNew
<1>5. CASE p.type = "ADDO" /\ p.seq = x.seqIn
  <2>1. c = RequestAddOut(x, p, ok)
    BY <1>5 DEF HandleParam
  <2> QED
    BY <1>5, <2>1, AddOutOrd DEF IsNew
<1>6. CASE p.type = "ADDI" /\ p.seq = x.seqIn
  <2>1. c = RequestAddIn(x, p, ok)
    BY <1>6 DEF HandleParam
  <2> QED
    BY <1>6, <2>1, AddInOrd DEF IsNew
<1> QED
  BY <1>0, <1>1, <1>2, <1>3, <1>4, <1>5, <1>6

-----------------------------------------------------------------------------
(* A RE-CONFIG chunk, the invariant of the order, and a message that is sent. *)

\* A chunk of requests and answers that was under way.
LEMMA ParamsOrd ==
  ASSUME OneStream, NEW x, NEW y, NEW X, NEW Y, Pair(x, y, X, Y), EndOK(x),
         NEW W, OrdPair(x, y, W), NEW ps, Rng(ps) \subseteq Y, ChunkOK(ps, x.seqIn),
         NEW ok \in BOOLEAN, NEW c, c = HandleParams(x, ps, ok), AnsweredAlone(c)
  PROVE  OrdNext(x, c, y, W)
<1> DEFINE b == HandleParam(x, ps[1], ok)
<1>1. ~x.bad /\ x.reply = <<>> /\ ShortReply(x.reply) /\ IsAssoc(x)
  BY DEF EndOK, ShortReply
<1>3. c = IF Len(ps) = 1 \/ b.bad THEN b ELSE HandleParam(b, ps[2], ok)
  BY DEF HandleParams
<1>4. ps[1] \in Y /\ (IsReq(ps[1]) => ps[1].seq <= x.seqIn) /\ (ps[1].type = "IN" => Len(ps) = 1)
  BY DEF Rng, ChunkOK
<1>5. ps[1].type = "IN" => AnsweredAlone(b)
  BY <1>3, <1>4
<1>b. b = HandleParam(x, ps[1], ok)
  OBVIOUS
<1> HIDE DEF b
<1>6. Linked(b, y, X, Y) /\ Handled(x, b, ps[1])
  BY <1>1, <1>4, <1>5, <1>b, HandleParamIs
<1>7. OrdNext(x, b, y, W)
  BY <1>1, <1>4, <1>5, <1>b, ParamOrd
<1>8. CASE Len(ps) = 1 \/ b.bad
  BY <1>3, <1>7, <1>8
<1>9. CASE ~(Len(ps) = 1 \/ b.bad)
  <2>1. c = HandleParam(b, ps[2], ok) /\ ~b.bad /\ Len(ps) # 1
    BY <1>3, <1>9
  <2>2. PICK Z : X \subseteq Z /\ Pair(b, y, Z, Y)
    BY <1>6, <2>1 DEF Linked
  <2>3. ps[2] \in Y
    <3> DEFINE N == Len(ps)
    <3>1. ps \in Seq(Param) /\ N >= 1
      BY DEF ChunkOK
    <3>2. N \in Nat /\ N >= 1 /\ N # 1
      BY <2>1, <3>1
    <3> HIDE DEF N
    <3>3. 2 \in 1..N
      BY <3>2
    <3> QED
      BY <3>3 DEF Rng, N
  <2>4. ShortReply(b.reply)
    BY <1>1, <1>4, <1>6, <2>1 DEF Handled
  <2>5. OrdPair(b, y, W) /\ b.tsn = x.tsn
    BY <1>7, <2>1 DEF OrdNext
  <2>6. OrdNext(b, c, y, W)
    BY <2>1, <2>2, <2>3, <2>4, <2>5, ParamOrd
  <2> QED
    BY <2>5, <2>6 DEF OrdNext
<1> QED
  BY <1>8, <1>9

-----------------------------------------------------------------------------
\* The data under way to e.
Flying(e, W) == {m \in W : IsData(m) /\ m.to = e}

OrdOf(A, W) == \A e \in Ends : OrdPair(A[e], A[Other(e)], Flying(e, W))
AllOrd(A, W) == \A e \in Ends : Ord(A[e], Flying(e, W))

\* A step of e that sends no data.
LEMMA OrdStep ==
  ASSUME NEW A, NEW W, OrdOf(A, W), NEW e \in Ends, NEW f, f = Other(e), NEW B, B[f] = A[f],
         NEW V, Flying(f, V) = Flying(f, W), OrdNext(A[e], B[e], A[f], Flying(e, V))
  PROVE  (~B[e].bad => OrdOf(B, V)) /\ AllOrd(B, V)
<1>0. f \in Ends /\ Other(f) = e /\ \A g \in Ends : g = e \/ g = f
  BY TwoEnds
<1>1. OrdPair(A[f], A[e], Flying(f, W))
  BY <1>0 DEF OrdOf
<1>2. AllOrd(B, V)
  <2>1. Ord(B[e], Flying(e, V))
    BY DEF OrdNext
  <2>2. Ord(B[f], Flying(f, V))
    BY <1>1 DEF OrdPair, Keeps
  <2> QED
    BY <1>0, <2>1, <2>2 DEF AllOrd
<1>3. ASSUME ~B[e].bad PROVE OrdOf(B, V)
  <2>1. OrdPair(B[e], B[f], Flying(e, V)) /\ B[e].tsn = A[e].tsn
    BY <1>3 DEF OrdNext
  <2>2. OrdPair(B[f], B[e], Flying(f, V))
    BY <1>1, <2>1 DEF OrdPair
  <2> QED
    BY <1>0, <2>1, <2>2 DEF OrdOf
<1> QED
  BY <1>2, <1>3

\* What is not data does not count.
LEMMA FlyingSame ==
  ASSUME NEW W, NEW V, \A m : IsData(m) => (m \in V <=> m \in W)
  PROVE  \A e : Flying(e, V) = Flying(e, W)
  BY DEF Flying

\* The data under way and held fits what was sent, as long as the association
\* lasts, and is in order even after it.
OrdInv ==
    /\ over = "no" => OrdOf(as, wire)
    /\ AllOrd(as, wire)

\* A step that sends no data and that may end the association.
LEMMA OrdInvStep ==
  ASSUME OrdInv, over = "no", NEW e \in Ends, as'[Other(e)] = as[Other(e)],
         Flying(Other(e), wire') = Flying(Other(e), wire),
         OrdNext(as[e], as'[e], as[Other(e)], Flying(e, wire')),
         over' = "no" => ~as'[e].bad
  PROVE  OrdInv'
<1>1. OrdOf(as, wire)
  BY DEF OrdInv
<1>2. (~as'[e].bad => OrdOf(as', wire')) /\ AllOrd(as', wire')
  BY <1>1, OrdStep
<1> QED
  BY <1>2 DEF OrdInv

\* A step after which only Ord counts.
LEMMA OrdOver ==
  ASSUME OrdInv, over' # "no", as' = as, wire' = wire
  PROVE  OrdInv'
  BY DEF OrdInv

\* Nothing that e has received or sends changes.
LEMMA SameNext ==
  ASSUME NEW x, NEW y, NEW W, OrdPair(x, y, W), NEW c, DOMAIN c = Fields, SameAsker(x, c),
         SameSend(x, c), SameAnswerer(x, c), SameData(x, c), c.bad = x.bad
  PROVE  OrdNext(x, c, y, W)
<1>1. SameAsker(y, y) /\ SameSend(y, y) /\ SameAnswerer(y, y)
  BY DEF SameAsker, SameSend, SameAnswerer
<1>2. Sends(c, y) /\ Sends(y, c)
  BY <1>1, SendsSame DEF OrdPair
<1>3. Keeps(y.tsn, Bases(x.took), x, W) /\ c.took = x.took
  BY DEF OrdPair, SameAnswerer
<1>4. Keeps(y.tsn, Bases(x.took), c, W)
  BY <1>3, KeepsSame
<1>5. OrdPair(c, y, W)
  BY <1>2, <1>3, <1>4 DEF OrdPair
<1> QED
  BY <1>5, PairOrd DEF SameSend

-----------------------------------------------------------------------------
\* Data is sent: the chunk m, the one with TSN t.
LEMMA SendKeeps ==
  ASSUME OneStream, NEW t, NEW B, NEW b, NEW W, Keeps(t, B, b, W), t <= MaxTsn,
         NEW m \in Chunk, m.tsn = t, Numbered(m, B)
  PROVE  Keeps(t + 1, B, b, W \cup {m})
<1>0. /\ t \in Int /\ Len(b.read) \in Nat /\ MaxTsn \in Nat
      /\ \A d \in W \cup Held(b) : d.tsn \in Int
      /\ \A i \in 1..Len(b.resetHead) : b.resetHead[i].tsn \in Int
  BY KeepsTypes
<1>1. t \in 1..(MaxTsn + 1) /\ t + 1 \in 1..(MaxTsn + 1) /\ t < t + 1 /\ 1..(t - 1) \subseteq 1..(t + 1 - 1)
  BY <1>0 DEF Keeps
<1>2. \A d \in W \cup Held(b) : Numbered(d, B) /\ d.tsn < t /\ d.tsn # t /\ d.tsn < t + 1
  <2>1. \A d \in W \cup Held(b) : Numbered(d, B) /\ d.tsn < t
    BY DEF Keeps, Known
  <2> QED
    BY <1>0, <2>1
<1>3. Known(t + 1, B, b, W \cup {m})
  <2>1. /\ \A c, d \in W : c.tsn = d.tsn => c = d
        /\ \A c, d \in Held(b) : c.tsn = d.tsn => c = d
    BY DEF Keeps, Known
  <2>2. \A c, d \in W \cup {m} : c.tsn = d.tsn => c = d
    BY <1>2, <2>1
  <2>3. \A d \in (W \cup {m}) \cup Held(b) : Numbered(d, B) /\ d.tsn < t + 1
    BY <1>1, <1>2
  <2> QED
    BY <2>1, <2>2, <2>3 DEF Known
<1>4. t \notin b.got /\ b.got \subseteq 1..(t - 1)
  <2>1. b.got \subseteq 1..(t - 1)
    BY DEF Keeps, Arrived
  <2> QED
    BY <1>0, <2>1
<1>5. Arrived(t + 1, b, W \cup {m})
  <2>1. Arrived(t, b, W)
    BY DEF Keeps
  <2>2. b.got \subseteq 1..(t + 1 - 1) /\ b.cum \in 0..(t + 1 - 1)
    <3>1. b.cum \in 0..(t - 1)
      BY <2>1 DEF Arrived
    <3>2. b.cum \in 0..(t + 1 - 1)
      BY <1>0, <3>1
    <3> QED
      BY <1>1, <1>4, <3>2
  <2>3. \A c \in W \cup {m} : c.tsn \notin b.got
    BY <1>4, <2>1 DEF Arrived
  <2> DEFINE u == t + 1
             V == W \cup {m}
  <2>4. b.got \subseteq 1..(u - 1) /\ b.cum \in 0..(u - 1) /\ \A c \in V : c.tsn \notin b.got
    <3>1. u - 1 = t /\ t + 1 - 1 = t
      BY <1>0
    <3>2. b.got \subseteq 1..t /\ b.cum \in 0..t
      BY <2>2, <3>1
    <3>3. b.got \subseteq 1..(u - 1) /\ b.cum \in 0..(u - 1)
      BY <3>1, <3>2
    <3> QED
      BY <2>3, <3>3
  <2> HIDE DEF u, V
  <2>5. Arrived(u, b, V)
    BY <2>1, <2>4 DEF Arrived
  <2> QED
    BY <2>5 DEF u, V
<1>6. Heads(t + 1, B, b)
  <2>1. Heads(t, B, b)
    BY DEF Keeps
  <2>2. \A i \in 1..Len(b.resetHead) : b.resetHead[i].tsn < t + 1
    <3> TAKE i \in 1..Len(b.resetHead)
    <3> DEFINE h == b.resetHead[i].tsn
    <3>1. h \in Int /\ h < t
      BY <1>0, <2>1 DEF Heads
    <3> HIDE DEF h
    <3>2. h < t + 1
      BY <1>0, <3>1
    <3> QED
      BY <3>2 DEF h
  <2> QED
    BY <2>1, <2>2 DEF Heads
<1>7. Ord(b, W \cup {m})
  <2> DEFINE R == Len(b.read)
  <2>1. R \in Nat /\ 1..R \subseteq b.got
    BY <1>0 DEF Keeps, Arrived
  <2>2. IsRecv(b) /\ W \subseteq Chunk /\ \A c \in W \cup Held(b) : c.tsn > R
    BY DEF Keeps, Ord
  <2> HIDE DEF R
  <2>3. R = 0 \/ R \in 1..R
    BY <2>1
  <2>4. R = 0 \/ R \in 1..(t - 1)
    BY <1>4, <2>1, <2>3
  <2>5. t > R
    BY <1>0, <1>1, <2>1, <2>4
  <2>6. \A c \in (W \cup {m}) \cup Held(b) : c.tsn > R
    BY <2>2, <2>5
  <2> QED
    BY <2>2, <2>6 DEF Ord, R
<1>8. ~b.bad /\ B \subseteq Int /\ Behind(b) /\ (Doomed(b) \/ \E n : Counts(B, b, n))
  BY DEF Keeps
<1> QED
  BY <1>1, <1>3, <1>5, <1>6, <1>7, <1>8 DEF Keeps

\* The next number of the stream.
LEMMA NextNumber ==
  ASSUME OneStream, NEW a, NEW b, Sends(a, b), a.outstanding = 0, a.did \subseteq b.took
  PROVE  /\ Bases(b.took) = Bases(a.did) /\ Bases(a.did) \subseteq Int
         /\ a.tsn \in Int /\ \A m \in Bases(a.did) : m <= a.tsn
<1>0. \A p : ~Applied(a, b, p)
  BY DEF Applied
<1>0a. b.took \subseteq a.did /\ IsOuts(b.took)
  BY <1>0 DEF Sends
<1>1. b.took = a.did /\ IsOuts(a.did)
  BY <1>0a
<1>2. a.tsn \in Int /\ a.tsn >= 1
  BY StrResetAssumption DEF Sends
<1>3. ASSUME NEW m \in Bases(a.did) PROVE m <= a.tsn
  <2>1. m = 1 \/ \E p \in a.did : Resets(p.list) /\ m = p.tsn + 1
    BY BasesIs
  <2>2. ASSUME NEW p \in a.did, m = p.tsn + 1 PROVE m <= a.tsn
    <3>1. p.tsn \in Int /\ p.tsn < a.tsn
      BY <1>1, ParamFacts DEF IsOuts, Sends
    <3> QED
      BY <1>2, <2>2, <3>1
  <2> QED
    BY <1>2, <2>1, <2>2
<1> QED
  BY <1>1, <1>2, <1>3, BasesInt

SentOne(a, c) ==
    /\ DOMAIN c = Fields /\ SameAsker(a, c) /\ SameAnswerer(a, c) /\ SameData(a, c) /\ c.bad = a.bad
    /\ c.tsn = a.tsn + 1 /\ DOMAIN c.next = DOMAIN a.next /\ c.next[Stm] = a.next[Stm] + 1

LEMMA SendOne ==
  ASSUME OneStream, NEW a, NEW b, IsAssoc(a), Sends(a, b), a.outstanding = 0, a.did \subseteq b.took,
         a.tsn <= MaxTsn, NEW c, SentOne(a, c)
  PROVE  Sends(c, b)
<1>0. /\ c.tsn = a.tsn + 1 /\ c.next[Stm] = a.next[Stm] + 1 /\ DOMAIN c.next = Streams
      /\ c.did = a.did /\ c.outcnt = a.outcnt /\ c.outstanding = 0
  BY DEF SentOne, SameAsker, Sends
<1>1. /\ a.tsn \in Int /\ Bases(a.did) \subseteq Int /\ \A m \in Bases(a.did) : m <= a.tsn
  BY NextNumber
<1>2. c.tsn \in 1..(MaxTsn + 1) /\ MaxTsn \in Nat
  <2>1. MaxTsn \in Nat /\ a.tsn \in 1..(MaxTsn + 1)
    BY StrResetAssumption DEF Sends
  <2> QED
    BY <1>0, <2>1
<1>3. Window(c) = {}
  <2>1. a.seqOut \in Int /\ c.seqOut = a.seqOut
    BY DEF IsAssoc, SentOne, SameAsker
  <2> QED
    BY <1>0, <2>1 DEF Window
<1>4. PICK n : IsBase(n, Bases(a.did), a.tsn) /\ a.next[Stm] = a.tsn - n
  BY DEF Sends
<1>5. n \in Int /\ n \in Bases(a.did) /\ n <= a.tsn /\ \A m \in Bases(a.did) : m <= n
  BY <1>1, <1>4 DEF IsBase
<1>6. IsBase(n, Bases(c.did), c.tsn)
  <2>1. n <= c.tsn
    BY <1>0, <1>1, <1>5
  <2> QED
    BY <1>0, <1>5, <2>1 DEF IsBase
<1>7. c.next[Stm] = c.tsn - n
  BY <1>0, <1>1, <1>4, <1>5
<1>8. \A q \in c.did : q.tsn < c.tsn
  <2> TAKE q \in c.did
  <2>1. q.tsn \in Int /\ q.tsn < a.tsn
    BY <1>0, ParamFacts DEF Sends, IsOuts
  <2> QED
    BY <1>0, <1>1, <2>1
<1>9. \A q \in b.took : q \in c.did
  BY <1>0 DEF Sends, Applied
<1>10. c.outcnt >= InitStreams /\ b.incnt >= InitStreams /\ IsOuts(b.took)
  BY <1>0 DEF Sends
<1> QED
  BY <1>0, <1>2, <1>3, <1>6, <1>7, <1>8, <1>9, <1>10 DEF Sends

-----------------------------------------------------------------------------
(* The steps of the user. *)

\* The step of e that sends a chunk.
SendsData(A, W, e, B, V) ==
    /\ IsAssoc(A[e]) /\ A[e].outstanding = 0 /\ A[e].did \subseteq A[Other(e)].took
    /\ A[e].tsn <= MaxTsn /\ B[Other(e)] = A[Other(e)] /\ SentOne(A[e], B[e])
    /\ V = W \cup {Data(e, A[e].tsn, Stm, A[e].next[Stm])}

LEMMA SendOf ==
  ASSUME OneStream, NEW A, NEW W, OrdOf(A, W), NEW e \in Ends, NEW B, NEW V,
         SendsData(A, W, e, B, V)
  PROVE  OrdOf(B, V)
<1> DEFINE f == Other(e)
           m == Data(e, A[e].tsn, Stm, A[e].next[Stm])
           a == A[e]
           b == A[f]
           c == B[e]
<1>0. f \in Ends /\ f # e /\ Other(f) = e /\ \A g \in Ends : g = e \/ g = f
  BY TwoEnds
<1>1. OrdPair(a, b, Flying(e, W)) /\ OrdPair(b, a, Flying(f, W))
  BY <1>0 DEF OrdOf
<1>2. IsData(m) /\ m.to = f /\ m.tsn = a.tsn /\ m.strm = Stm /\ m.ssn = a.next[Stm]
  BY DEF Data, IsData
<1>3. Flying(e, V) = Flying(e, W) /\ Flying(f, V) = Flying(f, W) \cup {m}
  <2>1. V = W \cup {m}
    BY DEF SendsData
  <2> HIDE DEF m
  <2> QED
    BY <1>0, <1>2, <2>1 DEF Flying
<1>4. IsAssoc(a) /\ SentOne(a, c) /\ a.outstanding = 0 /\ a.did \subseteq b.took /\ a.tsn <= MaxTsn
      /\ B[f] = b
  BY DEF SendsData
<1>4a. m = [to |-> f, tsn |-> a.tsn, strm |-> Stm, ssn |-> m.ssn]
  BY DEF Data
<1> HIDE DEF a, b, c, m, f
<1>5. Sends(a, b) /\ Sends(b, a) /\ Keeps(b.tsn, Bases(a.took), a, Flying(e, W))
      /\ Keeps(a.tsn, Bases(b.took), b, Flying(f, W))
  BY <1>1 DEF OrdPair
<1>6. Sends(c, b)
  BY <1>4, <1>5, SendOne
<1>7. Sends(b, c)
  <2>1. SameAsker(b, b) /\ SameSend(b, b)
    BY DEF SameAsker, SameSend
  <2> QED
    BY <1>4, <1>5, <2>1, SendsSame DEF SentOne
<1>8. Keeps(b.tsn, Bases(c.took), c, Flying(e, V))
  <2>1. Keeps(b.tsn, Bases(a.took), c, Flying(e, W))
    BY <1>4, <1>5, KeepsSame DEF SentOne
  <2>2. c.took = a.took
    BY <1>4 DEF SentOne, SameAnswerer
  <2> QED
    BY <1>3, <2>1, <2>2
<1>9. /\ Bases(b.took) = Bases(a.did) /\ a.tsn \in Int /\ Bases(a.did) \subseteq Int
  BY <1>4, <1>5, NextNumber
<1>10. PICK n : IsBase(n, Bases(a.did), a.tsn) /\ a.next[Stm] = a.tsn - n
  BY <1>5 DEF Sends
<1>11. Numbered(m, Bases(b.took))
  BY <1>2, <1>9, <1>10 DEF Numbered
<1>12. m \in Chunk
  <2>1. a.tsn \in Nat
    BY <1>5, StrResetAssumption DEF Sends
  <2>2. n \in Int
    BY <1>9, <1>10 DEF IsBase
  <2>3. m.ssn \in Int
    BY <1>2, <1>9, <1>10, <2>2
  <2> QED
    BY <1>0, <1>4a, <2>1, <2>3 DEF Chunk
<1>13. Keeps(c.tsn, Bases(b.took), b, Flying(f, V))
  <2> DEFINE t == a.tsn
             D == Bases(b.took)
             F == Flying(f, W)
  <2>1. Keeps(t, D, b, F) /\ t <= MaxTsn /\ m.tsn = t /\ Numbered(m, D)
    BY <1>2, <1>4, <1>5, <1>11
  <2>2. c.tsn = t + 1 /\ Flying(f, V) = F \cup {m}
    BY <1>3, <1>4 DEF SentOne
  <2> HIDE DEF t, D, F
  <2>3. Keeps(t + 1, D, b, F \cup {m})
    BY <1>12, <2>1, SendKeeps
  <2> QED
    BY <2>2, <2>3 DEF D
<1>14. OrdPair(B[e], B[f], Flying(e, V)) /\ OrdPair(B[f], B[e], Flying(f, V))
  BY <1>4, <1>6, <1>7, <1>8, <1>13 DEF OrdPair, c
<1> QED
  BY <1>0, <1>14 DEF OrdOf, f

LEMMA SentIsOne ==
  ASSUME OneStream, NEW a, IsAssoc(a), DOMAIN a.next = Streams,
         NEW c, c = [a EXCEPT !.tsn = @ + 1, !.next[Stm] = @ + 1]
  PROVE  SentOne(a, c)
<1>1. Stm \in Streams
  BY StmFacts
<1>2. /\ DOMAIN c = Fields /\ SameAsker(a, c) /\ SameAnswerer(a, c) /\ SameData(a, c) /\ c.bad = a.bad
      /\ c.tsn = a.tsn + 1 /\ c.next = [a.next EXCEPT ![Stm] = @ + 1]
  BY DEF SameAsker, SameAnswerer, SameData, IsAssoc, Fields
<1>3. DOMAIN c.next = DOMAIN a.next /\ c.next[Stm] = a.next[Stm] + 1
  BY <1>1, <1>2
<1> QED
  BY <1>2, <1>3 DEF SentOne

LEMMA OfAllOrd ==
  ASSUME NEW A, NEW W, OrdOf(A, W)
  PROVE  AllOrd(A, W)
  BY DEF OrdOf, AllOrd, OrdPair, Keeps

LEMMA UserMsgs ==
  ASSUME use \in Profiles
  PROVE  use.msgs \in 0..MaxTsn /\ MaxTsn \in Nat
<1>1. use \in Profile /\ MaxTsn \in Nat
  BY StrResetAssumption
<1> QED
  BY <1>1 DEF Profile

LEMMA SendDataOrd ==
  ASSUME OneStream, LinkInv, OrdInv, NEW e \in Ends, NEW s \in DataStreams, SendData(e, s)
  PROVE  OrdInv'
<1> DEFINE c == [as[e] EXCEPT !.tsn = @ + 1, !.next[s] = @ + 1]
           m == Data(e, as[e].tsn, s, as[e].next[s])
           f == Other(e)
<1>0. /\ over = "no" /\ as[e].outstanding = 0 /\ as[e].tsn <= use.msgs /\ wire' = wire \cup {m}
      /\ as' = [as EXCEPT ![e] = c] /\ s = Stm
  BY DEF SendData, Idle, OneStream
<1>1. LinkOf(as, wire) /\ OrdOf(as, wire) /\ DOMAIN as = Ends /\ use \in Profiles
  BY <1>0 DEF LinkInv, Link, OrdInv
<1>2. IsAssoc(as[e]) /\ as[e].did \subseteq as[f].took
  BY <1>1 DEF LinkOf, EndOK, Dir, Done
<1>3. DOMAIN as[e].next = Streams /\ as[e].tsn \in Int
  BY <1>1, <1>2 DEF OrdOf, OrdPair, Sends, IsAssoc
<1>4. SentOne(as[e], c)
  BY <1>0, <1>2, <1>3, SentIsOne
<1>5. m = Data(e, as[e].tsn, Stm, as[e].next[Stm])
  BY <1>0
<1> HIDE DEF c, m
<1>6. as'[e] = c /\ as'[f] = as[f]
  BY <1>0, <1>1, OneChanged
<1>7. as[e].tsn <= MaxTsn
  <2> DEFINE t == as[e].tsn
             u == use.msgs
  <2>1. u \in 0..MaxTsn /\ MaxTsn \in Nat
    BY <1>1, UserMsgs
  <2>2. t \in Int /\ t <= u
    BY <1>0, <1>3
  <2> HIDE DEF t, u
  <2>3. t <= MaxTsn
    BY <2>1, <2>2
  <2> QED
    BY <2>3 DEF t
<1>8. SentOne(as[e], as'[e])
  BY <1>4, <1>6
<1>9a. SendsData(as, wire, e, as', wire')
  BY <1>0, <1>2, <1>5, <1>6, <1>7, <1>8 DEF SendsData
<1>9. OrdOf(as', wire')
  BY <1>1, <1>9a, SendOf
<1> QED
  BY <1>9, OfAllOrd DEF OrdInv

-----------------------------------------------------------------------------
\* New requests of the user.
LEMMA AskNext ==
  ASSUME NEW x, NEW y, NEW X, NEW Y, Pair(x, y, X, Y), NEW W, OrdPair(x, y, W), x.outstanding = 0,
         NEW ps, NEW q \in Param, NEW r \in Param,
         \/ IsReq(q) /\ ps = <<q>> /\ r = q
         \/ ps = <<q, r>> /\ q.type \in {"OUT", "ADDO"} /\ r.type \in {"IN", "ADDI"}
               /\ r.seq = x.seqOut + 1,
         q.seq = x.seqOut, q.type = "OUT" => q.tsn = x.tsn - 1,
         NEW c, c = SendRequest(x, ps)
  PROVE  OrdNext(x, c, y, W)
<1>0. IsAssoc(x) /\ ~x.outIs /\ x.seqOut \in Int
  <2>1. x.outIs => x.outstanding > 0
    BY DEF Pair, Dir, OutIsFirst
  <2>2. ~x.outIs
    BY <2>1
  <2> QED
    BY <2>2 DEF Pair, IsAssoc
<1>1. /\ IsAssoc(c) /\ SendFields(x, c, ps)
      /\ \A n \in Window(c) : FirstFound(c, n) = q \/ FirstFound(c, n).type # "OUT"
  <2>1. CASE IsReq(q) /\ ps = <<q>> /\ r = q
    <3>1. c = SendRequest(x, <<q>>)
      BY <2>1
    <3>2. /\ IsAssoc(c) /\ SendFields(x, c, <<q>>) /\ FirstFound(c, c.seqOut) = q
      BY <1>0, <2>1, <3>1, AskOne
    <3>3. c.outstanding = 1 /\ c.seqOut \in Int
      BY <3>2 DEF SendFields, IsAssoc
    <3>4. \A n \in Window(c) : n = c.seqOut
      BY <3>3 DEF Window
    <3> QED
      BY <2>1, <3>2, <3>4
  <2>2. CASE ps = <<q, r>> /\ q.type \in {"OUT", "ADDO"} /\ r.type \in {"IN", "ADDI"}
               /\ r.seq = x.seqOut + 1
    <3>1. c = SendRequest(x, <<q, r>>)
      BY <2>2
    <3>2. /\ IsAssoc(c) /\ SendFields(x, c, <<q, r>>) /\ FirstFound(c, c.seqOut) = q
          /\ FirstFound(c, c.seqOut + 1) = r
      BY <1>0, <2>2, <3>1, AskTwo
    <3>3. c.outstanding = 2 /\ c.seqOut \in Int
      BY <3>2 DEF SendFields, IsAssoc
    <3>4. \A n \in Window(c) : n = c.seqOut \/ n = c.seqOut + 1
      BY <3>3 DEF Window
    <3>5. r.type # "OUT"
      BY <2>2
    <3> QED
      BY <2>2, <3>2, <3>4, <3>5
  <2> QED
    BY <2>1, <2>2
<1>2. /\ c.outcnt = x.outcnt /\ c.did = x.did /\ SameSend(x, c) /\ SameData(x, c)
      /\ SameAnswerer(x, c) /\ c.bad = x.bad /\ c.tsn = x.tsn
  BY <1>1 DEF SendFields, SameSend
<1>3. \A n \in Window(c) : FirstFound(c, n).type = "OUT" => FirstFound(c, n).tsn = c.tsn - 1
  BY <1>1, <1>2
<1>4. Sends(c, y)
  BY <1>2, <1>3, AskSends DEF OrdPair
<1>5. Sends(y, c)
  <2>1. SameAsker(y, y) /\ SameSend(y, y)
    BY DEF SameAsker, SameSend
  <2> QED
    BY <1>2, <2>1, SendsSame DEF OrdPair
<1>6. c.took = x.took
  BY <1>2 DEF SameAnswerer
<1> QED
  BY <1>1, <1>2, <1>4, <1>5, <1>6, SameOrd

LEMMA AskOrd ==
  ASSUME LinkInv, OrdInv, NEW e \in Ends, NEW ps, Ask(e, ps),
         NEW q \in Param, NEW r \in Param,
         \/ IsReq(q) /\ ps = <<q>> /\ r = q
         \/ ps = <<q, r>> /\ q.type \in {"OUT", "ADDO"} /\ r.type \in {"IN", "ADDI"}
               /\ r.seq = as[e].seqOut + 1,
         q.seq = as[e].seqOut, q.type = "OUT" => q.tsn = as[e].tsn - 1
  PROVE  OrdInv'
<1> DEFINE f == Other(e)
           c == SendRequest(as[e], ps)
<1>1. /\ LinkOf(as, wire) /\ OrdOf(as, wire) /\ DOMAIN as = Ends /\ as[e].outstanding = 0
      /\ wire' = wire \cup {Reconf(e, ps)} /\ over = "no" /\ over' = "no"
  BY DEF LinkInv, Link, Ask, Idle, OrdInv
<1>2. as' = [as EXCEPT ![e] = c]
  BY DEF Ask
<1>2a. c = SendRequest(as[e], ps)
  OBVIOUS
<1> HIDE DEF c
<1>3. as'[e] = c /\ as'[f] = as[f]
  BY <1>1, <1>2, OneChanged
<1>4. \A g : Flying(g, wire') = Flying(g, wire)
  <2>1. \A m : IsData(m) => (m \in wire' <=> m \in wire)
    BY <1>1, NotData
  <2> QED
    BY <2>1, FlyingSame
<1>5. Pair(as[e], as[f], SentTo(f, wire, as[e]), SentTo(e, wire, as[f])) /\ EndOK(as[e])
  BY <1>1, LinkPair
<1>6. OrdPair(as[e], as[f], Flying(e, wire))
  BY <1>1 DEF OrdOf
<1>7. OrdNext(as[e], c, as[f], Flying(e, wire))
  BY <1>1, <1>2a, <1>5, <1>6, AskNext
<1>8. OrdNext(as[e], as'[e], as[f], Flying(e, wire'))
  BY <1>3, <1>4, <1>7
<1>9. ~as'[e].bad
  <2>1. SendFields(as[e], c, ps) /\ ~as[e].bad
    BY <1>2a, <1>5, SendRequestIs DEF EndOK
  <2> QED
    BY <1>3, <2>1 DEF SendFields
<1> QED
  BY <1>1, <1>3, <1>4, <1>8, <1>9, OrdInvStep

LEMMA ResetStreamsOrd ==
  ASSUME LinkInv, OrdInv, NEW e \in Ends, NEW way \in use.resets[e], NEW list \in Lists,
         ResetStreams(e, way, list)
  PROVE  OrdInv'
<1> DEFINE a == as[e]
           out == OutReq(a.seqOut, a.seqIn - 1, a.tsn - 1, list)
           in == InReq(a.seqOut, list)
           in2 == InReq(a.seqOut + 1, list)
<1>0. way \in {"out", "in", "both"} /\ list \in SUBSET Nat
  BY UserWays, StrResetAssumption DEF Ways, LinkInv
<1>1. a.seqOut \in Int /\ a.seqIn - 1 \in Int /\ a.tsn - 1 \in Int /\ a.seqOut + 1 \in Int
  <2>1. over = "no"
    BY DEF ResetStreams, Ask, Idle
  <2> HIDE DEF a
  <2>2. a.seqOut \in Int /\ a.seqIn \in Int /\ a.tsn \in Int
    BY <2>1, LinkTypes DEF a
  <2>3. a.seqIn - 1 \in Int /\ a.tsn - 1 \in Int /\ a.seqOut + 1 \in Int
    BY <2>2
  <2> QED
    BY <2>2, <2>3
<1>2. /\ out \in Param /\ out.type = "OUT" /\ out.seq = a.seqOut /\ out.tsn = a.tsn - 1
  BY <1>0, <1>1, MakeParam DEF OutReq
<1>3. in \in Param /\ in.type = "IN" /\ in.seq = a.seqOut
  BY <1>0, <1>1, MakeParam DEF InReq
<1>4. in2 \in Param /\ in2.type = "IN" /\ in2.seq = a.seqOut + 1
  BY <1>0, <1>1, MakeParam DEF InReq
<1>5. Ask(e, CASE way = "out" -> <<out>>
               [] way = "in" -> <<in>>
               [] way = "both" -> <<out, in2>>)
  BY DEF ResetStreams
<1> HIDE DEF out, in, in2
<1>6. CASE way = "out"
  <2>1. Ask(e, <<out>>)
    BY <1>5, <1>6
  <2> QED
    BY <1>2, <2>1, AskOrd DEF IsReq
<1>7. CASE way = "in"
  <2>1. Ask(e, <<in>>)
    BY <1>5, <1>7
  <2> QED
    BY <1>3, <2>1, AskOrd DEF IsReq
<1>8. CASE way = "both"
  <2>1. Ask(e, <<out, in2>>)
    BY <1>5, <1>8
  <2> QED
    BY <1>2, <1>4, <2>1, AskOrd
<1> QED
  BY <1>0, <1>6, <1>7, <1>8

LEMMA AddStreamsOrd ==
  ASSUME LinkInv, OrdInv, NEW e \in Ends, NEW way \in use.adds[e], AddStreams(e, way)
  PROVE  OrdInv'
<1> DEFINE a == as[e]
           out == AddOut(a.seqOut, 1)
           in == AddIn(a.seqOut, 1)
           in2 == AddIn(a.seqOut + 1, 1)
<1>0. way \in {"out", "in", "both"}
  BY UserWays DEF Ways, LinkInv
<1>1. a.seqOut \in Int /\ a.seqOut + 1 \in Int
  <2>1. over = "no"
    BY DEF AddStreams, Ask, Idle
  <2> HIDE DEF a
  <2>2. a.seqOut \in Int
    BY <2>1, LinkTypes DEF a
  <2> QED
    BY <2>2
<1>2. out \in Param /\ out.type = "ADDO" /\ out.seq = a.seqOut
  BY <1>1, MakeParam DEF AddOut
<1>3. in \in Param /\ in.type = "ADDI" /\ in.seq = a.seqOut
  BY <1>1, MakeParam DEF AddIn
<1>4. in2 \in Param /\ in2.type = "ADDI" /\ in2.seq = a.seqOut + 1
  BY <1>1, MakeParam DEF AddIn
<1>5. Ask(e, CASE way = "out" -> <<out>>
               [] way = "in" -> <<in>>
               [] way = "both" -> <<out, in2>>)
  BY DEF AddStreams
<1> HIDE DEF out, in, in2
<1>6. CASE way = "out"
  <2>1. Ask(e, <<out>>)
    BY <1>5, <1>6
  <2> QED
    BY <1>2, <2>1, AskOrd DEF IsReq
<1>7. CASE way = "in"
  <2>1. Ask(e, <<in>>)
    BY <1>5, <1>7
  <2> QED
    BY <1>3, <2>1, AskOrd DEF IsReq
<1>8. CASE way = "both"
  <2>1. Ask(e, <<out, in2>>)
    BY <1>5, <1>8
  <2> QED
    BY <1>2, <1>4, <2>1, AskOrd
<1> QED
  BY <1>0, <1>6, <1>7, <1>8

-----------------------------------------------------------------------------
(* The remaining steps; the order holds. *)

\* A chunk of requests and answers arrives.
LEMMA RecvReconfOrd ==
  ASSUME OneStream, LinkInv, OrdInv, Alone', NEW m \in wire, NEW ok \in BOOLEAN,
         NEW keep \in BOOLEAN, RecvReconf(m.to, m, ok, keep)
  PROVE  OrdInv'
<1> DEFINE e == m.to
           f == Other(e)
           b == HandleParams(as[e], m.params, ok)
           c == Flush(b)
<1>0. /\ over = "no" /\ ~IsData(m) /\ LinkOf(as, wire) /\ OrdOf(as, wire) /\ DOMAIN as = Ends
  BY DEF RecvReconf, LinkInv, Link, OrdInv
<1>1. e \in Ends /\ m \in To(e, wire)
  BY <1>0 DEF LinkOf, To
<1>2. as' = [as EXCEPT ![e] = c]
  BY DEF RecvReconf, Flush
<1>3. over' = IF b.bad THEN "crash" ELSE "no"
  BY DEF RecvReconf
<1>4. wire' = (IF keep THEN wire ELSE wire \ {m})
                \cup (IF b.reply = <<>> THEN {} ELSE {Reconf(e, b.reply)})
                \cup (IF b.more = <<>> THEN {} ELSE {Reconf(e, b.more)})
  BY DEF RecvReconf
<1>5. ChunkOK(m.params, as[e].seqIn) /\ DOMAIN as[e] = Fields
  <2>1. f \in Ends /\ Other(f) = e
    BY <1>1, TwoEnds
  <2> QED
    BY <1>0, <1>1, <2>1 DEF LinkOf, EndOK, IsAssoc
<1>6. DOMAIN b = Fields
  BY <1>5, HandledFields DEF ChunkOK
<1>7. c = Flush(b) /\ b = HandleParams(as[e], m.params, ok)
  OBVIOUS
<1> HIDE DEF b, c, e
<1>8. SameAsker(b, c) /\ SameAnswerer(b, c) /\ SameSend(b, c) /\ SameData(b, c) /\ c.bad = b.bad
  BY <1>6, <1>7, Flushed
<1>9. as'[e] = c /\ as'[f] = as[f]
  BY <1>0, <1>1, <1>2, OneChanged
<1>10. AnsweredAlone(b)
  <2>1. AnsweredAlone(c)
    BY <1>1, <1>9 DEF Alone
  <2> QED
    BY <1>8, <2>1, SameAlone DEF SameAsker
<1>11. \A g : Flying(g, wire') = Flying(g, wire)
  <2>1. \A n : IsData(n) => (n \in wire' <=> n \in wire)
    BY <1>0, <1>4, NotData
  <2> QED
    BY <2>1, FlyingSame
<1>12. Pair(as[e], as[f], SentTo(f, wire, as[e]), SentTo(e, wire, as[f])) /\ EndOK(as[e])
  BY <1>0, <1>1, LinkPair
<1>13. Rng(m.params) \subseteq SentTo(e, wire, as[f])
  BY <1>1, SentIs
<1>14. OrdPair(as[e], as[f], Flying(e, wire))
  BY <1>0, <1>1 DEF OrdOf
<1>15. OrdNext(as[e], b, as[f], Flying(e, wire))
  BY <1>5, <1>7, <1>10, <1>12, <1>13, <1>14, ParamsOrd
<1>16. OrdNext(as[e], c, as[f], Flying(e, wire))
  <2>0. DOMAIN c = Fields
    BY <1>6, <1>7 DEF Flush
  <2>1. Ord(c, Flying(e, wire)) /\ c.tsn = as[e].tsn
    BY <1>8, <1>15, <2>0, OrdSame DEF OrdNext, SameSend
  <2>2. ASSUME ~c.bad PROVE OrdPair(c, as[f], Flying(e, wire))
    <3>1. OrdPair(b, as[f], Flying(e, wire))
      BY <1>8, <1>15, <2>2 DEF OrdNext
    <3>2. OrdNext(b, c, as[f], Flying(e, wire))
      BY <1>8, <2>0, <3>1, SameNext
    <3> QED
      BY <2>2, <3>2 DEF OrdNext
  <2> QED
    BY <2>1, <2>2 DEF OrdNext
<1>17. OrdNext(as[e], as'[e], as[f], Flying(e, wire'))
  BY <1>9, <1>11, <1>16
<1>18. over' = "no" => ~as'[e].bad
  BY <1>3, <1>8, <1>9
<1> QED
  BY <1>0, <1>1, <1>9, <1>11, <1>17, <1>18, OrdInvStep

\* A DATA chunk arrives.
LEMMA RecvDataOrd ==
  ASSUME OneStream, LinkInv, OrdInv, NEW m \in wire, RecvData(m.to, m)
  PROVE  OrdInv'
<1> DEFINE e == m.to
           f == Other(e)
           c == ProcessData(as[e], m)
<1>0. /\ over = "no" /\ IsData(m) /\ LinkOf(as, wire) /\ OrdOf(as, wire) /\ DOMAIN as = Ends
      /\ wire' = wire \ {m} /\ over' = IF c.bad THEN "protocol" ELSE "no"
      /\ as' = [as EXCEPT ![e] = c]
  BY DEF RecvData, LinkInv, Link, OrdInv
<1>1. e \in Ends /\ m \in Flying(e, wire)
  BY <1>0 DEF LinkOf, Flying
<1>2. f \in Ends /\ f # e
  BY <1>1, TwoEnds
<1>3. IsAssoc(as[e]) /\ DOMAIN as[e] = Fields
  BY <1>0, <1>1 DEF LinkOf, EndOK, IsAssoc
<1>4. SameControl(as[e], c) /\ c = ProcessData(as[e], m)
  BY <1>3, ProcessDataControl
<1>5. e = m.to
  OBVIOUS
<1> HIDE DEF c, e, f
<1>6. as'[e] = c /\ as'[f] = as[f]
  BY <1>0, <1>1, OneChanged DEF f
<1>7. Flying(f, wire') = Flying(f, wire) /\ Flying(e, wire') = Flying(e, wire) \ {m}
  BY <1>0, <1>2, <1>5 DEF Flying
<1>8. OrdPair(as[e], as[f], Flying(e, wire))
  BY <1>0, <1>1 DEF OrdOf, f
<1> DEFINE B == Bases(as[e].took)
           t == as[f].tsn
           W == Flying(e, wire)
<1>9. Keeps(t, B, as[e], W) /\ as[e].incnt >= InitStreams /\ as[e].incnt \in Nat
  BY <1>3, <1>8 DEF OrdPair, Sends, IsAssoc
<1> HIDE DEF B, t, W
<1>10. KeptOrBad(t, B, c, W \ {m})
  BY <1>1, <1>4, <1>9, ProcessKeeps DEF W
<1>11. SameAsker(as[e], c) /\ SameAnswerer(as[e], c) /\ SameSend(as[e], c) /\ c.took = as[e].took
       /\ c.tsn = as[e].tsn
  BY <1>4 DEF SameControl, SameAsker, SameAnswerer, SameSend
<1>12. Ord(c, W \ {m})
  BY <1>10 DEF KeptOrBad, Keeps
<1>13. ASSUME ~c.bad PROVE OrdPair(c, as[f], W \ {m})
  <2>1. Keeps(t, B, c, W \ {m})
    BY <1>10, <1>13 DEF KeptOrBad
  <2>2. SameAsker(as[f], as[f]) /\ SameSend(as[f], as[f]) /\ SameAnswerer(as[f], as[f])
    BY DEF SameAsker, SameSend, SameAnswerer
  <2>3. Sends(c, as[f]) /\ Sends(as[f], c)
    BY <1>8, <1>11, <2>2, SendsSame DEF OrdPair
  <2> QED
    BY <1>11, <2>1, <2>3 DEF OrdPair, B, t
<1>14. OrdNext(as[e], as'[e], as[f], Flying(e, wire'))
  BY <1>6, <1>7, <1>11, <1>12, <1>13 DEF OrdNext, W
<1>15. over' = "no" => ~as'[e].bad
  BY <1>0, <1>6
<1> QED
  BY <1>0, <1>1, <1>6, <1>7, <1>14, <1>15, OrdInvStep DEF f

LEMMA TimerOrd ==
  ASSUME LinkInv, OrdInv, NEW e \in Ends, TimerExpires(e)
  PROVE  OrdInv'
<1>0. over = "no" /\ LinkOf(as, wire) /\ DOMAIN as = Ends /\ OrdOf(as, wire)
  BY DEF TimerExpires, LinkInv, Link, OrdInv
<1>1. EndOK(as[e]) /\ Asked(as[e])
  BY <1>0 DEF LinkOf, Dir
<1>1a. OrdPair(as[e], as[Other(e)], Flying(e, wire))
  BY <1>0 DEF OrdOf
<1>2. CASE as[e].outstanding = 0 \/ as[e].strReset = <<>>
  <2> DEFINE c == [as[e] EXCEPT !.timer = FALSE, !.outstanding = 0]
  <2>1. as' = [as EXCEPT ![e] = c] /\ wire' = wire
    BY <1>2 DEF TimerExpires
  <2>2. as[e].outstanding = 0
    <3> SUFFICES ASSUME as[e].strReset = <<>> PROVE as[e].outstanding = 0
      BY <1>2
    <3> DEFINE a == as[e]
    <3>1. a.outstanding \in 0..2 /\ a.seqOut \in Int /\ a.strReset = <<>>
          /\ \A n \in Window(a) : Found(a, n) # {}
      BY <1>1 DEF Asked, EndOK, IsAssoc
    <3> HIDE DEF a
    <3>2. \A n : Found(a, n) = {}
      BY <3>1 DEF Found
    <3>3. a.outstanding # 0 => a.seqOut \in Window(a)
      BY <3>1 DEF Window
    <3> QED
      BY <3>1, <3>2, <3>3 DEF a
  <2>3. /\ SameAsker(as[e], c) /\ SameAnswerer(as[e], c) /\ SameSend(as[e], c)
        /\ SameData(as[e], c) /\ DOMAIN c = Fields /\ c.bad = as[e].bad
    BY <1>1, <2>2 DEF SameAsker, SameAnswerer, SameSend, SameData, EndOK, IsAssoc, Fields
  <2> HIDE DEF c
  <2>4. as'[e] = c /\ as'[Other(e)] = as[Other(e)]
    BY <1>0, <2>1, OneChanged
  <2>5. OrdNext(as[e], c, as[Other(e)], Flying(e, wire))
    BY <1>1a, <2>3, SameNext
  <2>6. OrdNext(as[e], as'[e], as[Other(e)], Flying(e, wire')) /\ ~as'[e].bad
    BY <1>1, <2>1, <2>3, <2>4, <2>5 DEF EndOK
  <2> QED
    BY <1>0, <2>1, <2>4, <2>6, OrdInvStep
<1>3. CASE ~(as[e].outstanding = 0 \/ as[e].strReset = <<>>)
  <2>1. as' = as /\ (\/ over' = "threshold" /\ wire' = wire
                     \/ wire' = wire \cup {Reconf(e, as[e].strReset)})
    BY <1>3 DEF TimerExpires
  <2>2. CASE over' = "threshold" /\ wire' = wire
    BY <2>1, <2>2, OrdOver
  <2>3. CASE wire' = wire \cup {Reconf(e, as[e].strReset)}
    <3>1. \A n : IsData(n) => (n \in wire' <=> n \in wire)
      BY <2>3, NotData
    <3>2. \A g : Flying(g, wire') = Flying(g, wire)
      BY <3>1, FlyingSame
    <3> QED
      BY <1>0, <2>1, <3>2 DEF OrdInv, OrdOf, AllOrd
  <2> QED
    BY <2>1, <2>2, <2>3
<1> QED
  BY <1>2, <1>3

LEMMA LoseOrd ==
  ASSUME OrdInv, NEW m \in wire, Lose(m)
  PROVE  OrdInv'
<1>0. over' = over /\ as' = as /\ wire' = wire \ {m} /\ ~IsData(m)
  BY DEF Lose
<1>1. \A n : IsData(n) => (n \in wire' <=> n \in wire)
  BY <1>0
<1>2. \A g : Flying(g, wire') = Flying(g, wire)
  BY <1>1, FlyingSame
<1> QED
  BY <1>0, <1>2 DEF OrdInv, OrdOf, AllOrd

-----------------------------------------------------------------------------
\* A fresh association.
LEMMA FreshSends ==
  ASSUME OneStream, NEW a, NEW b, IsAssoc(a), IsAssoc(b), a.outstanding = 0, a.did = {},
         b.took = {}, a.tsn = 1, a.next = [s \in Streams |-> 0],
         a.outcnt = InitStreams, b.incnt = InitStreams
  PROVE  Sends(a, b)
<1>1. a.seqOut \in Int
  BY DEF IsAssoc
<1>2. Window(a) = {}
  BY <1>1 DEF Window
<1>3. Stm \in Streams /\ MaxTsn \in Nat /\ InitStreams \in Nat
  BY StmFacts, StrResetAssumption
<1>4. Bases(a.did) = {1}
  BY BasesIs
<1>5. IsBase(1, Bases(a.did), a.tsn) /\ a.next[Stm] = a.tsn - 1
  BY <1>3, <1>4 DEF IsBase
<1>6. a.tsn \in 1..(MaxTsn + 1) /\ DOMAIN a.next = Streams
  BY <1>3
<1>7. a.outcnt >= InitStreams /\ b.incnt >= InitStreams
  BY <1>3
<1>8. IsOuts(b.took)
  BY DEF IsOuts
<1> QED
  BY <1>2, <1>5, <1>6, <1>7, <1>8 DEF Sends

LEMMA FreshKeeps ==
  ASSUME OneStream, NEW b, DOMAIN b = Fields, ~b.bad, b.cum = 0, b.got = {},
         b.last = [s \in Streams |-> -1], b.inqueue = [s \in Streams |-> {}],
         b.resetHead = <<>>, b.pending = {}, b.read = <<>>, b.took = {}
  PROVE  Keeps(1, Bases(b.took), b, {})
<1>1. Stm \in Streams /\ MaxTsn \in Nat
  BY StmFacts, StrResetAssumption
<1>2. /\ Held(b) = {} /\ b.last[Stm] = -1 /\ Len(b.read) = 0 /\ Len(b.resetHead) = 0
      /\ b.inqueue[Stm] = {}
  BY <1>1 DEF Held
<1>3. <<>> \in Seq(Chunk) /\ <<>> \in Seq(WaitingReset) /\ 1..0 = {}
  OBVIOUS
<1>4. Bases(b.took) = {1}
  BY BasesIs
<1>5. Ord(b, {})
  BY <1>1, <1>2, <1>3 DEF Ord, IsRecv
<1>6. Known(1, Bases(b.took), b, {}) /\ Arrived(1, b, {})
  <2>1. 0 \in 0..(1 - 1)
    OBVIOUS
  <2> QED
    BY <1>2, <1>3, <2>1 DEF Known, Arrived
<1>7. Heads(1, Bases(b.took), b)
  BY <1>2, <1>3 DEF Heads
<1>8. Behind(b)
  BY <1>2 DEF Behind
<1>9. Counts(Bases(b.took), b, 1)
  BY <1>2, <1>4 DEF Counts
<1>10. 1 \in 1..(MaxTsn + 1) /\ Bases(b.took) \subseteq Int
  BY <1>1, <1>4
<1> QED
  BY <1>5, <1>6, <1>7, <1>8, <1>9, <1>10 DEF Keeps

LEMMA InitOrd ==
  ASSUME OneStream, Init
  PROVE  OrdInv
<1>1. wire = {} /\ LinkInv /\ LinkOf(as, wire)
  BY InitLink DEF Init, LinkInv, Link
<1>2. ASSUME NEW e \in Ends
      PROVE  /\ IsAssoc(as[e]) /\ as[e].outstanding = 0 /\ as[e].did = {} /\ as[e].took = {}
             /\ as[e].tsn = 1 /\ as[e].next = [s \in Streams |-> 0]
             /\ as[e].outcnt = InitStreams /\ as[e].incnt = InitStreams
             /\ Keeps(1, Bases(as[e].took), as[e], {})
  <2>1. as[e] = [seqOut |-> InitSeq[e], seqIn |-> InitSeq[Other(e)],
                actions |-> <<"none", "none">>, outstanding |-> 0, outIs |-> FALSE,
                strReset |-> <<>>, timer |-> FALSE, adding |-> 0,
                outcnt |-> InitStreams, incnt |-> InitStreams,
                tsn |-> 1, next |-> [s \in Streams |-> 0],
                cum |-> 0, got |-> {}, last |-> [s \in Streams |-> -1],
                inqueue |-> [s \in Streams |-> {}], resetHead |-> <<>>, pending |-> {},
                read |-> <<>>, bad |-> FALSE, did |-> {}, took |-> {},
                reply |-> <<>>, more |-> <<>>]
    BY DEF Init
  <2> DEFINE a == as[e]
  <2>2. /\ a.outstanding = 0 /\ a.did = {} /\ a.took = {}
        /\ a.tsn = 1 /\ a.next = [s \in Streams |-> 0]
        /\ a.outcnt = InitStreams /\ a.incnt = InitStreams
    BY <2>1
  <2>3. /\ DOMAIN a = Fields /\ a.bad = FALSE /\ a.cum = 0 /\ a.got = {}
        /\ a.last = [s \in Streams |-> -1] /\ a.inqueue = [s \in Streams |-> {}]
        /\ a.resetHead = <<>> /\ a.pending = {} /\ a.read = <<>> /\ a.took = {}
    BY <2>1 DEF Fields
  <2>4. IsAssoc(a)
    BY <1>1 DEF LinkOf, EndOK
  <2> HIDE DEF a
  <2>5. Keeps(1, Bases(a.took), a, {})
    BY <2>3, FreshKeeps
  <2> QED
    BY <2>2, <2>4, <2>5 DEF a
<1>3. ASSUME NEW e \in Ends
      PROVE  OrdPair(as[e], as[Other(e)], Flying(e, wire))
  <2>1. Other(e) \in Ends
    BY TwoEnds
  <2>2. Sends(as[e], as[Other(e)]) /\ Sends(as[Other(e)], as[e])
    BY <1>2, <2>1, FreshSends
  <2>3. Flying(e, wire) = {}
    BY <1>1 DEF Flying
  <2>4. Keeps(as[Other(e)].tsn, Bases(as[e].took), as[e], Flying(e, wire))
    BY <1>2, <2>1, <2>3
  <2> QED
    BY <2>2, <2>4 DEF OrdPair
<1>4. OrdOf(as, wire)
  BY <1>3 DEF OrdOf
<1> QED
  BY <1>4, OfAllOrd DEF OrdInv

LEMMA NextOrd ==
  ASSUME OneStream, LinkInv, OrdInv, Alone', [Next]_vars
  PROVE  OrdInv'
<1>1. CASE \E e \in Senders, s \in DataStreams : SendData(e, s)
  BY <1>1, SendDataOrd, StrResetAssumption
<1>2. CASE \E e \in Ends : \E way \in use.resets[e], list \in Lists : ResetStreams(e, way, list)
  BY <1>2, ResetStreamsOrd
<1>3. CASE \E e \in Ends : \E way \in use.adds[e] : AddStreams(e, way)
  BY <1>3, AddStreamsOrd
<1>4. CASE \E m \in wire, ok, keep \in BOOLEAN : RecvReconf(m.to, m, ok, keep)
  BY <1>4, RecvReconfOrd
<1>5. CASE \E m \in wire : RecvData(m.to, m)
  BY <1>5, RecvDataOrd
<1>6. CASE \E e \in Ends : TimerExpires(e)
  BY <1>6, TimerOrd
<1>7. CASE \E m \in wire : Lose(m)
  BY <1>7, LoseOrd
<1>8. CASE UNCHANGED vars
  BY <1>8 DEF vars, OrdInv
<1> QED
  BY <1>1, <1>2, <1>3, <1>4, <1>5, <1>6, <1>7, <1>8 DEF Next

LEMMA OrdInOrder ==
  ASSUME OneStream, OrdInv
  PROVE  InOrder
<1> SUFFICES ASSUME NEW e \in Ends, NEW i \in 1..Len(as[e].read)
             PROVE  LET c == as[e].read[i]
                    IN /\ \A j \in 1..(i - 1) :
                             as[e].read[j].strm = c.strm => as[e].read[j].tsn < c.tsn
                       /\ \A d \in Waiting(e) : d.strm = c.strm => d.tsn > c.tsn
  BY DEF InOrder
<1> DEFINE b == as[e]
           W == Flying(e, wire)
           N == Len(b.read)
<1>1. Ord(b, W)
  BY DEF OrdInv, AllOrd
<1>2. /\ N \in Nat /\ \A k \in 1..N : b.read[k].tsn = k
  <2>1. IsRecv(b)
    BY <1>1 DEF Ord
  <2> HIDE DEF b
  <2>2. b.read \in Seq(Chunk) /\ \A k \in 1..Len(b.read) : b.read[k].tsn = k
    BY <2>1 DEF IsRecv
  <2> QED
    BY <2>2
<1>3. \A d \in Waiting(e) : d \in W \cup Held(b)
  <2>1. Waiting(e) = W \cup b.pending \cup UNION {b.inqueue[s] : s \in Streams}
    BY DEF Waiting, Flying
  <2>2. \A s \in Streams : s = Stm \/ b.inqueue[s] = {}
    BY <1>1 DEF Ord, IsRecv
  <2>3. ASSUME NEW d \in UNION {b.inqueue[s] : s \in Streams} PROVE d \in b.inqueue[Stm]
    <3>1. PICK s \in Streams : d \in b.inqueue[s]
      OBVIOUS
    <3> QED
      BY <2>2, <3>1
  <2> QED
    BY <2>1, <2>3 DEF Held
<1>4. \A d \in W \cup Held(b) : d.tsn > N /\ d.tsn \in Int
  <2> HIDE DEF b, W
  <2>1. \A d \in W \cup Held(b) : d.tsn > Len(b.read)
    BY <1>1 DEF Ord
  <2>2. \A d \in W \cup Held(b) : d \in Chunk
    BY <1>1 DEF Ord, IsRecv, Held
  <2>3. \A d \in Chunk : d.tsn \in Int
    BY DEF Chunk
  <2> QED
    BY <2>1, <2>2, <2>3
<1>5. i \in 1..N
  OBVIOUS
<1> HIDE DEF N, b, W
<1>6. b.read[i].tsn = i /\ i \in Int /\ i <= N
  BY <1>2, <1>5
<1>7. \A j \in 1..(i - 1) : b.read[j].tsn < b.read[i].tsn
  <2> TAKE j \in 1..(i - 1)
  <2>1. j \in 1..N /\ j < i
    BY <1>2, <1>5
  <2>2. b.read[j].tsn = j
    BY <1>2, <2>1
  <2> QED
    BY <1>6, <2>1, <2>2
<1>8. \A d \in Waiting(e) : d.tsn > b.read[i].tsn
  <2> TAKE d \in Waiting(e)
  <2>1. d.tsn > N /\ d.tsn \in Int
    BY <1>3, <1>4
  <2>2. d.tsn > i
    BY <1>2, <1>6, <2>1
  <2> QED
    BY <1>6, <2>2
<1> QED
  BY <1>7, <1>8 DEF b

\* With data on one stream, every chunk under way, queued or behind a reset carries the
\* SSN its TSN has between two resets, and the receiver's next SSN counts from the
\* last reset it has carried out (sctp_queue_data_to_stream, resetHead, sctp_reset_in_stream).
THEOREM OrdHolds ==
  ASSUME OneStream
  PROVE  Spec /\ []Alone /\ [][NamesNoDenied]_vars => []OrdInv
<1>1. Init => OrdInv
  BY InitOrd
<1>2. LinkInv /\ OrdInv /\ Alone' /\ [Next]_vars => OrdInv'
  BY NextOrd
<1> QED
  BY <1>1, <1>2, LinkHolds, PTL DEF Spec

\* A stream is delivered in the order it was sent in, across any number of resets, if it
\* is the only one with data: what waits for a reset goes to the stream of the chunk
\* just processed (sctp_process_a_data_chunk).
THEOREM InOrderSafe ==
  ASSUME OneStream
  PROVE  Spec /\ []Alone /\ [][NamesNoDenied]_vars => []InOrder
<1>1. OrdInv => InOrder
  BY OrdInOrder
<1> QED
  BY <1>1, OrdHolds, PTL

-----------------------------------------------------------------------------
(* Users for which the two hypotheses hold: they reset and add outgoing     *)
(* streams, and either nothing is denied or one endpoint asks for nothing.  *)

NoDenial(u) == u.deny = {} /\ \A e \in Ends : u.adds[e] = {}
Quiet(u, f) == u.resets[f] = {} /\ u.adds[f] = {} /\ u.adds[Other(f)] \subseteq {"out"}
PlainUser(u) ==
    /\ \A e \in Ends : u.resets[e] \subseteq {"out"}
    /\ NoDenial(u) \/ \E f \in Ends : Quiet(u, f)
PlainUsers == \A u \in Profiles : PlainUser(u)

\* The requests such users make.
Asks(u, q) == q.type = "OUT" \/ (q.type = "ADDO" /\ ~NoDenial(u))

PlainEnd(u, a) ==
    /\ \A q \in Rng(a.strReset) : Asks(u, q)
    /\ NoDenial(u) => a.actions[1] # "denied"
Still(a) == a.outstanding = 0 /\ ~a.outIs
PlainWire(u, W) ==
    \A m \in W : ~IsData(m) => \A q \in Rng(m.params) : q.type = "RESP" \/ Asks(u, q)

PlainInv ==
    /\ use \in Profiles /\ DOMAIN as = Ends
    /\ \A e \in Ends : PlainEnd(use, as[e])
    /\ PlainWire(use, wire)
    /\ \A f \in Ends : Quiet(use, f) => Still(as[f])

\* What a handler may do to the endpoint a on the request or answer p.
Plainly(a, c, p, ok) ==
    /\ c.strReset = a.strReset \/ c.strReset = <<>>
    /\ Still(a) => Still(c)
    /\ c.more = a.more
    /\ \A q \in Rng(c.reply) : q \in Rng(a.reply) \/ q.type = "RESP"
    /\ ok /\ p.type # "ADDO" => c.actions[1] \in {a.actions[1], "performed"}

LEMMA PlainReply ==
  ASSUME NEW a, IsAssoc(a), NEW n \in Int, NEW r \in Outcome, NEW t,
         t = a.reply \o <<Response(n, r)>>
  PROVE  \A q \in Rng(t) : q \in Rng(a.reply) \/ q.type = "RESP"
<1> DEFINE u == Response(n, r)
<1>1. u \in Param /\ u.type = "RESP"
  BY MakeParam DEF Response
<1>2. a.reply \in Seq(Param) /\ t = a.reply \o <<u>>
  BY DEF IsAssoc
<1> HIDE DEF u
<1>3. Rng(t) = Rng(a.reply) \cup {u}
  BY <1>1, <1>2, RngAdd
<1> QED
  BY <1>1, <1>3

LEMMA PlainResp ==
  ASSUME NEW a, IsAssoc(a), Asked(a), NEW n \in Int, NEW r, NEW c, c = HandleResponse(a, n, r)
  PROVE  /\ IsAssoc(c) /\ (c.strReset = a.strReset \/ c.strReset = <<>>)
         /\ Still(a) => Still(c)
         /\ c.more = a.more /\ c.reply = a.reply /\ c.actions = a.actions
<1>1. CASE a.outstanding = 0 \/ n # a.seqOut
  <2>1. c = a
    BY <1>1, HandleResponseIs
  <2> QED
    BY <2>1
<1>2. CASE ~(a.outstanding = 0 \/ n # a.seqOut)
  <2> DEFINE p == FirstFound(a, a.seqOut)
  <2>1. c = CleanUp(Answered(a, p, r)) /\ p \in Param /\ IsReq(p)
    BY <1>2, HandleResponseIs
  <2> HIDE DEF p
  <2>2. /\ IsAssoc(c) /\ SameRest(a, c)
        /\ c.strReset = IF a.outstanding = 1 THEN <<>> ELSE a.strReset
    BY <2>1, AnsweredIs
  <2>3. ~Still(a)
    BY <1>2 DEF Still
  <2> QED
    BY <2>2, <2>3 DEF SameRest
<1> QED
  BY <1>1, <1>2

LEMMA PlainParam ==
  ASSUME NEW x, NEW y, NEW X, NEW Y, Pair(x, y, X, Y), NEW p \in Param,
         p.type \in {"OUT", "ADDO", "RESP"}, NEW ok \in BOOLEAN, NEW c, c = HandleParam(x, p, ok)
  PROVE  Plainly(x, c, p, ok)
<1>0. IsAssoc(x) /\ Asked(x) /\ p.seq \in Int /\ (p.type = "OUT" => p.resp \in Int)
  BY ParamFacts DEF Pair, Dir
<1>0a. "performed" \in Outcome /\ "denied" \in Outcome
  BY DEF Outcome
<1>1. CASE p.type = "RESP"
  <2>1. c = HandleResponse(x, p.seq, p.result)
    BY <1>1 DEF HandleParam
  <2> QED
    BY <1>0, <2>1, PlainResp DEF Plainly
<1>2. ASSUME NEW a, IsAssoc(a), NEW d, d = Repeat(a, p)
      PROVE  /\ SameAsker(a, d) /\ d.more = a.more /\ d.actions = a.actions
             /\ \A q \in Rng(d.reply) : q \in Rng(a.reply) \/ q.type = "RESP"
  <2> DEFINE u == Response(p.seq, KnownResult(a, p.seq))
  <2>1. /\ SameAsker(a, d) /\ SameAnswerer(a, d) /\ d.more = a.more
        /\ d.reply = a.reply \o <<u>> /\ u \in Param
    BY <1>2, RepeatIs
  <2>2. u.type = "RESP" /\ a.reply \in Seq(Param)
    BY <1>2 DEF Response, IsAssoc
  <2> HIDE DEF u
  <2>3. Rng(d.reply) = Rng(a.reply) \cup {u}
    BY <2>1, <2>2, RngAdd
  <2> QED
    BY <2>1, <2>2, <2>3 DEF SameAnswerer
<1>3. CASE p.type = "OUT"
  <2> DEFINE b == ImplicitAck(x, p)
  <2>1. /\ IsAssoc(b) /\ (b.strReset = x.strReset \/ b.strReset = <<>>)
        /\ Still(x) => Still(b)
        /\ b.more = x.more /\ b.reply = x.reply /\ b.actions = x.actions
    <3>1. CASE x.outstanding > 0 /\ p.resp = x.seqOut
      <4>1. b = HandleResponse(x, p.resp, "performed")
        BY <3>1 DEF ImplicitAck
      <4> QED
        BY <1>0, <1>3, <4>1, PlainResp
    <3>2. CASE ~(x.outstanding > 0 /\ p.resp = x.seqOut)
      <4>1. b = x
        BY <3>2 DEF ImplicitAck
      <4> QED
        BY <1>0, <4>1
    <3> QED
      BY <3>1, <3>2
  <2>2. c = IF p.seq = b.seqIn THEN RequestOut(b, p, ok) ELSE Repeat(b, p)
    BY <1>3 DEF HandleParam
  <2> HIDE DEF b
  <2>3. /\ SameAsker(b, c) /\ c.more = b.more
        /\ \A q \in Rng(c.reply) : q \in Rng(b.reply) \/ q.type = "RESP"
        /\ ok => c.actions[1] \in {b.actions[1], "performed"}
    <3>1. CASE p.seq = b.seqIn
      <4>1. c = RequestOut(b, p, ok)
        BY <2>2, <3>1
      <4>0. IsAssoc(b)
        BY <2>1
      <4>2. /\ SameAsker(b, c) /\ c.more = b.more
            /\ \/ ok /\ Gave(b, c, p, "performed", <<Response(p.seq, "performed")>>)
               \/ ~ok /\ Gave(b, c, p, "denied", <<Response(p.seq, "denied")>>)
        BY <4>0, <4>1, RequestOutIs
      <4>3. PICK r \in {"performed", "denied"} :
               Gave(b, c, p, r, <<Response(p.seq, r)>>) /\ (ok => r = "performed")
        BY <4>2
      <4>4. c.reply = b.reply \o <<Response(p.seq, r)>> /\ c.actions[1] = r
        BY <4>3 DEF Gave
      <4>5. \A q \in Rng(c.reply) : q \in Rng(b.reply) \/ q.type = "RESP"
        <5>1. r \in Outcome /\ p.seq \in Int
          BY <1>0, <1>0a
        <5> QED
          BY <4>0, <4>4, <5>1, PlainReply
      <4> QED
        BY <4>2, <4>3, <4>4, <4>5
    <3>2. CASE p.seq # b.seqIn
      <4>1. c = Repeat(b, p)
        BY <2>2, <3>2
      <4> QED
        BY <1>2, <2>1, <4>1
    <3> QED
      BY <3>1, <3>2
  <2> QED
    BY <2>1, <2>3 DEF Plainly, SameAsker, Still
<1>4. CASE p.type = "ADDO"
  <2>1. /\ SameAsker(x, c) /\ c.more = x.more
        /\ \A q \in Rng(c.reply) : q \in Rng(x.reply) \/ q.type = "RESP"
    <3>1. CASE p.seq = x.seqIn
      <4>1. c = RequestAddOut(x, p, ok)
        BY <1>4, <3>1 DEF HandleParam
      <4>2. OpensOrNot(x, c, p)
        BY <1>0, <1>4, <4>1, RequestAddOutIs
      <4>3. \/ c.reply = x.reply
            \/ \E r \in {"performed", "denied"} : c.reply = x.reply \o <<Response(p.seq, r)>>
        BY <4>2 DEF OpensOrNot, Gave
      <4>4. \A q \in Rng(c.reply) : q \in Rng(x.reply) \/ q.type = "RESP"
        BY <1>0, <1>0a, <4>3, PlainReply
      <4> QED
        BY <4>2, <4>4 DEF OpensOrNot
    <3>2. CASE p.seq # x.seqIn
      <4>1. c = Repeat(x, p)
        BY <1>4, <3>2 DEF HandleParam
      <4> QED
        BY <1>0, <1>2, <4>1
    <3> QED
      BY <3>1, <3>2
  <2> QED
    BY <1>4, <2>1 DEF Plainly, SameAsker, Still
<1> QED
  BY <1>1, <1>3, <1>4

\* The endpoint after all parameters of a chunk.
PlainlyAll(u, a, c, ok) ==
    /\ c.strReset = a.strReset \/ c.strReset = <<>>
    /\ Still(a) => Still(c)
    /\ c.more = a.more
    /\ \A q \in Rng(c.reply) : q \in Rng(a.reply) \/ q.type = "RESP"
    /\ ok /\ NoDenial(u) => c.actions[1] \in {a.actions[1], "performed"}

LEMMA PlainParams ==
  ASSUME NEW x, NEW y, NEW X, NEW Y, Pair(x, y, X, Y), EndOK(x), NEW u,
         NEW ps, Rng(ps) \subseteq Y, ChunkOK(ps, x.seqIn),
         \A q \in Rng(ps) : q.type = "RESP" \/ Asks(u, q),
         NEW ok \in BOOLEAN, NEW c, c = HandleParams(x, ps, ok)
  PROVE  PlainlyAll(u, x, c, ok)
<1> DEFINE b == HandleParam(x, ps[1], ok)
           p == ps[1]
           q == ps[2]
<1>0. ~x.bad /\ x.reply = <<>> /\ ShortReply(x.reply) /\ Y \subseteq Param
  BY DEF EndOK, ShortReply, Pair, Dir
<1>1. c = IF Len(ps) = 1 \/ b.bad THEN b ELSE HandleParam(b, q, ok)
  BY DEF HandleParams
<1>2. p \in Y /\ p \in Rng(ps) /\ (IsReq(p) => p.seq <= x.seqIn)
  BY DEF Rng, ChunkOK
<1>3. b = HandleParam(x, p, ok)
  OBVIOUS
<1>4. Len(ps) # 1 => q \in Rng(ps) /\ q \in Y
  <2> DEFINE N == Len(ps)
  <2>1. ps \in Seq(Param) /\ N >= 1
    BY DEF ChunkOK
  <2>2. N \in Nat /\ N >= 1
    BY <2>1
  <2> HIDE DEF N
  <2>3. N # 1 => 2 \in 1..N
    BY <2>2
  <2> QED
    BY <2>3 DEF Rng, N
<1> HIDE DEF b, p, q
<1>5. \A z \in Rng(ps) : z.type \in {"OUT", "ADDO", "RESP"} /\ (NoDenial(u) => z.type # "ADDO")
  BY DEF Asks
<1>6. Plainly(x, b, p, ok)
  BY <1>0, <1>2, <1>3, <1>5, PlainParam
<1>7. Linked(b, y, X, Y)
  BY <1>0, <1>2, <1>3, <1>5, HandleParamIs
<1>8. CASE Len(ps) = 1 \/ b.bad
  BY <1>1, <1>2, <1>5, <1>6, <1>8 DEF Plainly, PlainlyAll
<1>9. CASE ~(Len(ps) = 1 \/ b.bad)
  <2>1. c = HandleParam(b, q, ok) /\ q \in Rng(ps) /\ q \in Param
    BY <1>0, <1>1, <1>4, <1>9
  <2>2. PICK Z : X \subseteq Z /\ Pair(b, y, Z, Y)
    BY <1>7, <1>9 DEF Linked
  <2>3. Plainly(b, c, q, ok)
    BY <1>5, <2>1, <2>2, PlainParam
  <2> QED
    BY <1>2, <1>5, <1>6, <2>1, <2>3 DEF Plainly, PlainlyAll
<1> QED
  BY <1>8, <1>9

-----------------------------------------------------------------------------
(* The steps of such users. *)

LEMMA PlainStep ==
  ASSUME PlainInv, use' = use, NEW e \in Ends, as'[Other(e)] = as[Other(e)], DOMAIN as' = Ends,
         PlainEnd(use, as'[e]), Quiet(use, e) => Still(as'[e]), PlainWire(use, wire')
  PROVE  PlainInv'
<1>1. Other(e) \in Ends /\ \A g \in Ends : g = e \/ g = Other(e)
  BY TwoEnds
<1>2. \A g \in Ends : PlainEnd(use, as'[g])
  BY <1>1 DEF PlainInv
<1>3. \A g \in Ends : Quiet(use, g) => Still(as'[g])
  BY <1>1 DEF PlainInv
<1> QED
  BY <1>2, <1>3 DEF PlainInv

LEMMA PlainEndSame ==
  ASSUME NEW u, NEW a, NEW c, SameAsker(a, c), SameAnswerer(a, c)
  PROVE  (PlainEnd(u, a) => PlainEnd(u, c)) /\ (Still(a) => Still(c))
<1>1. PlainEnd(u, a) => PlainEnd(u, c)
  BY DEF PlainEnd, SameAsker, SameAnswerer
<1>2. Still(a) => Still(c)
  BY DEF Still, SameAsker
<1> QED
  BY <1>1, <1>2

\* A step that asks for nothing and answers nothing.
LEMMA PlainSame ==
  ASSUME PlainInv, use' = use, NEW e \in Ends, as'[Other(e)] = as[Other(e)], DOMAIN as' = Ends,
         SameAsker(as[e], as'[e]), SameAnswerer(as[e], as'[e]),
         \A m \in wire' : m \in wire \/ IsData(m) \/ m = Reconf(e, as[e].strReset)
  PROVE  PlainInv'
<1>2. PlainEnd(use, as[e]) /\ PlainWire(use, wire) /\ (Quiet(use, e) => Still(as[e]))
  BY DEF PlainInv
<1>3. PlainEnd(use, as'[e]) /\ (Quiet(use, e) => Still(as'[e]))
  BY <1>2, PlainEndSame
<1>4. PlainWire(use, wire')
  <2> SUFFICES ASSUME NEW m \in wire', ~IsData(m), NEW q \in Rng(m.params)
               PROVE  q.type = "RESP" \/ Asks(use, q)
    BY DEF PlainWire
  <2>1. CASE m \in wire
    BY <1>2, <2>1 DEF PlainWire
  <2>2. CASE m = Reconf(e, as[e].strReset)
    <3>1. m.params = as[e].strReset
      BY <2>2, NotData
    <3> QED
      BY <1>2, <3>1 DEF PlainEnd
  <2> QED
    BY <2>1, <2>2
<1> QED
  BY <1>3, <1>4, PlainStep

LEMMA PlainOf ==
  ASSUME PlainUsers, PlainInv
  PROVE  /\ \A e \in Ends : use.resets[e] \subseteq {"out"} /\ use.adds[e] \subseteq {"out"}
         /\ NoDenial(use) => use.deny = {} /\ \A e \in Ends : use.adds[e] = {}
         /\ NoDenial(use) \/ \E f \in Ends : Quiet(use, f)
<1>1. PlainUser(use)
  BY DEF PlainUsers, PlainInv
<1>2. ASSUME NEW f \in Ends, Quiet(use, f), NEW e \in Ends PROVE use.adds[e] \subseteq {"out"}
  BY <1>2, TwoEnds DEF Quiet
<1>3. \A e \in Ends : use.adds[e] \subseteq {"out"}
  BY <1>1, <1>2 DEF PlainUser, NoDenial
<1> QED
  BY <1>1, <1>3 DEF PlainUser, NoDenial

\* A request of the user.
LEMMA PlainAsk ==
  ASSUME LinkInv, PlainInv, NEW e \in Ends, NEW q, Ask(e, <<q>>), Asks(use, q), ~Quiet(use, e)
  PROVE  PlainInv'
<1> DEFINE ps == <<q>>
           c == SendRequest(as[e], ps)
<1>1. /\ over = "no" /\ use' = use /\ wire' = wire \cup {Reconf(e, ps)}
      /\ as' = [as EXCEPT ![e] = c] /\ DOMAIN as = Ends /\ LinkOf(as, wire)
  BY DEF Ask, Idle, LinkInv, Link
<1>2. IsAssoc(as[e])
  BY <1>1 DEF LinkOf, EndOK
<1>3. SendFields(as[e], c, ps)
  BY <1>2, SendRequestIs
<1>4. Rng(ps) = {q}
  BY RngSmall
<1> HIDE DEF c, ps
<1>5. as'[e] = c /\ as'[Other(e)] = as[Other(e)] /\ DOMAIN as' = Ends
  BY <1>1, OneChanged
<1>6. PlainEnd(use, as[e]) /\ PlainWire(use, wire)
  BY DEF PlainInv
<1>7. c.strReset = ps /\ c.actions = as[e].actions
  BY <1>3 DEF SendFields, SameAnswerer
<1>8. PlainEnd(use, c)
  BY <1>4, <1>6, <1>7 DEF PlainEnd
<1>9. PlainWire(use, wire')
  <2>1. Reconf(e, ps).params = ps
    BY NotData
  <2> QED
    BY <1>1, <1>4, <1>6, <2>1 DEF PlainWire
<1> QED
  BY <1>1, <1>5, <1>8, <1>9, PlainStep

LEMMA PlainResets ==
  ASSUME PlainUsers, LinkInv, PlainInv, NEW e \in Ends, NEW way \in use.resets[e],
         NEW list \in Lists, ResetStreams(e, way, list)
  PROVE  PlainInv'
<1> DEFINE out == OutReq(as[e].seqOut, as[e].seqIn - 1, as[e].tsn - 1, list)
<1>1. way = "out" /\ ~Quiet(use, e)
  BY PlainOf DEF Quiet
<1>2. Ask(e, <<out>>)
  BY <1>1 DEF ResetStreams
<1>3. Asks(use, out)
  BY DEF Asks, OutReq
<1> HIDE DEF out
<1> QED
  BY <1>1, <1>2, <1>3, PlainAsk

LEMMA PlainAdds ==
  ASSUME PlainUsers, LinkInv, PlainInv, NEW e \in Ends, NEW way \in use.adds[e], AddStreams(e, way)
  PROVE  PlainInv'
<1> DEFINE out == AddOut(as[e].seqOut, 1)
<1>1. way = "out" /\ ~Quiet(use, e) /\ ~NoDenial(use)
  BY PlainOf DEF Quiet
<1>2. Ask(e, <<out>>)
  BY <1>1 DEF AddStreams
<1>3. Asks(use, out)
  BY <1>1 DEF Asks, AddOut
<1> HIDE DEF out
<1> QED
  BY <1>1, <1>2, <1>3, PlainAsk

LEMMA PlainReconf ==
  ASSUME PlainUsers, LinkInv, PlainInv, NEW m \in wire, NEW ok \in BOOLEAN,
         NEW keep \in BOOLEAN, RecvReconf(m.to, m, ok, keep)
  PROVE  PlainInv'
<1> DEFINE e == m.to
           f == Other(e)
           b == HandleParams(as[e], m.params, ok)
           c == Flush(b)
<1>0. /\ over = "no" /\ ~IsData(m) /\ LinkOf(as, wire) /\ DOMAIN as = Ends /\ use' = use
      /\ ok \/ e \in use.deny
  BY DEF RecvReconf, LinkInv, Link
<1>1. e \in Ends /\ m \in To(e, wire)
  BY <1>0 DEF LinkOf, To
<1>2. as' = [as EXCEPT ![e] = c]
  BY DEF RecvReconf, Flush
<1>4. wire' \subseteq wire \cup SentBack(e, b)
  BY DEF RecvReconf, SentBack
<1>5. ChunkOK(m.params, as[e].seqIn) /\ DOMAIN as[e] = Fields
  <2>1. f \in Ends /\ Other(f) = e
    BY <1>1, TwoEnds
  <2> QED
    BY <1>0, <1>1, <2>1 DEF LinkOf, EndOK, IsAssoc
<1>6. DOMAIN b = Fields
  BY <1>5, HandledFields DEF ChunkOK
<1>7. c = Flush(b) /\ b = HandleParams(as[e], m.params, ok)
  OBVIOUS
<1> HIDE DEF b, c, e
<1>8. c.strReset = b.strReset /\ c.actions = b.actions /\ (Still(b) => Still(c))
  <2>1. SameAsker(b, c) /\ SameAnswerer(b, c)
    BY <1>6, <1>7, Flushed
  <2> QED
    BY <2>1 DEF SameAsker, SameAnswerer, Still
<1>9. as'[e] = c /\ as'[f] = as[f] /\ DOMAIN as' = Ends
  BY <1>0, <1>1, <1>2, OneChanged
<1>10. PlainEnd(use, as[e]) /\ PlainWire(use, wire) /\ (Quiet(use, e) => Still(as[e]))
  BY <1>1 DEF PlainInv
<1>11. Pair(as[e], as[f], SentTo(f, wire, as[e]), SentTo(e, wire, as[f])) /\ EndOK(as[e])
  BY <1>0, <1>1, LinkPair
<1>12. Rng(m.params) \subseteq SentTo(e, wire, as[f])
  BY <1>1, SentIs
<1>13. \A q \in Rng(m.params) : q.type = "RESP" \/ Asks(use, q)
  BY <1>0, <1>10 DEF PlainWire
<1>14. PlainlyAll(use, as[e], b, ok)
  BY <1>5, <1>7, <1>11, <1>12, <1>13, PlainParams
<1>15. Rng(as[e].reply) = {} /\ as[e].more = <<>>
  BY <1>11, RngSmall DEF EndOK
<1>16. /\ b.more = <<>> /\ (\A q \in Rng(b.reply) : q.type = "RESP")
  BY <1>14, <1>15 DEF PlainlyAll
<1>17. PlainEnd(use, c)
  <2>1. \A q \in Rng(c.strReset) : Asks(use, q)
    BY <1>8, <1>10, <1>14, RngSmall DEF PlainlyAll, PlainEnd
  <2>2. ASSUME NoDenial(use) PROVE c.actions[1] # "denied"
    <3>1. ok
      BY <1>0, <2>2 DEF NoDenial
    <3>2. b.actions[1] \in {as[e].actions[1], "performed"} /\ as[e].actions[1] # "denied"
      BY <1>10, <1>14, <2>2, <3>1 DEF PlainlyAll, PlainEnd
    <3> QED
      BY <1>8, <3>2
  <2> QED
    BY <2>1, <2>2 DEF PlainEnd
<1>18. Quiet(use, e) => Still(c)
  BY <1>8, <1>10, <1>14 DEF PlainlyAll
<1>19. PlainWire(use, wire')
  <2>1. \A n \in wire' : n \in wire \/ n = Reconf(e, b.reply)
    BY <1>4, <1>16 DEF SentBack
  <2>2. Reconf(e, b.reply).params = b.reply
    BY NotData
  <2> QED
    BY <1>10, <1>16, <2>1, <2>2 DEF PlainWire
<1> QED
  BY <1>0, <1>1, <1>9, <1>17, <1>18, <1>19, PlainStep

LEMMA PlainTimer ==
  ASSUME LinkInv, PlainInv, NEW e \in Ends, TimerExpires(e)
  PROVE  PlainInv'
<1>0. over = "no" /\ use' = use /\ LinkOf(as, wire) /\ DOMAIN as = Ends
  BY DEF TimerExpires, LinkInv, Link
<1>1. DOMAIN as[e] = Fields
  BY <1>0 DEF LinkOf, EndOK, IsAssoc
<1>1a. PlainEnd(use, as[e]) /\ PlainWire(use, wire) /\ (Quiet(use, e) => Still(as[e]))
  BY DEF PlainInv
<1>2. CASE as[e].outstanding = 0 \/ as[e].strReset = <<>>
  <2> DEFINE c == [as[e] EXCEPT !.timer = FALSE, !.outstanding = 0]
  <2>1. as' = [as EXCEPT ![e] = c] /\ wire' = wire
    BY <1>2 DEF TimerExpires
  <2>2. /\ c.strReset = as[e].strReset /\ c.actions = as[e].actions
        /\ c.outstanding = 0 /\ c.outIs = as[e].outIs
    BY <1>1 DEF Fields
  <2> HIDE DEF c
  <2>3. as'[e] = c /\ as'[Other(e)] = as[Other(e)] /\ DOMAIN as' = Ends
    BY <1>0, <2>1, OneChanged
  <2>4. PlainEnd(use, c) /\ (Quiet(use, e) => Still(c))
    BY <1>1a, <2>2 DEF PlainEnd, Still
  <2> QED
    BY <1>0, <1>1a, <2>1, <2>3, <2>4, PlainStep
<1>3. CASE ~(as[e].outstanding = 0 \/ as[e].strReset = <<>>)
  <2>1. as' = as /\ (wire' = wire \/ wire' = wire \cup {Reconf(e, as[e].strReset)})
    BY <1>3 DEF TimerExpires
  <2>2. SameAsker(as[e], as'[e]) /\ SameAnswerer(as[e], as'[e]) /\ DOMAIN as' = Ends
        /\ as'[Other(e)] = as[Other(e)]
    BY <1>0, <2>1 DEF SameAsker, SameAnswerer
  <2>3. \A m \in wire' : m \in wire \/ IsData(m) \/ m = Reconf(e, as[e].strReset)
    BY <2>1
  <2> QED
    BY <1>0, <2>2, <2>3, PlainSame
<1> QED
  BY <1>2, <1>3

LEMMA NextPlain ==
  ASSUME PlainUsers, LinkInv, PlainInv, [Next]_vars
  PROVE  PlainInv'
<1>1. ASSUME NEW e \in Ends, NEW s \in DataStreams, SendData(e, s) PROVE PlainInv'
  <2> DEFINE c == [as[e] EXCEPT !.tsn = @ + 1, !.next[s] = @ + 1]
             m == Data(e, as[e].tsn, s, as[e].next[s])
  <2>0. LinkOf(as, wire) /\ EndOK(as[e]) /\ use' = use /\ DOMAIN as = Ends
    BY <1>1 DEF LinkInv, SendData, Idle, Link, LinkOf
  <2>1. as' = [as EXCEPT ![e] = c] /\ wire' = wire \cup {m}
    BY <1>1 DEF SendData
  <2>2. SameAsker(as[e], c) /\ SameAnswerer(as[e], c) /\ IsData(m)
    BY <2>0, SendDataSame DEF Data, IsData
  <2> HIDE DEF c, m
  <2>3. as'[e] = c /\ as'[Other(e)] = as[Other(e)] /\ DOMAIN as' = Ends
    BY <2>0, <2>1, OneChanged
  <2> QED
    BY <2>0, <2>1, <2>2, <2>3, PlainSame
<1>2. CASE \E e \in Ends : \E way \in use.resets[e], list \in Lists : ResetStreams(e, way, list)
  BY <1>2, PlainResets
<1>3. CASE \E e \in Ends : \E way \in use.adds[e] : AddStreams(e, way)
  BY <1>3, PlainAdds
<1>4. CASE \E m \in wire, ok, keep \in BOOLEAN : RecvReconf(m.to, m, ok, keep)
  BY <1>4, PlainReconf
<1>5. ASSUME NEW m \in wire, RecvData(m.to, m) PROVE PlainInv'
  <2> DEFINE e == m.to
             c == ProcessData(as[e], m)
  <2>0. /\ over = "no" /\ use' = use /\ LinkOf(as, wire) /\ DOMAIN as = Ends
        /\ wire' = wire \ {m} /\ as' = [as EXCEPT ![e] = c]
    BY <1>5 DEF RecvData, LinkInv, Link
  <2>1. e \in Ends
    BY <2>0 DEF LinkOf
  <2>2. DOMAIN as[e] = Fields
    BY <2>0, <2>1 DEF LinkOf, EndOK, IsAssoc
  <2>3. SameControl(as[e], c)
    BY <2>2, ProcessDataControl
  <2> HIDE DEF c, e
  <2>4. as'[e] = c /\ as'[Other(e)] = as[Other(e)] /\ DOMAIN as' = Ends
    BY <2>0, <2>1, OneChanged
  <2>5. SameAsker(as[e], as'[e]) /\ SameAnswerer(as[e], as'[e])
    BY <2>3, <2>4 DEF SameControl, SameAsker, SameAnswerer
  <2> QED
    BY <2>0, <2>1, <2>4, <2>5, PlainSame
<1>6. CASE \E e \in Ends : TimerExpires(e)
  BY <1>6, PlainTimer
<1>7. CASE \E m \in wire : Lose(m)
  BY <1>7 DEF Lose, PlainInv, PlainWire
<1>8. CASE UNCHANGED vars
  BY <1>8 DEF vars, PlainInv
<1> QED
  BY <1>1, <1>2, <1>3, <1>4, <1>5, <1>6, <1>7, <1>8, StrResetAssumption DEF Next

LEMMA InitPlain == Init => PlainInv
<1> SUFFICES ASSUME Init PROVE PlainInv
  OBVIOUS
<1>1. use \in Profiles /\ DOMAIN as = Ends /\ wire = {}
  BY DEF Init
<1>2. ASSUME NEW e \in Ends
      PROVE  /\ as[e].outstanding = 0 /\ as[e].outIs = FALSE /\ as[e].strReset = <<>>
             /\ as[e].actions = <<"none", "none">>
  BY DEF Init
<1>3. ASSUME NEW e \in Ends PROVE PlainEnd(use, as[e]) /\ Still(as[e])
  <2> DEFINE a == as[e]
  <2>1. /\ a.outstanding = 0 /\ a.outIs = FALSE /\ a.strReset = <<>>
        /\ a.actions = <<"none", "none">>
    BY <1>2
  <2> HIDE DEF a
  <2>2. Rng(a.strReset) = {}
    BY <2>1, RngSmall
  <2>3. a.actions[1] = "none"
    BY <2>1
  <2> QED
    BY <2>1, <2>2, <2>3 DEF PlainEnd, Still, a
<1> QED
  BY <1>1, <1>3 DEF PlainInv, PlainWire

LEMMA PlainAlone == PlainInv => Alone
<1> SUFFICES ASSUME PlainInv, NEW e \in Ends PROVE AnsweredAlone(as[e])
  BY DEF Alone
<1>1. \A q \in Rng(as[e].strReset) : q.type # "RESP"
  BY DEF PlainInv, PlainEnd, Asks
<1>2. \A i \in 1..Len(as[e].strReset) : as[e].strReset[i].type # "RESP"
  BY <1>1 DEF Rng
<1> QED
  BY <1>2 DEF AnsweredAlone

\* What the users do is fixed.
LEMMA UserStays ==
  ASSUME [Next]_vars
  PROVE  use' = use
<1>1. ASSUME NEW e, NEW s, SendData(e, s) PROVE use' = use
  BY <1>1 DEF SendData
<1>2. ASSUME NEW e, NEW way, NEW list, ResetStreams(e, way, list) PROVE use' = use
  BY <1>2 DEF ResetStreams, Ask
<1>3. ASSUME NEW e, NEW way, AddStreams(e, way) PROVE use' = use
  BY <1>3 DEF AddStreams, Ask
<1>4. ASSUME NEW m, NEW ok, NEW keep, RecvReconf(m.to, m, ok, keep) PROVE use' = use
  BY <1>4 DEF RecvReconf
<1>5. ASSUME NEW m, RecvData(m.to, m) PROVE use' = use
  BY <1>5 DEF RecvData
<1>6. ASSUME NEW e, TimerExpires(e) PROVE use' = use
  BY <1>6 DEF TimerExpires
<1>7. ASSUME NEW m, Lose(m) PROVE use' = use
  BY <1>7 DEF Lose
<1> QED
  BY <1>1, <1>2, <1>3, <1>4, <1>5, <1>6, <1>7 DEF Next, vars

LEMMA PlainNames ==
  ASSUME PlainUsers, PlainInv, PlainInv', use' = use
  PROVE  NamesNoDenied
<1> SUFFICES ASSUME NEW e \in Ends, as'[e].outIs
             PROVE  as'[e].actions[1] # "denied" \/ as[Other(e)].outstanding = 0
  BY DEF NamesNoDenied
<1>1. CASE NoDenial(use)
  BY <1>1 DEF PlainInv, PlainEnd
<1>2. ASSUME NEW f \in Ends, Quiet(use, f) PROVE as[Other(e)].outstanding = 0
  <2>1. Still(as[f]) /\ Still(as'[f])
    BY <1>2 DEF PlainInv
  <2>2. f # e
    BY <2>1 DEF Still
  <2>3. f = Other(e)
    BY <2>2, TwoEnds
  <2> QED
    BY <2>1, <2>3 DEF Still
<1> QED
  BY <1>1, <1>2, PlainOf

\* Users that ask for outgoing resets and outgoing streams only, where nothing is denied
\* or only one of them asks, keep to both hypotheses: no answer carries a request, and no
\* reset names a denied one (sctp_handle_stream_reset, sctp_send_str_reset_req).
THEOREM PlainHolds ==
  ASSUME PlainUsers
  PROVE  Spec => [](LinkInv /\ PlainInv) /\ []Alone /\ [][NamesNoDenied]_vars
<1>1. Init => LinkInv /\ PlainInv
  BY InitLink, InitPlain
<1>2. LinkInv /\ PlainInv /\ [Next]_vars => PlainInv'
  BY NextPlain
<1>3. LinkInv /\ PlainInv /\ PlainInv' /\ [Next]_vars => [NamesNoDenied]_vars
  <2> SUFFICES ASSUME LinkInv, PlainInv, PlainInv', [Next]_vars PROVE [NamesNoDenied]_vars
    OBVIOUS
  <2>1. use' = use
    BY UserStays
  <2> QED
    BY <2>1, PlainNames
<1>4. PlainInv => Alone
  BY PlainAlone
<1>5. LinkInv /\ Alone' /\ [NamesNoDenied]_vars /\ [Next]_vars => LinkInv'
  <2> SUFFICES ASSUME LinkInv, Alone', [NamesNoDenied]_vars, [Next]_vars PROVE LinkInv'
    OBVIOUS
  <2>3. CASE NamesNoDenied
    BY <2>3, NextLink
  <2>4. CASE UNCHANGED vars
    BY <2>4 DEF vars, LinkInv, Link, PerformedAtPeer
  <2> QED
    BY <2>3, <2>4
<1> QED
  BY <1>1, <1>2, <1>3, <1>4, <1>5, PTL DEF Spec

\* For these users, what an endpoint takes for done its peer did, without a hypothesis on
\* the behaviour (sctp_handle_stream_reset_response).
THEOREM OutgoingPerformed ==
  ASSUME PlainUsers
  PROVE  Spec => []PerformedAtPeer
  BY PlainHolds, PerformedSafe, PTL

\* For these users, data on one stream is delivered in the order it was sent in, whatever
\* is lost, repeated or reordered (sctp_queue_data_to_stream, sctp_process_a_data_chunk).
THEOREM OutgoingInOrder ==
  ASSUME PlainUsers, OneStream
  PROVE  Spec => []InOrder
  BY PlainHolds, InOrderSafe, PTL

=============================================================================

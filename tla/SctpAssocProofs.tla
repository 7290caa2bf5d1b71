--------------------------- MODULE SctpAssocProofs ---------------------------
(***************************************************************************)
(* Theorems about SctpAssoc for every value of its constants.  The lemmas  *)
(* follow the way handlers are put together: first the operators that      *)
(* change a TCB or build a packet, then the two ways a handler ends (Put   *)
(* and Output), then one lemma per group of actions.                       *)
(***************************************************************************)
EXTENDS SctpAssoc, WellFoundedInduction, TLAPS

-----------------------------------------------------------------------------
(***************************************************************************)
(* The mapping arrays.                                                     *)
(***************************************************************************)
(* sctp_slide_mapping_arrays finds a prefix: some offset is the last of the *)
(* leading marks, because offsets above MaxMsgs are never marked.           *)
LEMMA SlideDefined ==
  ASSUME NEW map \in SUBSET (1 .. MaxMsgs)
  PROVE  /\ sctp_slide_mapping_arrays(map) \in 0 .. MaxMsgs
         /\ 1 .. sctp_slide_mapping_arrays(map) \subseteq map
<1> DEFINE Gaps == {k \in Nat : k + 1 \notin map}
<1>1. MaxMsgs \in Nat
  BY BoundAssumption
<1>2. MaxMsgs \in Gaps
  BY <1>1
<1>3. PICK k \in Gaps : \A j \in Gaps : ~(<<j, k>> \in OpToRel(<, Nat))
  BY <1>2, NatLessThanWellFounded, WFMin
<1>4. \A j \in Gaps : ~(j < k)
  BY <1>3 DEF OpToRel
<1>5. k \in 0 .. MaxMsgs
  BY <1>1, <1>2, <1>4
<1>6. 1 .. k \subseteq map
  <2> SUFFICES ASSUME NEW i \in 1 .. k PROVE i \in map
    OBVIOUS
  <2>1. i - 1 \in Nat /\ i - 1 < k /\ (i - 1) + 1 = i
    BY <1>5, <1>1
  <2>2. i - 1 \notin Gaps
    BY <2>1, <1>4
  <2> QED
    BY <2>1, <2>2
<1>7. k + 1 \notin map
  OBVIOUS
<1> HIDE DEF Gaps
<1> QED
  BY <1>5, <1>6, <1>7 DEF sctp_slide_mapping_arrays

-----------------------------------------------------------------------------
(***************************************************************************)
(* Operators on a TCB keep its type.                                       *)
(***************************************************************************)
LEMMA Bounds ==
  /\ MaxMsgs \in Nat /\ MaxTag \in Nat /\ MaxTcb \in Nat
  /\ MaxBoot \in Nat /\ MaxInitTimes \in Nat /\ MaxSendTimes \in Nat
  BY BoundAssumption

LEMMA ZeroInRange == 0 \in 0 .. MaxMsgs /\ {} \in SUBSET (1 .. MaxMsgs)
  BY Bounds

LEMMA NoCookieType == NoCookie \in Cookie
  BY DEF NoCookie, Cookie

LEMMA ClosedType == Closed \in Tcb
  BY NoCookieType, Bounds DEF Closed, Tcb, State, FrontState, RxtType

LEMMA NewTcbType ==
  ASSUME NEW tag \in Nat, NEW nonce \in Nat
  PROVE  NewTcb(tag, nonce) \in Tcb
  BY ClosedType DEF NewTcb, Tcb

LEMMA TimerTypes ==
  ASSUME NEW t \in Tcb
  PROVE  /\ \A type \in RxtType : /\ sctp_timer_start(t, type) \in Tcb
                                  /\ sctp_timer_stop(t, type) \in Tcb
         /\ sctp_toss_old_cookies(t) \in Tcb
         /\ StartGuard(t) \in Tcb
         /\ Expired(t) \in Tcb
         /\ MoveToOpen(t) \in Tcb
<1> USE NoCookieType DEF Tcb, State, FrontState, RxtType
<1>1. ASSUME NEW type \in RxtType PROVE sctp_timer_start(t, type) \in Tcb
  BY DEF sctp_timer_start
<1>2. ASSUME NEW type \in RxtType PROVE sctp_timer_stop(t, type) \in Tcb
  BY DEF sctp_timer_stop
<1>3. sctp_toss_old_cookies(t) \in Tcb
  BY DEF sctp_toss_old_cookies
<1>4. StartGuard(t) \in Tcb
  BY DEF StartGuard
<1>5. Expired(t) \in Tcb
  BY DEF Expired
<1>6. MoveToOpen(t) \in Tcb
  BY DEF MoveToOpen
<1> QED
  BY <1>1, <1>2, <1>3, <1>4, <1>5, <1>6

LEMMA CountedType == ASSUME NEW t \in Tcb PROVE Counted(t) \in Tcb
  BY TimerTypes DEF Counted, Tcb

LEMMA StopAllType ==
  ASSUME NEW t \in Tcb PROVE sctp_stop_all_cookie_timers(t) \in Tcb
<1>1. \A u \in Tcb : \A type \in RxtType : sctp_timer_stop(u, type) \in Tcb
  BY TimerTypes
<1> QED
  BY <1>1 DEF sctp_stop_all_cookie_timers, RxtType

LEMMA ChunkOutputType ==
  ASSUME NEW t \in Tcb PROVE sctp_chunk_output(t) \in Tcb
  BY TimerTypes DEF sctp_chunk_output, RxtType

LEMMA ProcessInitType ==
  ASSUME NEW t \in Tcb, NEW tag \in Nat, NEW seq \in Nat
  PROVE  sctp_process_init(t, tag, seq) \in Tcb
  BY ZeroInRange DEF sctp_process_init, Tcb

LEMMA ToShutdownTypes ==
  ASSUME NEW t \in Tcb
  PROVE  /\ ToShutdownSent(t) \in Tcb
         /\ ToShutdownAckSent(t) \in Tcb
         /\ ShutdownIssues(t) \in Tcb
<1>1. /\ [t EXCEPT !.state = "SHUTDOWN_SENT", !.pending = FALSE] \in Tcb
      /\ [t EXCEPT !.state = "SHUTDOWN_ACK_SENT", !.pending = FALSE] \in Tcb
  BY DEF Tcb, State
<1>2. ToShutdownSent(t) \in Tcb
  <2> DEFINE u == [t EXCEPT !.state = "SHUTDOWN_SENT", !.pending = FALSE]
             v == sctp_timer_start(u, "SHUTDOWN")
  <2>1. v \in Tcb
    BY <1>1, TimerTypes DEF RxtType
  <2> HIDE DEF v
  <2>2. StartGuard(v) \in Tcb
    BY <2>1, TimerTypes
  <2> QED
    BY <2>2 DEF ToShutdownSent, v
<1>3. ToShutdownAckSent(t) \in Tcb
  BY <1>1, TimerTypes DEF ToShutdownAckSent, RxtType
<1> QED
  BY <1>2, <1>3 DEF ShutdownIssues

LEMMA SackType ==
  ASSUME NEW t \in Tcb, NEW m \in Packet
  PROVE  sctp_express_handle_sack(t, m) \in Tcb
<1> DEFINE u == [t EXCEPT !.acked = m.num, !.err = 0]
           v == IF Drained(u) THEN sctp_timer_stop(u, "SEND") ELSE u
<1>1. u \in Tcb
  BY DEF Tcb, Packet
<1> HIDE DEF u
<1>2. v \in Tcb
  BY <1>1, TimerTypes DEF RxtType
<1> HIDE DEF v
<1>3. ShutdownIssues(v) \in Tcb
  BY <1>2, ToShutdownTypes
<1> QED
  BY <1>3 DEF sctp_express_handle_sack, u, v

LEMMA ProcessDataType ==
  ASSUME NEW t \in Tcb, NEW seq \in Nat, NEW ks \in SUBSET (0 .. MaxMsgs)
  PROVE  /\ sctp_process_data(t, seq, ks) \in Tcb
         /\ Fresh(t, seq, ks) \subseteq 1 .. MaxMsgs
<1> DEFINE new == Fresh(t, seq, ks)
           map == t.map \cup new
<1>1. new \subseteq 1 .. MaxMsgs
  <2>1. t.rcum \in 0 .. MaxMsgs
    BY DEF Tcb
  <2>2. ASSUME NEW k \in new PROVE k \in 0 .. MaxMsgs /\ k > t.rcum
    BY DEF Fresh
  <2> HIDE DEF new
  <2> QED
    BY <2>1, <2>2, Bounds
<1>2. t.map \in SUBSET (1 .. MaxMsgs)
  BY DEF Tcb
<1>3. map \in SUBSET (1 .. MaxMsgs)
  BY <1>1, <1>2
<1> HIDE DEF new, map
<1>4. sctp_slide_mapping_arrays(map) \in 0 .. MaxMsgs
  BY <1>3, SlideDefined
<1>5. [t EXCEPT !.map = map, !.rcum = sctp_slide_mapping_arrays(map),
                !.err = IF new = {} THEN @ ELSE 0] \in Tcb
  BY <1>3, <1>4 DEF Tcb
<1> QED
  BY <1>1, <1>5 DEF sctp_process_data, new, map

LEMMA CookieCaseTypes ==
  ASSUME NEW t \in Tcb, NEW c \in Cookie
  PROVE  /\ CookieD(t, c) \in Tcb
         /\ CookieB(t, c) \in Tcb
         /\ CookieA(t, c) \in Tcb
         /\ RestartBegin(t) \in Tcb
         /\ RestartEnd(t, c) \in Tcb
<1>1. c.my \in Nat /\ c.peer \in Nat /\ c.myseq \in Nat /\ c.peerseq \in Nat
  BY DEF Cookie
<1>2. sctp_timer_stop(t, "INIT") \in Tcb
  BY TimerTypes DEF RxtType
<1>3. CookieD(t, c) \in Tcb
  BY <1>1, <1>2, ProcessInitType, TimerTypes DEF CookieD
<1>4. CookieB(t, c) \in Tcb
  BY <1>1, StopAllType, ProcessInitType, TimerTypes DEF CookieB
<1>5. RestartBegin(t) \in Tcb
  <2> DEFINE u == sctp_timer_stop(t, "INIT")
             v == IF t.pending \/ t.state # "SHUTDOWN_SENT"
                  THEN MoveToOpen(u) ELSE u
  <2>1. v \in Tcb
    BY <1>2, TimerTypes
  <2>2. RestartBegin(t) = [v EXCEPT !.map = {}]
    BY DEF RestartBegin
  <2> HIDE DEF v
  <2> QED
    BY <2>1, <2>2, ZeroInRange DEF Tcb
<1>6. ASSUME NEW b \in Tcb PROVE RestartEnd(b, c) \in Tcb
  <2> DEFINE w == [b EXCEPT !.my_vtag = c.my, !.init_seq = c.myseq,
                            !.out = 0, !.acked = 0, !.late = FALSE]
  <2>1. w \in Tcb
    BY <1>1, ZeroInRange DEF Tcb
  <2> HIDE DEF w
  <2>2. sctp_process_init(w, c.peer, c.peerseq) \in Tcb
    BY <2>1, <1>1, ProcessInitType
  <2> QED
    BY <2>2 DEF RestartEnd, w
<1>7. CookieA(t, c) \in Tcb
  BY <1>5, <1>6 DEF CookieA
<1> QED
  BY <1>3, <1>4, <1>5, <1>6, <1>7

LEMMA CookieAckTypes ==
  ASSUME NEW t \in Tcb
  PROVE  /\ sctp_handle_cookie_ack(t) \in Tcb
         /\ ImpliedCookieAck(t) \in Tcb
<1> DEFINE u == sctp_stop_all_cookie_timers(t)
           v == IF t.state = "COOKIE_ECHOED" THEN MoveToOpen(u) ELSE u
<1>1. v \in Tcb
  BY StopAllType, TimerTypes
<1> HIDE DEF v
<1>2. [v EXCEPT !.err = 0] \in Tcb
  BY <1>1 DEF Tcb
<1>3. sctp_handle_cookie_ack(t) \in Tcb
  BY <1>2, TimerTypes DEF sctp_handle_cookie_ack, v
<1> QED
  BY <1>3 DEF ImpliedCookieAck

-----------------------------------------------------------------------------
(***************************************************************************)
(* What the handlers send are packets.                                     *)
(***************************************************************************)
LEMMA PeerType == ASSUME NEW n \in Node PROVE Peer(n) \in Node
  BY DEF Peer, Node

LEMMA PktType ==
  ASSUME NEW type \in ChunkType, NEW to \in Node, NEW vtag \in Nat
  PROVE  Pkt(type, to, vtag) \in Packet
  BY NoCookieType, ZeroInRange DEF Pkt, Packet

LEMMA ChunkIsPacket ==
  ASSUME NEW n \in Node, NEW t \in Tcb, NEW type \in ChunkType
  PROVE  Chunk(n, t, type) \in Packet
<1>1. t.peer_vtag \in Nat
  BY DEF Tcb
<1> QED
  BY <1>1, PktType, PeerType DEF Chunk

LEMMA PacketTypes ==
  ASSUME NEW n \in Node, NEW t \in Tcb
  PROVE  /\ Init_(n, t) \in Packet
         /\ \A k \in 0 .. MaxMsgs : CookieEcho(n, t, k) \in Packet
         /\ Sack(n, t) \in Packet
         /\ Shutdown_(n, t) \in Packet
         /\ \A k \in 0 .. MaxMsgs : Data(n, t, k) \in Packet
<1>1. /\ t.my_vtag \in Nat /\ t.init_seq \in Nat /\ t.peer_seq \in Nat
      /\ t.rcum \in 0 .. MaxMsgs /\ t.cookie \in Cookie
  BY DEF Tcb
<1>2. /\ Pkt("INIT", Peer(n), 0) \in Packet
      /\ Chunk(n, t, "COOKIE_ECHO") \in Packet
      /\ Chunk(n, t, "SACK") \in Packet
      /\ Chunk(n, t, "SHUTDOWN") \in Packet
      /\ Chunk(n, t, "DATA") \in Packet
  BY ChunkIsPacket, PktType, PeerType DEF ChunkType
<1>3. Init_(n, t) \in Packet
  BY <1>1, <1>2 DEF Init_, Packet
<1>4. ASSUME NEW k \in 0 .. MaxMsgs PROVE CookieEcho(n, t, k) \in Packet
  BY <1>1, <1>2 DEF CookieEcho, Packet
<1>5. Sack(n, t) \in Packet
  BY <1>1, <1>2 DEF Sack, Packet
<1>6. Shutdown_(n, t) \in Packet
  BY <1>1, <1>2 DEF Shutdown_, Packet
<1>7. ASSUME NEW k \in 0 .. MaxMsgs PROVE Data(n, t, k) \in Packet
  BY <1>1, <1>2 DEF Data, Packet
<1> QED
  BY <1>3, <1>4, <1>5, <1>6, <1>7

LEMMA ReflectType ==
  ASSUME NEW n \in Node, NEW m \in Packet, NEW type \in ChunkType
  PROVE  Reflect(n, m, type) \in Packet
<1>1. m.vtag \in Nat
  BY DEF Packet
<1>2. Pkt(type, Peer(n), m.vtag) \in Packet
  BY <1>1, PktType, PeerType
<1> QED
  BY <1>2 DEF Reflect, Packet

LEMMA InitAckType ==
  ASSUME TypeOK, NEW n \in Node, NEW m \in Packet, NEW tag \in Nat
  PROVE  InitAck(n, m, tag) \in Packet
<1>1. tcb[n].nonce \in Nat /\ key[n] \in Nat
  BY DEF TypeOK, Tcb
<1>2. m.tag \in Nat /\ m.seq \in Nat
  BY DEF Packet
<1> DEFINE c == [my |-> tag, peer |-> m.tag, myseq |-> tag, peerseq |-> m.seq,
                 tie |-> tcb[n].nonce, key |-> key[n]]
<1>3. c \in Cookie
  BY <1>1, <1>2 DEF Cookie
<1>4. Pkt("INIT_ACK", Peer(n), m.tag) \in Packet
  BY <1>2, PktType, PeerType DEF ChunkType
<1> HIDE DEF c
<1>5. [Pkt("INIT_ACK", Peer(n), m.tag) EXCEPT
         !.tag = tag, !.seq = tag, !.cookie = c] \in Packet
  BY <1>3, <1>4 DEF Packet
<1> QED
  BY <1>5 DEF InitAck, c

LEMMA OutputSetTypes ==
  ASSUME NEW n \in Node, NEW t \in Tcb, NEW u \in Tcb
  PROVE  /\ DataOut(n, t) \subseteq Packet
         /\ ShutdownPkts(n, u, t) \subseteq Packet
         /\ sctp_sack_check(n, t) \subseteq Packet
<1>1. DataOut(n, t) \subseteq Packet
  <2>1. t.acked \in 0 .. MaxMsgs /\ t.out \in 0 .. MaxMsgs
    BY DEF Tcb
  <2>2. (t.acked + 1) .. t.out \subseteq 0 .. MaxMsgs
    BY <2>1, Bounds
  <2> QED
    BY <2>2, PacketTypes DEF DataOut
<1>2. ShutdownPkts(n, u, t) \subseteq Packet
  BY PacketTypes, ChunkIsPacket DEF ShutdownPkts, ChunkType
<1>3. sctp_sack_check(n, t) \subseteq Packet
  BY PacketTypes DEF sctp_sack_check
<1> QED
  BY <1>1, <1>2, <1>3

-----------------------------------------------------------------------------
(***************************************************************************)
(* The ways a handler ends.                                                *)
(***************************************************************************)
TcbNetOK == tcb \in [Node -> Tcb] /\ net \subseteq Packet

LEMMA PutType ==
  ASSUME TypeOK, NEW n \in Node, NEW t \in Tcb, NEW ps \in SUBSET Packet,
         Put(n, t, ps)
  PROVE  TcbNetOK'
  BY DEF TypeOK, TcbNetOK, Put

LEMMA OutputType ==
  ASSUME TypeOK, NEW n \in Node, NEW t \in Tcb, NEW ps \in SUBSET Packet,
         Output(n, t, ps)
  PROVE  TcbNetOK'
  BY ChunkOutputType, OutputSetTypes DEF TypeOK, TcbNetOK, Output

LEMMA FreeType ==
  ASSUME TypeOK, NEW n \in Node, NEW ps \in SUBSET Packet,
         sctp_free_assoc(n, ps)
  PROVE  TcbNetOK'
  BY PutType, ClosedType DEF sctp_free_assoc

LEMMA AbortType ==
  ASSUME TypeOK, NEW n \in Node, NEW t \in Tcb,
         sctp_abort_an_association(n, t)
  PROVE  TcbNetOK'
  BY FreeType, ChunkIsPacket DEF sctp_abort_an_association, ChunkType

(* The other variables keep their type when an action leaves them alone. *)
RestOK ==
  /\ tags \in [Node -> Nat]
  /\ tcbs \in [Node -> Nat]
  /\ key \in [Node -> Nat]
  /\ dlv \subseteq [at : Node, nonce : Nat, seq : Nat, num : 0 .. MaxMsgs]
  /\ ended \subseteq [at : Node, seq : Nat, out : 0 .. MaxMsgs, late : BOOLEAN]

CoreOK == TcbNetOK /\ RestOK

LEMMA TypeParts == CoreOK' <=> TcbNetOK' /\ RestOK'
  BY DEF CoreOK

LEMMA RestUnchanged ==
  ASSUME TypeOK, UNCHANGED <<tags, tcbs, key, dlv, ended>>
  PROVE  RestOK'
  BY DEF TypeOK, RestOK

LEMMA ReceiveDataType ==
  ASSUME TypeOK, NEW n \in Node, NEW t \in Tcb, NEW seq \in Nat,
         NEW ks \in SUBSET (0 .. MaxMsgs), NEW ps \in SUBSET Packet,
         ReceiveData(n, t, seq, ks, ps)
  PROVE  /\ TcbNetOK'
         /\ dlv' \subseteq [at : Node, nonce : Nat, seq : Nat,
                            num : 0 .. MaxMsgs]
<1> DEFINE new == Fresh(t, seq, ks)
           u == sctp_process_data(t, seq, ks)
<1>1. u \in Tcb /\ new \subseteq 1 .. MaxMsgs
  BY ProcessDataType
<1>2. sctp_sack_check(n, u) \subseteq Packet
  BY <1>1, OutputSetTypes
<1>3. t.nonce \in Nat
  BY DEF Tcb
<1>4. dlv \subseteq [at : Node, nonce : Nat, seq : Nat, num : 0 .. MaxMsgs]
  BY DEF TypeOK
<1> HIDE DEF new, u
<1>5. CASE ~t.sock /\ new # {}
  <2>1. sctp_abort_an_association(n, t) /\ UNCHANGED dlv
    BY <1>5 DEF ReceiveData, new, u
  <2> QED
    BY <2>1, <1>4, AbortType
<1>6. CASE ~(~t.sock /\ new # {})
  <2>1. /\ Output(n, u, ps \cup sctp_sack_check(n, u))
        /\ dlv' = dlv \cup {[at |-> n, nonce |-> t.nonce,
                             seq |-> seq, num |-> k] : k \in new}
    BY <1>6 DEF ReceiveData, new, u
  <2>2. \A k \in new : k \in 0 .. MaxMsgs
    BY <1>1, Bounds
  <2>3. TcbNetOK'
    BY <2>1, <1>1, <1>2, OutputType
  <2> QED
    BY <2>1, <2>2, <2>3, <1>3, <1>4
<1> QED
  BY <1>5, <1>6

LEMMA AckCookieType ==
  ASSUME TypeOK, NEW n \in Node, NEW t \in Tcb, NEW m \in Packet,
         AckCookie(n, t, m)
  PROVE  /\ TcbNetOK'
         /\ dlv' \subseteq [at : Node, nonce : Nat, seq : Nat,
                            num : 0 .. MaxMsgs]
<1> DEFINE u == sctp_toss_old_cookies(sctp_stop_all_cookie_timers(t))
           ack == {Chunk(n, u, "COOKIE_ACK")}
<1>1. u \in Tcb
  BY StopAllType, TimerTypes
<1> HIDE DEF u
<1>2. ack \subseteq Packet
  BY <1>1, ChunkIsPacket DEF ChunkType
<1> HIDE DEF ack
<1>3. m.seq \in Nat /\ m.num \in 0 .. MaxMsgs
  BY DEF Packet
<1>4. CASE m.num > 0 /\ u.state \in {"OPEN", "SHUTDOWN_SENT"}
  <2>1. ReceiveData(n, u, m.seq, 1 .. m.num, ack)
    BY <1>4 DEF AckCookie, u, ack
  <2>2. 1 .. m.num \subseteq 0 .. MaxMsgs
    BY <1>3, Bounds
  <2> QED
    BY <2>1, <2>2, <1>1, <1>2, <1>3, ReceiveDataType
<1>5. CASE ~(m.num > 0 /\ u.state \in {"OPEN", "SHUTDOWN_SENT"})
  <2>1. Output(n, u, ack) /\ UNCHANGED dlv
    BY <1>5 DEF AckCookie, u, ack
  <2>2. dlv \subseteq [at : Node, nonce : Nat, seq : Nat, num : 0 .. MaxMsgs]
    BY DEF TypeOK
  <2> QED
    BY <2>1, <2>2, <1>1, <1>2, OutputType
<1> QED
  BY <1>4, <1>5

-----------------------------------------------------------------------------
(***************************************************************************)
(* TypeOK, one lemma per group of actions.                                 *)
(***************************************************************************)
LEMMA UserTypes ==
  ASSUME TypeOK, NEW n \in Node, User(n) \/ SendFinish(n)
  PROVE  CoreOK'
<1> DEFINE t == tcb[n]
<1>1. t \in Tcb
  BY DEF TypeOK
<1>2. \A u \in Tcb : \A done : StartShutdown(n, u, done) => TcbNetOK'
  <2> SUFFICES ASSUME NEW u \in Tcb, NEW done, StartShutdown(n, u, done)
               PROVE  TcbNetOK'
    OBVIOUS
  <2>1. [u EXCEPT !.pending = TRUE] \in Tcb
    BY DEF Tcb
  <2>2. StartGuard([u EXCEPT !.pending = TRUE]) \in Tcb
    BY <2>1, TimerTypes
  <2>3. ToShutdownSent(u) \in Tcb
    BY ToShutdownTypes
  <2>4. {Shutdown_(n, ToShutdownSent(u))} \subseteq Packet
    BY <2>3, PacketTypes
  <2> QED
    BY <2>2, <2>3, <2>4, OutputType DEF StartShutdown
<1>3. CASE Connect(n)
  <2> DEFINE u == [NewTcb(tags[n] + 1, tcbs[n] + 1)
                     EXCEPT !.state = "COOKIE_WAIT"]
             v == sctp_timer_start(u, "INIT")
  <2>1. tags[n] + 1 \in Nat /\ tcbs[n] + 1 \in Nat
    BY DEF TypeOK
  <2>2. NewTcb(tags[n] + 1, tcbs[n] + 1) \in Tcb
    BY <2>1, NewTcbType
  <2>3. u \in Tcb
    BY <2>2 DEF Tcb, State, FrontState
  <2> HIDE DEF u
  <2>4. v \in Tcb
    BY <2>3, TimerTypes DEF RxtType
  <2> HIDE DEF v
  <2>5. Put(n, v, {Init_(n, v)})
    BY <1>3 DEF Connect, u, v
  <2>6. TcbNetOK'
    BY <2>4, <2>5, PutType, PacketTypes
  <2>7. RestOK'
    BY <1>3, <2>1 DEF Connect, TypeOK, RestOK
  <2> QED
    BY <2>6, <2>7, TypeParts
<1>4. CASE SendStart(n)
  <2>1. [t EXCEPT !.sending = TRUE] \in Tcb
    BY <1>1 DEF Tcb
  <2>2. Put(n, [t EXCEPT !.sending = TRUE], {})
    BY <1>4 DEF SendStart
  <2> QED
    BY <2>1, <2>2, <1>4, PutType, RestUnchanged, TypeParts DEF SendStart
<1>5. CASE SendFinish(n)
  <2> DEFINE u == [t EXCEPT !.sending = FALSE, !.out = @ + 1,
                            !.late = @ \/ t.state \in SentStates]
  <2>1. t.out + 1 \in 0 .. MaxMsgs
    BY <1>1, <1>5, Bounds DEF SendFinish, Tcb
  <2>2. u \in Tcb
    BY <1>1, <2>1 DEF Tcb
  <2>3. Output(n, u, {})
    BY <1>5 DEF SendFinish
  <2> QED
    BY <2>2, <2>3, <1>5, OutputType, RestUnchanged, TypeParts DEF SendFinish
<1>6. CASE UserShutdown(n)
  BY <1>1, <1>2, <1>6, RestUnchanged, TypeParts DEF UserShutdown
<1>7. CASE UserClose(n)
  <2>1. [t EXCEPT !.sock = FALSE] \in Tcb
    BY <1>1 DEF Tcb
  <2>2. TcbNetOK'
    BY <1>1, <1>2, <1>7, <2>1, FreeType, AbortType DEF UserClose
  <2> QED
    BY <2>2, <1>7, RestUnchanged, TypeParts DEF UserClose
<1>8. CASE UserAbort(n)
  <2>1. TcbNetOK'
    BY <1>1, <1>8, FreeType, AbortType DEF UserAbort
  <2> QED
    BY <2>1, <1>8, RestUnchanged, TypeParts DEF UserAbort
<1>9. CASE Reboot(n)
  <2>1. TcbNetOK'
    BY <1>9, FreeType DEF Reboot
  <2>2. RestOK'
    BY <1>9 DEF Reboot, TypeOK, RestOK
  <2> QED
    BY <2>1, <2>2, TypeParts
<1> QED
  BY <1>3, <1>4, <1>5, <1>6, <1>7, <1>8, <1>9 DEF User

LEMMA SetupTypes ==
  ASSUME TypeOK, NEW n \in Node, NEW m \in net,
         \/ HandleInit(n, m) \/ HandleInitAck(n, m) \/ HandleCookieEcho(n, m)
         \/ StaleCookie(n, m) \/ HandleStale(n, m) \/ HandleCookieAck(n, m)
  PROVE  CoreOK'
<1> DEFINE t == tcb[n]
<1>1. t \in Tcb /\ m \in Packet
  BY DEF TypeOK
<1>2. /\ m.tag \in Nat /\ m.seq \in Nat /\ m.cookie \in Cookie
      /\ m.cookie.peer \in Nat
  BY <1>1 DEF Packet, Cookie
<1>3. CASE HandleInit(n, m)
  <2>1. t.my_vtag \in Nat /\ tags[n] + 1 \in Nat
    BY <1>1 DEF Tcb, TypeOK
  <2>2. /\ Pkt("ABORT", Peer(n), m.tag) \in Packet
        /\ Chunk(n, t, "SHUTDOWN_ACK") \in Packet
        /\ InitAck(n, m, t.my_vtag) \in Packet
        /\ InitAck(n, m, tags[n] + 1) \in Packet
    BY <1>1, <1>2, <2>1, PktType, PeerType, ChunkIsPacket, InitAckType
       DEF ChunkType
  <2>3. \A p \in Packet : Put(n, t, {p}) \/ Output(n, t, {p}) => TcbNetOK'
    BY <1>1, PutType, OutputType
  <2>4. TcbNetOK'
    BY <1>3, <2>2, <2>3 DEF HandleInit
  <2>5. RestOK'
    BY <1>3, <2>1 DEF HandleInit, TypeOK, RestOK
  <2> QED
    BY <2>4, <2>5, TypeParts
<1>4. CASE HandleInitAck(n, m)
  <2> DEFINE u == sctp_process_init(sctp_timer_stop(t, "INIT"), m.tag, m.seq)
             w == [u EXCEPT !.state = "COOKIE_ECHOED", !.err = 0,
                            !.cookie = m.cookie]
             v == sctp_timer_start(w, "COOKIE")
  <2>1. u \in Tcb
    BY <1>1, <1>2, TimerTypes, ProcessInitType DEF RxtType
  <2> HIDE DEF u
  <2>2. w \in Tcb
    BY <2>1, <1>2 DEF Tcb, State, FrontState
  <2> HIDE DEF w
  <2>3. v \in Tcb
    BY <2>2, TimerTypes DEF RxtType
  <2> HIDE DEF v
  <2>4. v.out \in 0 .. MaxMsgs
    BY <2>3 DEF Tcb
  <2>5. sctp_free_assoc(n, {}) \/ Output(n, v, {CookieEcho(n, v, v.out)})
    BY <1>4 DEF HandleInitAck, u, v, w
  <2>6. CookieEcho(n, v, v.out) \in Packet
    BY <2>3, <2>4, PacketTypes
  <2>7. TcbNetOK'
    BY <2>3, <2>5, <2>6, FreeType, OutputType
  <2> QED
    BY <2>7, <1>4, RestUnchanged, TypeParts DEF HandleInitAck
<1>5. CASE HandleCookieEcho(n, m)
  <2> DEFINE c == m.cookie
             D == dlv' \subseteq [at : Node, nonce : Nat, seq : Nat,
                                 num : 0 .. MaxMsgs]
  <2>1. /\ c.my \in Nat /\ c.peer \in Nat /\ c.myseq \in Nat
        /\ c.peerseq \in Nat /\ tcbs[n] + 1 \in Nat
    BY <1>2 DEF Cookie, TypeOK
  <2>2. TcbNetOK' /\ D /\ tcbs' \in [Node -> Nat]
    <3> DEFINE u == sctp_process_init(NewTcb(c.my, tcbs[n] + 1),
                                      c.peer, c.peerseq)
               v == [u EXCEPT !.init_seq = c.myseq]
    <3>1. u \in Tcb
      BY <2>1, NewTcbType, ProcessInitType
    <3> HIDE DEF u
    <3>2. v \in Tcb
      BY <3>1, <2>1 DEF Tcb
    <3> HIDE DEF v
    <3>3. MoveToOpen(v) \in Tcb
      BY <3>2, TimerTypes
    <3>4. CASE /\ AckCookie(n, MoveToOpen(v), m)
               /\ tcbs' = [tcbs EXCEPT ![n] = @ + 1]
      BY <3>4, <3>3, <2>1, <1>1, AckCookieType DEF TypeOK
    <3>5. CASE sctp_process_cookie_existing(n, t, m) /\ UNCHANGED tcbs
      <4>1. CookieD(t, c) \in Tcb /\ CookieB(t, c) \in Tcb
            /\ CookieA(t, c) \in Tcb
        BY <1>1, <1>2, CookieCaseTypes
      <4>2. \A w \in Tcb : AckCookie(n, w, m) => TcbNetOK' /\ D
        BY <1>1, AckCookieType
      <4>3. CASE Output(n, t, {Chunk(n, t, "SHUTDOWN_ACK")}) /\ UNCHANGED dlv
        <5>1. Chunk(n, t, "SHUTDOWN_ACK") \in Packet
          BY <1>1, ChunkIsPacket DEF ChunkType
        <5>2. TcbNetOK'
          BY <4>3, <5>1, <1>1, OutputType
        <5> QED
          BY <5>2, <4>3, <3>5 DEF TypeOK
      <4>4. CASE \/ AckCookie(n, CookieD(t, c), m)
                 \/ AckCookie(n, CookieB(t, c), m)
                 \/ AckCookie(n, CookieA(t, c), m)
        BY <4>1, <4>2, <4>4, <3>5 DEF TypeOK
      <4> QED
        BY <4>3, <4>4, <3>5 DEF sctp_process_cookie_existing
    <3> QED
      BY <3>4, <3>5, <1>5 DEF HandleCookieEcho, u, v
  <2>3. RestOK'
    BY <2>2, <1>5 DEF HandleCookieEcho, TypeOK, RestOK
  <2> QED
    BY <2>2, <2>3, TypeParts
<1>6. CASE StaleCookie(n, m)
  <2>1. {Pkt("STALE", Peer(n), m.cookie.peer)} \subseteq Packet
    BY <1>2, PktType, PeerType DEF ChunkType
  <2>2. TcbNetOK'
    BY <2>1, <1>1, <1>6, PutType DEF StaleCookie
  <2> QED
    BY <2>2, <1>6, RestUnchanged, TypeParts DEF StaleCookie
<1>7. CASE HandleStale(n, m)
  <2> DEFINE u == sctp_toss_old_cookies(sctp_stop_all_cookie_timers(t))
             w == [u EXCEPT !.state = "COOKIE_WAIT", !.stale = @ + 1]
             v == sctp_timer_start(w, "INIT")
  <2>1. u \in Tcb
    BY <1>1, TimerTypes, StopAllType
  <2> HIDE DEF u
  <2>2. w \in Tcb
    <3>1. u.stale + 1 \in Nat
      BY <2>1 DEF Tcb
    <3>2. "COOKIE_WAIT" \in State
      BY DEF State, FrontState
    <3> QED
      BY <2>1, <3>1, <3>2 DEF Tcb
  <2> HIDE DEF w
  <2>3. v \in Tcb
    BY <2>2, TimerTypes DEF RxtType
  <2> HIDE DEF v
  <2>4. sctp_free_assoc(n, {}) \/ Put(n, v, {Init_(n, v)})
    BY <1>7 DEF HandleStale, u, v, w
  <2>5. TcbNetOK'
    BY <2>3, <2>4, FreeType, PutType, PacketTypes
  <2> QED
    BY <2>5, <1>7, RestUnchanged, TypeParts DEF HandleStale
<1>8. CASE HandleCookieAck(n, m)
  <2>1. TcbNetOK'
    BY <1>1, <1>8, CookieAckTypes, FreeType, OutputType DEF HandleCookieAck
  <2> QED
    BY <2>1, <1>8, RestUnchanged, TypeParts DEF HandleCookieAck
<1> QED
  BY <1>3, <1>4, <1>5, <1>6, <1>7, <1>8

LEMMA TransferTypes ==
  ASSUME TypeOK, NEW n \in Node, NEW m \in net,
         HandleData(n, m) \/ HandleSack(n, m)
  PROVE  CoreOK'
<1> DEFINE t == ImpliedCookieAck(tcb[n])
<1>1. t \in Tcb /\ m \in Packet
  BY CookieAckTypes DEF TypeOK
<1>2. /\ m.seq \in Nat /\ {m.num} \in SUBSET (0 .. MaxMsgs)
      /\ {} \in SUBSET Packet
  BY <1>1 DEF Packet
<1> HIDE DEF t
<1>3. CASE HandleData(n, m)
  <2>1. Reflect(n, m, "ABORT") \in Packet
    BY <1>1, ReflectType DEF ChunkType
  <2>2. CASE Put(n, t, {Reflect(n, m, "ABORT")}) /\ UNCHANGED dlv
    <3>1. TcbNetOK'
      BY <2>1, <2>2, <1>1, PutType
    <3> QED
      BY <3>1, <2>2, <1>3, RestUnchanged, TypeParts DEF HandleData
  <2>3. CASE ReceiveData(n, t, m.seq, {m.num}, {})
    <3>1. /\ TcbNetOK'
          /\ dlv' \subseteq [at : Node, nonce : Nat, seq : Nat,
                             num : 0 .. MaxMsgs]
      BY <2>3, <1>1, <1>2, ReceiveDataType
    <3>2. RestOK'
      BY <3>1, <1>3 DEF HandleData, TypeOK, RestOK
    <3> QED
      BY <3>1, <3>2, TypeParts
  <2> QED
    BY <2>2, <2>3, <1>3 DEF HandleData, t
<1>4. CASE HandleSack(n, m)
  <2> DEFINE u == sctp_express_handle_sack(t, m)
             w == ShutdownIssues(t)
  <2>1. u \in Tcb /\ w \in Tcb
    BY <1>1, SackType, ToShutdownTypes
  <2> HIDE DEF u, w
  <2>2. /\ ShutdownPkts(n, t, u) \subseteq Packet
        /\ ShutdownPkts(n, t, w) \subseteq Packet
    BY <1>1, <2>1, OutputSetTypes
  <2>3. \/ Output(n, u, ShutdownPkts(n, t, u))
        \/ Output(n, w, ShutdownPkts(n, t, w))
    BY <1>4 DEF HandleSack, t, u, w
  <2>4. TcbNetOK'
    BY <2>1, <2>2, <2>3, OutputType
  <2> QED
    BY <2>4, <1>4, RestUnchanged, TypeParts DEF HandleSack
<1> QED
  BY <1>3, <1>4

LEMMA TeardownTypes ==
  ASSUME TypeOK, NEW n \in Node, NEW m \in net,
         \/ HandleShutdown(n, m) \/ HandleShutdownAck(n, m)
         \/ HandleShutdownComplete(n, m) \/ HandleAbort(n, m)
         \/ OutOfTheBlue(n, m)
  PROVE  CoreOK'
<1> DEFINE t == tcb[n]
<1>1. t \in Tcb /\ m \in Packet
  BY DEF TypeOK
<1>2. End(n, t) => ended' \subseteq [at : Node, seq : Nat, out : 0 .. MaxMsgs,
                                    late : BOOLEAN]
  <2>1. t.init_seq \in Nat /\ t.out \in 0 .. MaxMsgs /\ t.late \in BOOLEAN
    BY <1>1 DEF Tcb
  <2> QED
    BY <2>1 DEF End, TypeOK
<1>3. CASE HandleShutdown(n, m)
  <2> DEFINE u == sctp_express_handle_sack(t, m)
             v == IF u.sock /\ u.state = "OPEN"
                  THEN [u EXCEPT !.state = "SHUTDOWN_RECEIVED",
                                 !.pending = FALSE]
                  ELSE u
             w == IF v.state = "SHUTDOWN_SENT" THEN sctp_timer_stop(v, "SHUTDOWN")
                                               ELSE v
             x == ToShutdownAckSent(w)
  <2>1. u \in Tcb
    BY <1>1, SackType
  <2> HIDE DEF u
  <2>2. v \in Tcb
    BY <2>1 DEF Tcb, State
  <2> HIDE DEF v
  <2>3. w \in Tcb
    BY <2>2, TimerTypes DEF RxtType
  <2> HIDE DEF w
  <2>4. x \in Tcb
    BY <2>3, ToShutdownTypes
  <2> HIDE DEF x
  <2>5. /\ ShutdownPkts(n, t, u) \subseteq Packet
        /\ Chunk(n, x, "SHUTDOWN_ACK") \in Packet
    BY <1>1, <2>1, <2>4, OutputSetTypes, ChunkIsPacket DEF ChunkType
  <2>6. \/ Output(n, x, ShutdownPkts(n, t, u) \cup {Chunk(n, x, "SHUTDOWN_ACK")})
        \/ Output(n, w, ShutdownPkts(n, t, u))
    BY <1>3 DEF HandleShutdown, u, v, w, x
  <2>7. TcbNetOK'
    BY <2>3, <2>4, <2>5, <2>6, OutputType
  <2> QED
    BY <2>7, <1>3, RestUnchanged, TypeParts DEF HandleShutdown
<1>4. CASE HandleShutdownAck(n, m)
  <2>1. {Reflect(n, m, "SHUTDOWN_COMPLETE")} \subseteq Packet
        /\ {Chunk(n, t, "SHUTDOWN_COMPLETE")} \subseteq Packet
    BY <1>1, ReflectType, ChunkIsPacket DEF ChunkType
  <2>2. TcbNetOK'
    BY <2>1, <1>1, <1>4, PutType, FreeType DEF HandleShutdownAck
  <2>3. RestOK'
    BY <1>2, <1>4 DEF HandleShutdownAck, TypeOK, RestOK
  <2> QED
    BY <2>2, <2>3, TypeParts
<1>5. CASE HandleShutdownComplete(n, m)
  <2>1. TcbNetOK'
    BY <1>5, FreeType DEF HandleShutdownComplete
  <2>2. RestOK'
    BY <1>2, <1>5 DEF HandleShutdownComplete, TypeOK, RestOK
  <2> QED
    BY <2>1, <2>2, TypeParts
<1>6. CASE HandleAbort(n, m)
  <2>1. TcbNetOK'
    BY <1>6, FreeType DEF HandleAbort
  <2> QED
    BY <2>1, <1>6, RestUnchanged, TypeParts DEF HandleAbort
<1>7. CASE OutOfTheBlue(n, m)
  <2>1. {Reflect(n, m, "ABORT")} \subseteq Packet
    BY <1>1, ReflectType DEF ChunkType
  <2>2. TcbNetOK'
    BY <2>1, <1>1, <1>7, PutType DEF OutOfTheBlue
  <2> QED
    BY <2>2, <1>7, RestUnchanged, TypeParts DEF OutOfTheBlue
<1> QED
  BY <1>3, <1>4, <1>5, <1>6, <1>7

LEMMA TimerActionTypes ==
  ASSUME TypeOK, NEW n \in Node, Timer(n)
  PROVE  CoreOK'
<1> DEFINE t == tcb[n]
<1>1. t \in Tcb
  BY DEF TypeOK
<1>2. Expired(t) \in Tcb /\ Counted(t) \in Tcb
  BY <1>1, TimerTypes, CountedType
<1>3. /\ Init_(n, t) \in Packet /\ CookieEcho(n, t, 0) \in Packet
      /\ Shutdown_(n, t) \in Packet /\ Chunk(n, t, "SHUTDOWN_ACK") \in Packet
  BY <1>1, PacketTypes, ChunkIsPacket, ZeroInRange DEF ChunkType
<1>4. ASSUME NEW max, NEW type \in RxtType, NEW p \in Packet,
             CountOrAbort(n, max, type, {p})
      PROVE  TcbNetOK'
  <2>1. sctp_timer_start(Counted(t), type) \in Tcb
    BY <1>2, TimerTypes
  <2> QED
    BY <2>1, <1>1, <1>4, AbortType, OutputType DEF CountOrAbort
<1>5. sctp_abort_an_association(n, t) => TcbNetOK'
  BY <1>1, AbortType
<1>6. Put(n, Expired(t), {}) => TcbNetOK'
  BY <1>2, PutType
<1>7. TcbNetOK'
  <2>1. CASE InitTimer(n)
    BY <2>1, <1>3, <1>4, <1>6 DEF InitTimer, RxtType
  <2>2. CASE CookieTimer(n)
    BY <2>2, <1>3, <1>4, <1>5, <1>6 DEF CookieTimer, RxtType
  <2>3. CASE ShutdownTimer(n)
    BY <2>3, <1>3, <1>4 DEF ShutdownTimer, RxtType
  <2>4. CASE ShutdownAckTimer(n)
    BY <2>4, <1>3, <1>4 DEF ShutdownAckTimer, RxtType
  <2>5. CASE T3Timer(n)
    BY <2>5, <1>2, <1>5, OutputType DEF T3Timer
  <2>6. CASE GuardTimer(n)
    BY <2>6, <1>5 DEF GuardTimer
  <2> QED
    BY <2>1, <2>2, <2>3, <2>4, <2>5, <2>6 DEF Timer
<1>8. UNCHANGED <<tags, tcbs, key, dlv, ended>>
  BY DEF Timer, InitTimer, CookieTimer, ShutdownTimer, ShutdownAckTimer,
         T3Timer, GuardTimer
<1> QED
  BY <1>7, <1>8, RestUnchanged, TypeParts

(* The two halves of a restart. *)
LEMMA RestartTypes ==
  ASSUME TypeOK, NEW n \in Node,
         RestartRelocks(n) \/ \E m \in net : RestartUnlocks(n, m)
  PROVE  CoreOK' /\ waiting' \in [Node -> SUBSET Packet]
<1>1. tcb[n] \in Tcb /\ net \subseteq Packet /\ {} \in SUBSET Packet
  BY DEF TypeOK
<1>2. CASE \E m \in net : RestartUnlocks(n, m)
  <2>1. PICK m \in net : RestartUnlocks(n, m)
    BY <1>2
  <2>2. m \in Packet /\ m.cookie \in Cookie
    BY <1>1 DEF Packet
  <2>3. TcbNetOK'
    BY <1>1, <2>1, <2>2, CookieCaseTypes, PutType DEF RestartUnlocks
  <2> QED
    BY <2>1, <2>2, <2>3, RestUnchanged, TypeParts DEF RestartUnlocks, TypeOK
<1>3. CASE RestartRelocks(n)
  <2>1. PICK m \in waiting[n] : AckCookie(n, RestartEnd(tcb[n], m.cookie), m)
    BY <1>3 DEF RestartRelocks
  <2>2. m \in Packet /\ m.cookie \in Cookie
    <3>1. m \in Packet
      BY DEF TypeOK
    <3> QED
      BY <3>1 DEF Packet
  <2>3. RestartEnd(tcb[n], m.cookie) \in Tcb
    BY <1>1, <2>2, CookieCaseTypes
  <2>4. /\ TcbNetOK'
        /\ dlv' \subseteq [at : Node, nonce : Nat, seq : Nat, num : 0 .. MaxMsgs]
    BY <2>1, <2>2, <2>3, AckCookieType
  <2>5. RestOK'
    BY <1>3, <2>4 DEF RestartRelocks, TypeOK, RestOK
  <2> QED
    BY <1>3, <2>4, <2>5, TypeParts DEF RestartRelocks, TypeOK
<1> QED
  BY <1>2, <1>3

(* Only a restart changes waiting. *)
LEMMA UserLocks ==
  ASSUME NEW n \in Node, User(n) \/ SendFinish(n) \/ Timer(n)
  PROVE  Unlocked(n)
  BY DEF User, Connect, SendStart, SendFinish, UserShutdown, UserClose,
         UserAbort, Reboot, Timer, InitTimer, CookieTimer, ShutdownTimer,
         ShutdownAckTimer, T3Timer, GuardTimer

LEMMA ReceiveLocks ==
  ASSUME NEW n \in Node, NEW m \in net, Receive(n, m)
  PROVE  Unlocked(n) \/ (HandleData(n, m) /\ UNCHANGED waiting)
<1>1. CASE HandleInit(n, m) \/ HandleInitAck(n, m) \/ HandleCookieEcho(n, m)
  BY <1>1 DEF HandleInit, HandleInitAck, HandleCookieEcho
<1>2. CASE StaleCookie(n, m) \/ HandleStale(n, m) \/ HandleCookieAck(n, m)
  BY <1>2 DEF StaleCookie, HandleStale, HandleCookieAck
<1>3. CASE HandleData(n, m)
  BY <1>3 DEF HandleData
<1>4. CASE HandleSack(n, m) \/ HandleShutdown(n, m) \/ HandleShutdownAck(n, m)
  BY <1>4 DEF HandleSack, HandleShutdown, HandleShutdownAck
<1>5. CASE \/ HandleShutdownComplete(n, m) \/ HandleAbort(n, m)
           \/ OutOfTheBlue(n, m)
  BY <1>5 DEF HandleShutdownComplete, HandleAbort, OutOfTheBlue
<1> QED
  BY <1>1, <1>2, <1>3, <1>4, <1>5 DEF Receive

LEMMA TypeInductive == TypeOK /\ [Next]_vars => TypeOK'
<1> SUFFICES ASSUME TypeOK, [Next]_vars PROVE TypeOK'
  OBVIOUS
<1> DEFINE W == waiting' \in [Node -> SUBSET Packet]
<1>1. ASSUME NEW n \in Node, User(n) \/ SendFinish(n) PROVE CoreOK' /\ W
  BY <1>1, UserTypes, UserLocks DEF Unlocked, TypeOK
<1>2. ASSUME NEW n \in Node, Timer(n) PROVE CoreOK' /\ W
  BY <1>2, TimerActionTypes, UserLocks DEF Unlocked, TypeOK
<1>3. ASSUME NEW n \in Node, NEW m \in net, Receive(n, m) PROVE CoreOK' /\ W
  <2>1. CoreOK'
    BY <1>3, SetupTypes, TransferTypes, TeardownTypes DEF Receive
  <2>2. W
    BY <1>3, ReceiveLocks DEF Unlocked, TypeOK
  <2> QED
    BY <2>1, <2>2
<1>4. ASSUME NEW n \in Node,
             RestartRelocks(n) \/ \E m \in net : RestartUnlocks(n, m)
      PROVE  CoreOK' /\ W
  BY <1>4, RestartTypes
<1>5. CASE UNCHANGED vars
  BY <1>5 DEF TypeOK, vars
<1>6. CASE Next
  <2>1. CoreOK' /\ W
    BY <1>1, <1>2, <1>3, <1>4, <1>6 DEF Next
  <2> QED
    BY <2>1 DEF CoreOK, TcbNetOK, RestOK, TypeOK
<1> QED
  BY <1>5, <1>6

(***************************************************************************)
(* Every variable keeps its type, for any number of messages, tags, boots  *)
(* and retransmissions: in particular the cumulative TSN that              *)
(* sctp_slide_mapping_arrays computes and the acknowledgements the sender  *)
(* accepts stay inside the messages that were sent.                        *)
(***************************************************************************)
THEOREM TypeCorrect == Spec => []TypeOK
<1>1. Init => TypeOK
  BY ClosedType DEF Init, TypeOK
<1> QED
  BY <1>1, TypeInductive, PTL DEF Spec

-----------------------------------------------------------------------------
(***************************************************************************)
(* A restart that waits for the locks: the TCB it left is open or has sent *)
(* its SHUTDOWN, and still has the tags that made the cookie a restart, so *)
(* that nothing needs to be looked at again when the locks are taken.      *)
(***************************************************************************)
Window(n, m) ==
  /\ SlowRestart
  /\ m \in net /\ m.type = "COOKIE_ECHO" /\ m.to = n
  /\ tcb[n].state \in {"OPEN", "SHUTDOWN_SENT"}
  /\ CookieCaseA(tcb[n], m.cookie)

WindowInv == \A n \in Node : \A m \in waiting[n] : Window(n, m)

(* A step of n changes no other TCB, and packets stay in the network. *)
Local(n) ==
  /\ \A i \in Node : i # n => tcb'[i] = tcb[i]
  /\ net \subseteq net'

LEMMA LocalEnds ==
  ASSUME TypeOK, NEW n \in Node
  PROVE  /\ \A t, ps : Put(n, t, ps) => Local(n)
         /\ \A t, ps : Output(n, t, ps) => Local(n)
         /\ \A ps : sctp_free_assoc(n, ps) => Local(n)
         /\ \A t : sctp_abort_an_association(n, t) => Local(n)
         /\ \A t, done : StartShutdown(n, t, done) => Local(n)
         /\ \A max, type, ps : CountOrAbort(n, max, type, ps) => Local(n)
<1>1. \A t : [tcb EXCEPT ![n] = t] \in [Node -> UNION {{t}, Tcb}]
             /\ \A i \in Node : i # n => [tcb EXCEPT ![n] = t][i] = tcb[i]
  BY DEF TypeOK
<1>2. \A t, ps : Put(n, t, ps) => Local(n)
  BY <1>1 DEF Put, Local
<1>3. \A t, ps : Output(n, t, ps) => Local(n)
  BY <1>1 DEF Output, Local
<1>4. \A ps : sctp_free_assoc(n, ps) => Local(n)
  BY <1>2 DEF sctp_free_assoc
<1>5. \A t : sctp_abort_an_association(n, t) => Local(n)
  BY <1>4 DEF sctp_abort_an_association
<1>6. \A t, done : StartShutdown(n, t, done) => Local(n)
  BY <1>3 DEF StartShutdown
<1>7. \A max, type, ps : CountOrAbort(n, max, type, ps) => Local(n)
  BY <1>3, <1>5 DEF CountOrAbort
<1> QED
  BY <1>2, <1>3, <1>4, <1>5, <1>6, <1>7

LEMMA LocalData ==
  ASSUME TypeOK, NEW n \in Node
  PROVE  /\ \A t, seq, ks, ps : ReceiveData(n, t, seq, ks, ps) => Local(n)
         /\ \A t, m : AckCookie(n, t, m) => Local(n)
         /\ \A t, m : sctp_process_cookie_existing(n, t, m) => Local(n)
<1>1. \A t, seq, ks, ps : ReceiveData(n, t, seq, ks, ps) => Local(n)
  BY LocalEnds DEF ReceiveData
<1>2. \A t, m : AckCookie(n, t, m) => Local(n)
  BY <1>1, LocalEnds DEF AckCookie
<1>3. \A t, m : sctp_process_cookie_existing(n, t, m) => Local(n)
  BY <1>2, LocalEnds DEF sctp_process_cookie_existing
<1> QED
  BY <1>1, <1>2, <1>3

LEMMA UserLocal ==
  ASSUME TypeOK, NEW n \in Node, User(n) \/ SendFinish(n) \/ Timer(n)
  PROVE  Local(n)
<1>1. CASE Connect(n) \/ SendStart(n) \/ SendFinish(n) \/ UserShutdown(n)
  BY <1>1, LocalEnds DEF Connect, SendStart, SendFinish, UserShutdown
<1>2. CASE UserClose(n) \/ UserAbort(n) \/ Reboot(n)
  BY <1>2, LocalEnds DEF UserClose, UserAbort, Reboot
<1>3. CASE InitTimer(n) \/ CookieTimer(n) \/ ShutdownTimer(n)
  BY <1>3, LocalEnds DEF InitTimer, CookieTimer, ShutdownTimer
<1>4. CASE ShutdownAckTimer(n) \/ T3Timer(n) \/ GuardTimer(n)
  BY <1>4, LocalEnds DEF ShutdownAckTimer, T3Timer, GuardTimer
<1> QED
  BY <1>1, <1>2, <1>3, <1>4 DEF User, Timer

LEMMA ReceiveLocal ==
  ASSUME TypeOK, NEW n \in Node, NEW m \in net, Receive(n, m)
  PROVE  Local(n)
<1>1. CASE HandleInit(n, m) \/ HandleInitAck(n, m)
  BY <1>1, LocalEnds DEF HandleInit, HandleInitAck
<1>2. CASE HandleCookieEcho(n, m)
  BY <1>2, LocalData DEF HandleCookieEcho
<1>3. CASE StaleCookie(n, m) \/ HandleStale(n, m) \/ HandleCookieAck(n, m)
  BY <1>3, LocalEnds DEF StaleCookie, HandleStale, HandleCookieAck
<1>4. CASE HandleData(n, m)
  BY <1>4, LocalEnds, LocalData DEF HandleData
<1>5. CASE HandleSack(n, m) \/ HandleShutdown(n, m)
  BY <1>5, LocalEnds DEF HandleSack, HandleShutdown
<1>6. CASE HandleShutdownAck(n, m) \/ HandleShutdownComplete(n, m)
  BY <1>6, LocalEnds DEF HandleShutdownAck, HandleShutdownComplete
<1>7. CASE HandleAbort(n, m) \/ OutOfTheBlue(n, m)
  BY <1>7, LocalEnds DEF HandleAbort, OutOfTheBlue
<1> QED
  BY <1>1, <1>2, <1>3, <1>4, <1>5, <1>6, <1>7 DEF Receive

(* DATA taken while a restart waits leaves the state and the tags alone. *)
LEMMA WindowData ==
  ASSUME TypeOK, WindowInv, NEW n \in Node, NEW d \in net,
         HandleData(n, d), waiting[n] # {}
  PROVE  /\ tcb'[n].state = tcb[n].state /\ tcb'[n].nonce = tcb[n].nonce
         /\ tcb'[n].my_vtag = tcb[n].my_vtag
         /\ tcb'[n].peer_vtag = tcb[n].peer_vtag
<1> DEFINE t == tcb[n]
           u == sctp_process_data(t, d.seq, {d.num})
           x == sctp_chunk_output(u)
<1>1. t \in Tcb /\ d \in Packet
  BY DEF TypeOK
<1>2. t.state \in {"OPEN", "SHUTDOWN_SENT"}
  BY DEF WindowInv, Window
<1>3. ImpliedCookieAck(t) = t
  BY <1>2 DEF ImpliedCookieAck
<1>4. ReceiveData(n, t, d.seq, {d.num}, {}) /\ t.sock
  BY <1>2, <1>3 DEF HandleData
<1>5. tcb' = [tcb EXCEPT ![n] = x]
  BY <1>4 DEF ReceiveData, Output
<1>6. d.seq \in Nat /\ {d.num} \in SUBSET (0 .. MaxMsgs)
  BY <1>1 DEF Packet
<1>7. u \in Tcb
  BY <1>1, <1>6, ProcessDataType
<1>8. /\ u.state = t.state /\ u.nonce = t.nonce
      /\ u.my_vtag = t.my_vtag /\ u.peer_vtag = t.peer_vtag
  BY <1>1 DEF sctp_process_data, Tcb
<1> HIDE DEF u
<1>9. /\ x.state = u.state /\ x.nonce = u.nonce
      /\ x.my_vtag = u.my_vtag /\ x.peer_vtag = u.peer_vtag
  BY <1>7 DEF sctp_chunk_output, sctp_timer_start, Tcb
<1>10. tcb'[n] = x
  BY <1>5 DEF TypeOK
<1> QED
  BY <1>8, <1>9, <1>10

(* What the first half of a restart leaves. *)
LEMMA BeginFields ==
  ASSUME NEW t \in Tcb, t.state # "CLOSED"
  PROVE  LET b == RestartBegin(t) IN
         /\ b.state \in {"OPEN", "SHUTDOWN_SENT"} /\ b.nonce = t.nonce
         /\ b.my_vtag = t.my_vtag /\ b.peer_vtag = t.peer_vtag
<1> DEFINE u == sctp_timer_stop(t, "INIT")
           v == IF t.pending \/ t.state # "SHUTDOWN_SENT"
                THEN MoveToOpen(u) ELSE u
<1>1. /\ u \in Tcb /\ u.state = t.state /\ u.nonce = t.nonce
      /\ u.my_vtag = t.my_vtag /\ u.peer_vtag = t.peer_vtag
  BY TimerTypes DEF sctp_timer_stop, Tcb, RxtType
<1> HIDE DEF u
<1>2. /\ v \in Tcb /\ v.state \in {"OPEN", "SHUTDOWN_SENT"}
      /\ v.nonce = t.nonce
      /\ v.my_vtag = t.my_vtag /\ v.peer_vtag = t.peer_vtag
  <2> DEFINE o == MoveToOpen(u)
  <2>1. /\ o.state = "OPEN" /\ o.nonce = u.nonce
        /\ o.my_vtag = u.my_vtag /\ o.peer_vtag = u.peer_vtag
    BY <1>1 DEF MoveToOpen, Tcb
  <2>2. o \in Tcb
    BY <1>1, TimerTypes
  <2> HIDE DEF o
  <2>3. v = o \/ (v = u /\ t.state = "SHUTDOWN_SENT")
    BY DEF o
  <2> HIDE DEF v
  <2> QED
    BY <1>1, <2>1, <2>2, <2>3
<1>3. RestartBegin(t) = [v EXCEPT !.map = {}]
  BY DEF RestartBegin, u
<1> HIDE DEF v
<1> QED
  BY <1>2, <1>3 DEF Tcb

LEMMA WindowInductive == TypeOK /\ WindowInv /\ [Next]_vars => WindowInv'
<1> SUFFICES ASSUME TypeOK, WindowInv, [Next]_vars PROVE WindowInv'
  OBVIOUS
<1>1. ASSUME NEW n \in Node, Local(n),
             \A i \in Node : i # n => waiting'[i] = waiting[i],
             \A m \in waiting'[n] : Window(n, m)'
      PROVE  WindowInv'
  <2>1. ASSUME NEW i \in Node, NEW m \in waiting'[i] PROVE Window(i, m)'
    <3>1. CASE i = n
      BY <1>1, <2>1, <3>1
    <3>2. CASE i # n
      BY <1>1, <2>1, <3>2 DEF WindowInv, Window, Local
    <3> QED
      BY <3>1, <3>2
  <2> QED
    BY <2>1 DEF WindowInv
<1>2. ASSUME NEW n \in Node, Local(n), Unlocked(n) PROVE WindowInv'
  BY <1>1, <1>2 DEF Unlocked
<1>3. ASSUME NEW n \in Node, User(n) \/ SendFinish(n) \/ Timer(n)
      PROVE  WindowInv'
  BY <1>2, <1>3, UserLocal, UserLocks
<1>4. ASSUME NEW n \in Node, NEW m \in net, Receive(n, m) PROVE WindowInv'
  <2>1. Local(n)
    BY <1>4, ReceiveLocal
  <2>2. CASE Unlocked(n)
    BY <1>2, <2>1, <2>2
  <2>3. CASE HandleData(n, m) /\ UNCHANGED waiting
    <3>1. ASSUME NEW w \in waiting'[n] PROVE Window(n, w)'
      <4>1. w \in waiting[n] /\ Window(n, w)
        BY <2>3, <3>1 DEF WindowInv
      <4>2. /\ tcb'[n].state = tcb[n].state /\ tcb'[n].nonce = tcb[n].nonce
            /\ tcb'[n].my_vtag = tcb[n].my_vtag
            /\ tcb'[n].peer_vtag = tcb[n].peer_vtag
        BY <2>3, <4>1, WindowData
      <4> QED
        BY <2>1, <4>1, <4>2
           DEF Window, Local, CookieCaseA, MyTagSame, PeerTagSame
    <3> QED
      BY <1>1, <2>1, <2>3, <3>1
  <2> QED
    BY <1>4, <2>2, <2>3, ReceiveLocks
<1>5. ASSUME NEW n \in Node, NEW m \in net, RestartUnlocks(n, m)
      PROVE  WindowInv'
  <2>1. tcb[n] \in Tcb /\ tcb[n].state # "CLOSED"
    BY <1>5 DEF RestartUnlocks, TypeOK
  <2>2. tcb'[n] = RestartBegin(tcb[n]) /\ Local(n)
    BY <1>5, LocalEnds DEF RestartUnlocks, Put, TypeOK
  <2>3. waiting'[n] = {m} /\ \A i \in Node : i # n => waiting'[i] = waiting[i]
    BY <1>5 DEF RestartUnlocks, TypeOK
  <2>4. Window(n, m)'
    BY <1>5, <2>1, <2>2, BeginFields
       DEF RestartUnlocks, Window, Local, CookieCaseA, MyTagSame, PeerTagSame
  <2> QED
    BY <1>1, <2>2, <2>3, <2>4
<1>6. ASSUME NEW n \in Node, RestartRelocks(n) PROVE WindowInv'
  <2>1. Local(n)
    BY <1>6, LocalData DEF RestartRelocks
  <2>2. waiting'[n] = {} /\ \A i \in Node : i # n => waiting'[i] = waiting[i]
    BY <1>6 DEF RestartRelocks, TypeOK
  <2> QED
    BY <1>1, <2>1, <2>2
<1>7. CASE UNCHANGED vars
  BY <1>7 DEF vars, WindowInv, Window
<1> QED
  BY <1>3, <1>4, <1>5, <1>6, <1>7 DEF Next

LEMMA WindowAlways == Spec => []WindowInv
<1>1. Init => WindowInv
  BY DEF Init, WindowInv
<1> QED
  BY <1>1, WindowInductive, TypeCorrect, PTL DEF Spec

-----------------------------------------------------------------------------
(***************************************************************************)
(* The inductive invariant.  A TCB is sound when its queues are empty once *)
(* SHUTDOWN or SHUTDOWN-ACK is out, when a running COOKIE timer has a      *)
(* cookie to send, and when a set-up under way owns a tag.  The last part  *)
(* is what makes the cookies of this endpoint differ from NoCookie, and    *)
(* with them the cookies a peer is handed in an INIT-ACK.                  *)
(***************************************************************************)
Sound(t) ==
  /\ t.state \in SentStates => Drained(t) \/ t.late
  /\ t.rxt = "COOKIE" => t.cookie # NoCookie
  /\ t.state \in FrontState => t.my_vtag # 0

HasCookie(ps) == \A p \in ps : p.type = "INIT_ACK" => p.cookie # NoCookie

SoundInv == (\A n \in Node : Sound(tcb[n])) /\ HasCookie(net)

LEMMA SoundClosed == Sound(Closed)
  BY DEF Sound, Closed, Drained, SentStates, FrontState

LEMMA SoundTimers ==
  ASSUME NEW t \in Tcb, Sound(t)
  PROVE  /\ \A type : Sound(sctp_timer_stop(t, type))
         /\ \A type : type # "COOKIE" \/ t.cookie # NoCookie
                     => Sound(sctp_timer_start(t, type))
         /\ Sound(StartGuard(t))
         /\ Sound(Expired(t))
         /\ Sound(MoveToOpen(t))
<1> USE DEF Sound, Drained, Tcb
<1>1. ASSUME NEW type PROVE Sound(sctp_timer_stop(t, type))
  BY DEF sctp_timer_stop
<1>2. ASSUME NEW type, type # "COOKIE" \/ t.cookie # NoCookie
      PROVE  Sound(sctp_timer_start(t, type))
  BY <1>2 DEF sctp_timer_start
<1>3. Sound(StartGuard(t))
  BY DEF StartGuard
<1>4. Sound(Expired(t))
  BY DEF Expired
<1>5. Sound(MoveToOpen(t))
  BY DEF MoveToOpen, SentStates, FrontState
<1> QED
  BY <1>1, <1>2, <1>3, <1>4, <1>5

LEMMA SoundCounted ==
  ASSUME NEW t \in Tcb, Sound(t)
  PROVE  Sound(Counted(t))
<1>1. Expired(t) \in Tcb /\ Sound(Expired(t))
  BY TimerTypes, SoundTimers
<1> QED
  BY <1>1 DEF Counted, Sound, Drained, Tcb

LEMMA SoundStopAll ==
  ASSUME NEW t \in Tcb, Sound(t)
  PROVE  /\ Sound(sctp_stop_all_cookie_timers(t))
         /\ sctp_stop_all_cookie_timers(t).rxt # "COOKIE"
         /\ Sound(sctp_toss_old_cookies(sctp_stop_all_cookie_timers(t)))
<1> DEFINE u == sctp_timer_stop(t, "COOKIE")
           v == sctp_timer_stop(u, "INIT")
<1>1. u \in Tcb /\ Sound(u)
  BY TimerTypes, SoundTimers DEF RxtType
<1>2. u.rxt # "COOKIE"
  BY DEF sctp_timer_stop, Tcb
<1> HIDE DEF u
<1>3. v \in Tcb /\ Sound(v)
  BY <1>1, TimerTypes, SoundTimers DEF RxtType
<1>4. v.rxt # "COOKIE"
  BY <1>1, <1>2 DEF sctp_timer_stop, Tcb
<1> HIDE DEF v
<1>5. Sound(sctp_toss_old_cookies(v))
  BY <1>3, <1>4 DEF Sound, Drained, Tcb, sctp_toss_old_cookies
<1> QED
  BY <1>3, <1>4, <1>5 DEF sctp_stop_all_cookie_timers, u, v

LEMMA SoundOutput ==
  ASSUME NEW t \in Tcb, Sound(t)
  PROVE  Sound(sctp_chunk_output(t))
  BY SoundTimers DEF sctp_chunk_output

LEMMA SoundProcessInit ==
  ASSUME NEW t \in Tcb, Sound(t), NEW tag, NEW seq
  PROVE  Sound(sctp_process_init(t, tag, seq))
  BY DEF Sound, Drained, Tcb, sctp_process_init

LEMMA SoundToShutdown ==
  ASSUME NEW t \in Tcb, Sound(t)
  PROVE  /\ Drained(t) => Sound(ToShutdownSent(t))
         /\ Drained(t) => Sound(ToShutdownAckSent(t))
         /\ Sound(ShutdownIssues(t))
<1> DEFINE u == [t EXCEPT !.state = "SHUTDOWN_SENT", !.pending = FALSE]
           v == [t EXCEPT !.state = "SHUTDOWN_ACK_SENT", !.pending = FALSE]
<1>1. u \in Tcb /\ v \in Tcb
  BY DEF Tcb, State
<1>2. Drained(t) => Sound(u) /\ Sound(v)
  BY DEF Sound, Drained, Tcb, FrontState
<1> HIDE DEF u, v
<1>3. sctp_timer_start(u, "SHUTDOWN") \in Tcb
  BY <1>1, TimerTypes DEF RxtType
<1>4. Drained(t) => Sound(sctp_timer_start(u, "SHUTDOWN"))
  BY <1>1, <1>2, SoundTimers
<1>5. Drained(t) => Sound(StartGuard(sctp_timer_start(u, "SHUTDOWN")))
  BY <1>3, <1>4, SoundTimers
<1>6. Drained(t) => Sound(sctp_timer_start(v, "SHUTDOWNACK"))
  BY <1>1, <1>2, SoundTimers
<1>7. ToShutdownSent(t) = StartGuard(sctp_timer_start(u, "SHUTDOWN"))
  BY DEF ToShutdownSent, u
<1>8. ToShutdownAckSent(t) = sctp_timer_start(v, "SHUTDOWNACK")
  BY DEF ToShutdownAckSent, v
<1> QED
  BY <1>5, <1>6, <1>7, <1>8 DEF ShutdownIssues

(* A new acknowledgement finds the queue not empty: with the queue empty    *)
(* nothing above the last ack was ever sent.                                *)
LEMMA SoundSack ==
  ASSUME NEW t \in Tcb, Sound(t), NEW m \in Packet
  PROVE  Sound(sctp_express_handle_sack(t, m))
<1> DEFINE u == [t EXCEPT !.acked = m.num, !.err = 0]
           v == IF Drained(u) THEN sctp_timer_stop(u, "SEND") ELSE u
<1>1. CASE NewAck(t, m)
  <2>1. ~Drained(t)
    <3>1. t.acked \in 0 .. MaxMsgs /\ t.out \in 0 .. MaxMsgs
          /\ m.num \in 0 .. MaxMsgs
      BY DEF Tcb, Packet
    <3> QED
      BY <3>1, <1>1, Bounds DEF NewAck, Drained
  <2>2. u \in Tcb
    BY DEF Tcb, Packet
  <2>3. Sound(u)
    <3>1. t.state \in SentStates => t.late
      BY <2>1 DEF Sound
    <3> QED
      BY <3>1 DEF Sound, Tcb
  <2> HIDE DEF u
  <2>4. v \in Tcb /\ Sound(v)
    BY <2>2, <2>3, TimerTypes, SoundTimers DEF RxtType
  <2> HIDE DEF v
  <2>5. Sound(ShutdownIssues(v))
    BY <2>4, SoundToShutdown
  <2> QED
    BY <2>5, <1>1 DEF sctp_express_handle_sack, u, v
<1>2. CASE ~NewAck(t, m)
  BY <1>2 DEF sctp_express_handle_sack
<1> QED
  BY <1>1, <1>2

LEMMA SoundProcessData ==
  ASSUME NEW t \in Tcb, Sound(t), NEW seq, NEW ks
  PROVE  Sound(sctp_process_data(t, seq, ks))
<1> DEFINE new == Fresh(t, seq, ks)
           map == t.map \cup new
           k == sctp_slide_mapping_arrays(map)
<1> HIDE DEF new, map, k
<1>1. Sound([t EXCEPT !.map = map, !.rcum = k,
                      !.err = IF new = {} THEN @ ELSE 0])
  BY DEF Sound, Drained, Tcb
<1> QED
  BY <1>1 DEF sctp_process_data, new, map, k

LEMMA SoundCookieCases ==
  ASSUME NEW t \in Tcb, Sound(t), NEW c \in Cookie
  PROVE  /\ Sound(CookieD(t, c))
         /\ Sound(CookieB(t, c))
         /\ Sound(CookieA(t, c))
         /\ Sound(RestartBegin(t))
         /\ t.state \notin FrontState => Sound(RestartEnd(t, c))
<1>1. c.my \in Nat /\ c.peer \in Nat /\ c.myseq \in Nat /\ c.peerseq \in Nat
  BY DEF Cookie
<1>2. sctp_timer_stop(t, "INIT") \in Tcb /\ Sound(sctp_timer_stop(t, "INIT"))
  BY TimerTypes, SoundTimers DEF RxtType
<1>3. Sound(CookieD(t, c))
  <2> DEFINE u == sctp_process_init(sctp_timer_stop(t, "INIT"),
                                    c.peer, c.peerseq)
  <2>1. u \in Tcb /\ Sound(u)
    BY <1>1, <1>2, ProcessInitType, SoundProcessInit
  <2> HIDE DEF u
  <2>2. Sound(MoveToOpen(u))
    BY <2>1, SoundTimers
  <2> QED
    BY <2>2 DEF CookieD, u
<1>4. Sound(CookieB(t, c))
  <2> DEFINE w == sctp_stop_all_cookie_timers(t)
             u == sctp_process_init(w, c.peer, c.peerseq)
  <2>1. w \in Tcb /\ Sound(w)
    BY StopAllType, SoundStopAll
  <2> HIDE DEF w
  <2>2. u \in Tcb /\ Sound(u)
    BY <1>1, <2>1, ProcessInitType, SoundProcessInit
  <2> HIDE DEF u
  <2>3. Sound(MoveToOpen(u))
    BY <2>2, SoundTimers
  <2> QED
    BY <2>3 DEF CookieB, u, w
<1>5. Sound(RestartBegin(t)) /\ RestartBegin(t).state \notin FrontState
  <2> DEFINE u == sctp_timer_stop(t, "INIT")
             v == IF t.pending \/ t.state # "SHUTDOWN_SENT"
                  THEN MoveToOpen(u) ELSE u
             w == [v EXCEPT !.map = {}]
  <2>1. v \in Tcb /\ Sound(v)
    BY <1>2, TimerTypes, SoundTimers
  <2>2. v.state \notin FrontState
    <3>1. MoveToOpen(u).state = "OPEN"
      BY <1>2 DEF MoveToOpen, Tcb
    <3>2. u.state = t.state
      BY DEF sctp_timer_stop, Tcb
    <3> QED
      BY <3>1, <3>2 DEF FrontState
  <2>3. RestartBegin(t) = w
    BY DEF RestartBegin
  <2> HIDE DEF v
  <2>4. /\ w.state = v.state /\ w.rxt = v.rxt /\ w.cookie = v.cookie
        /\ w.out = v.out /\ w.acked = v.acked /\ w.late = v.late
        /\ w.my_vtag = v.my_vtag
    BY <2>1 DEF Tcb
  <2> QED
    BY <2>1, <2>2, <2>3, <2>4 DEF Sound, Drained
<1>6. ASSUME NEW b \in Tcb, Sound(b), b.state \notin FrontState
      PROVE  Sound(RestartEnd(b, c))
  <2> DEFINE w == [b EXCEPT !.my_vtag = c.my, !.init_seq = c.myseq,
                            !.out = 0, !.acked = 0, !.late = FALSE]
  <2>1. w \in Tcb
    BY <1>1, ZeroInRange DEF Tcb
  <2>2. w.state = b.state /\ w.rxt = b.rxt /\ w.cookie = b.cookie
        /\ w.out = 0 /\ w.acked = 0
    BY DEF Tcb
  <2>3. Sound(w)
    BY <1>6, <2>2 DEF Sound, Drained
  <2> HIDE DEF w
  <2>4. Sound(sctp_process_init(w, c.peer, c.peerseq))
    BY <2>1, <2>3, SoundProcessInit
  <2> QED
    BY <2>4 DEF RestartEnd, w
<1>7. Sound(CookieA(t, c))
  BY <1>5, <1>6, CookieCaseTypes DEF CookieA
<1> QED
  BY <1>3, <1>4, <1>5, <1>6, <1>7

LEMMA SoundCookieAck ==
  ASSUME NEW t \in Tcb, Sound(t)
  PROVE  Sound(sctp_handle_cookie_ack(t)) /\ Sound(ImpliedCookieAck(t))
<1> DEFINE u == sctp_stop_all_cookie_timers(t)
           v == IF t.state = "COOKIE_ECHOED" THEN MoveToOpen(u) ELSE u
           w == [v EXCEPT !.err = 0]
<1>1. u \in Tcb /\ Sound(u) /\ u.rxt # "COOKIE"
  BY StopAllType, SoundStopAll
<1> HIDE DEF u
<1>2. v \in Tcb /\ Sound(v) /\ v.rxt # "COOKIE"
  <2>1. MoveToOpen(u).rxt = u.rxt
    BY <1>1 DEF MoveToOpen, Tcb
  <2> QED
    BY <1>1, <2>1, TimerTypes, SoundTimers
<1> HIDE DEF v
<1>3. w \in Tcb /\ Sound(w) /\ w.rxt # "COOKIE"
  BY <1>2 DEF Sound, Drained, Tcb
<1> HIDE DEF w
<1>4. Sound(sctp_toss_old_cookies(w))
  BY <1>3 DEF Sound, Drained, Tcb, sctp_toss_old_cookies
<1> QED
  BY <1>4 DEF sctp_handle_cookie_ack, ImpliedCookieAck, u, v, w

(* Only sctp_send_initiate_ack makes an INIT-ACK, so every other packet has *)
(* the cookie it needs.                                                     *)
LEMMA OtherPackets ==
  ASSUME NEW n \in Node, NEW t \in Tcb, NEW m \in Packet
  PROVE  /\ \A type : type # "INIT_ACK" =>
              /\ \A tag : Pkt(type, Peer(n), tag).type # "INIT_ACK"
              /\ Chunk(n, t, type).type # "INIT_ACK"
              /\ Reflect(n, m, type).type # "INIT_ACK"
         /\ Init_(n, t).type # "INIT_ACK"
         /\ \A k : CookieEcho(n, t, k).type # "INIT_ACK"
         /\ Sack(n, t).type # "INIT_ACK"
         /\ Shutdown_(n, t).type # "INIT_ACK"
         /\ \A k : Data(n, t, k).type # "INIT_ACK"
<1>1. \A type, tag : Pkt(type, Peer(n), tag).type = type
  BY DEF Pkt
<1>2. \A type : Chunk(n, t, type).type = type
  BY <1>1 DEF Chunk
<1>3. \A type : Reflect(n, m, type).type = type
  BY DEF Reflect, Pkt
<1>4. Init_(n, t).type = "INIT"
  BY DEF Init_, Pkt
<1>5. /\ \A k : CookieEcho(n, t, k).type = "COOKIE_ECHO"
      /\ Sack(n, t).type = "SACK"
      /\ Shutdown_(n, t).type = "SHUTDOWN"
      /\ \A k : Data(n, t, k).type = "DATA"
  BY DEF CookieEcho, Sack, Shutdown_, Data, Chunk, Pkt
<1> QED
  BY <1>1, <1>2, <1>3, <1>4, <1>5

LEMMA OtherSets ==
  ASSUME NEW n \in Node, NEW t \in Tcb, NEW u \in Tcb
  PROVE  /\ HasCookie(DataOut(n, t))
         /\ HasCookie(ShutdownPkts(n, u, t))
         /\ HasCookie(sctp_sack_check(n, t))
         /\ \A type \in ChunkType \ {"INIT_ACK"} : HasCookie({Chunk(n, t, type)})
<1>1. PICK m : m \in Packet
  BY ChunkIsPacket DEF ChunkType
<1> QED
  BY <1>1, OtherPackets
     DEF HasCookie, DataOut, ShutdownPkts, sctp_sack_check

LEMMA InitAckHasCookie ==
  ASSUME NEW n \in Node, NEW m, NEW tag \in Nat, tag # 0
  PROVE  HasCookie({InitAck(n, m, tag)})
<1>1. InitAck(n, m, tag).cookie.my = tag
  BY DEF InitAck, Pkt
<1>2. NoCookie.my = 0
  BY DEF NoCookie
<1> QED
  BY <1>1, <1>2 DEF HasCookie

-----------------------------------------------------------------------------
LEMMA PutSound ==
  ASSUME TypeOK, SoundInv, NEW n \in Node, NEW t, Sound(t),
         NEW ps, HasCookie(ps), Put(n, t, ps)
  PROVE  SoundInv'
<1>1. tcb \in [Node -> Tcb]
  BY DEF TypeOK
<1>2. \A i \in Node : Sound(tcb'[i])
  BY <1>1 DEF Put, SoundInv
<1>3. HasCookie(net')
  BY DEF Put, SoundInv, HasCookie
<1> QED
  BY <1>2, <1>3 DEF SoundInv, Sound, HasCookie, Drained

LEMMA OutputSound ==
  ASSUME TypeOK, SoundInv, NEW n \in Node, NEW t \in Tcb, Sound(t),
         NEW ps, HasCookie(ps), Output(n, t, ps)
  PROVE  SoundInv'
<1>1. Sound(sctp_chunk_output(t))
  BY SoundOutput
<1>2. HasCookie(ps \cup DataOut(n, t))
  BY OtherSets DEF HasCookie
<1>3. Put(n, sctp_chunk_output(t), ps \cup DataOut(n, t))
  BY DEF Put, Output
<1> QED
  BY <1>1, <1>2, <1>3, PutSound

LEMMA NoPackets == HasCookie({})
  BY DEF HasCookie

LEMMA FreeSound ==
  ASSUME TypeOK, SoundInv, NEW n \in Node, NEW ps, HasCookie(ps),
         sctp_free_assoc(n, ps)
  PROVE  SoundInv'
  BY PutSound, SoundClosed DEF sctp_free_assoc

LEMMA AbortSound ==
  ASSUME TypeOK, SoundInv, NEW n \in Node, NEW t \in Tcb,
         sctp_abort_an_association(n, t)
  PROVE  SoundInv'
  BY FreeSound, OtherSets DEF sctp_abort_an_association, ChunkType

LEMMA ReceiveDataSound ==
  ASSUME TypeOK, SoundInv, NEW n \in Node, NEW t \in Tcb, Sound(t),
         NEW seq \in Nat, NEW ks \in SUBSET (0 .. MaxMsgs),
         NEW ps, HasCookie(ps), ReceiveData(n, t, seq, ks, ps)
  PROVE  SoundInv'
<1> DEFINE u == sctp_process_data(t, seq, ks)
<1>1. u \in Tcb /\ Sound(u)
  BY ProcessDataType, SoundProcessData
<1> HIDE DEF u
<1>2. HasCookie(ps \cup sctp_sack_check(n, u))
  BY <1>1, OtherSets DEF HasCookie
<1>3. \/ sctp_abort_an_association(n, t)
      \/ Output(n, u, ps \cup sctp_sack_check(n, u))
  BY DEF ReceiveData, u
<1> QED
  BY <1>1, <1>2, <1>3, AbortSound, OutputSound

LEMMA AckCookieSound ==
  ASSUME TypeOK, SoundInv, NEW n \in Node, NEW t \in Tcb, Sound(t),
         NEW m \in Packet, AckCookie(n, t, m)
  PROVE  SoundInv'
<1> DEFINE u == sctp_toss_old_cookies(sctp_stop_all_cookie_timers(t))
           ack == {Chunk(n, u, "COOKIE_ACK")}
<1>1. u \in Tcb /\ Sound(u)
  BY StopAllType, TimerTypes, SoundStopAll
<1> HIDE DEF u
<1>2. HasCookie(ack)
  BY <1>1, OtherSets DEF ChunkType
<1> HIDE DEF ack
<1>3. m.seq \in Nat /\ 1 .. m.num \in SUBSET (0 .. MaxMsgs)
  <2>1. m.seq \in Nat /\ m.num \in 0 .. MaxMsgs
    BY DEF Packet
  <2> QED
    BY <2>1, Bounds
<1>4. ReceiveData(n, u, m.seq, 1 .. m.num, ack) \/ Output(n, u, ack)
  BY DEF AckCookie, u, ack
<1> QED
  BY <1>1, <1>2, <1>3, <1>4, ReceiveDataSound, OutputSound

-----------------------------------------------------------------------------
(***************************************************************************)
(* SoundInv, one lemma per group of actions.                               *)
(***************************************************************************)
LEMMA UserSound ==
  ASSUME TypeOK, SoundInv, NEW n \in Node, User(n) \/ SendFinish(n)
  PROVE  SoundInv'
<1> DEFINE t == tcb[n]
<1>1. t \in Tcb /\ Sound(t)
  BY DEF TypeOK, SoundInv
<1>2. ASSUME NEW u \in Tcb, Sound(u), NEW done, StartShutdown(n, u, done)
      PROVE  SoundInv'
  <2> DEFINE p == [u EXCEPT !.pending = TRUE]
  <2>1. p \in Tcb /\ Sound(p)
    BY <1>2 DEF Tcb, Sound, Drained
  <2> HIDE DEF p
  <2>2. StartGuard(p) \in Tcb /\ Sound(StartGuard(p))
    BY <2>1, TimerTypes, SoundTimers
  <2>3. Drained(u) => Sound(ToShutdownSent(u))
    BY <1>2, SoundToShutdown
  <2>4. ToShutdownSent(u) \in Tcb
    BY ToShutdownTypes
  <2>5. HasCookie({Shutdown_(n, ToShutdownSent(u))})
    <3>1. PICK q : q \in Packet
      BY ChunkIsPacket DEF ChunkType
    <3> QED
      BY <3>1, <2>4, OtherPackets DEF HasCookie
  <2>6. \/ Output(n, StartGuard(p), {})
        \/ Output(n, u, {})
        \/ Drained(u) /\ Output(n, ToShutdownSent(u),
                                {Shutdown_(n, ToShutdownSent(u))})
    BY <1>2 DEF StartShutdown, p
  <2> QED
    BY <2>2, <2>3, <2>4, <2>5, <2>6, <1>2, OutputSound, NoPackets
<1>3. CASE Connect(n)
  <2> DEFINE x == NewTcb(tags[n] + 1, tcbs[n] + 1)
             u == [x EXCEPT !.state = "COOKIE_WAIT"]
             v == sctp_timer_start(u, "INIT")
  <2>1. tags[n] + 1 \in Nat /\ tcbs[n] + 1 \in Nat /\ tags[n] + 1 # 0
    BY DEF TypeOK
  <2>2. x \in Tcb
    BY <2>1, NewTcbType
  <2>3. x.rxt = "NONE" /\ x.my_vtag = tags[n] + 1
    BY ClosedType DEF NewTcb, Closed, Tcb
  <2> HIDE DEF x
  <2>4. u \in Tcb
    BY <2>2 DEF Tcb, State, FrontState
  <2>5. u.rxt = "NONE" /\ u.my_vtag = tags[n] + 1 /\ u.state = "COOKIE_WAIT"
    BY <2>2, <2>3 DEF Tcb
  <2>6. Sound(u)
    BY <2>5, <2>1 DEF Sound, SentStates
  <2> HIDE DEF u
  <2>7. v \in Tcb /\ Sound(v)
    BY <2>4, <2>6, TimerTypes, SoundTimers DEF RxtType
  <2> HIDE DEF v
  <2>8. Put(n, v, {Init_(n, v)})
    BY <1>3 DEF Connect, v, u, x
  <2>9. HasCookie({Init_(n, v)})
    <3>1. PICK q : q \in Packet
      BY <2>7, ChunkIsPacket DEF ChunkType
    <3> QED
      BY <3>1, <2>7, OtherPackets DEF HasCookie
  <2> QED
    BY <2>7, <2>8, <2>9, PutSound
<1>4. CASE SendStart(n)
  <2>1. Sound([t EXCEPT !.sending = TRUE])
    BY <1>1 DEF Sound, Drained, Tcb
  <2> QED
    BY <2>1, <1>4, PutSound, NoPackets DEF SendStart
<1>5. CASE SendFinish(n)
  <2> DEFINE u == [t EXCEPT !.sending = FALSE, !.out = @ + 1,
                            !.late = @ \/ t.state \in SentStates]
  <2>1. t.out + 1 \in 0 .. MaxMsgs
    BY <1>1, <1>5, Bounds DEF SendFinish, Tcb
  <2>2. u \in Tcb
    BY <1>1, <2>1 DEF Tcb
  <2>3. Sound(u)
    <3>1. /\ u.state = t.state /\ u.rxt = t.rxt /\ u.cookie = t.cookie
          /\ u.my_vtag = t.my_vtag
          /\ u.late = (t.late \/ t.state \in SentStates)
      BY <1>1 DEF Tcb
    <3> QED
      BY <3>1, <1>1 DEF Sound
  <2> QED
    BY <2>2, <2>3, <1>5, OutputSound, NoPackets DEF SendFinish
<1>6. CASE UserShutdown(n)
  BY <1>1, <1>2, <1>6 DEF UserShutdown
<1>7. CASE UserClose(n)
  <2>1. [t EXCEPT !.sock = FALSE] \in Tcb /\ Sound([t EXCEPT !.sock = FALSE])
    BY <1>1 DEF Tcb, Sound, Drained
  <2> QED
    BY <1>1, <1>2, <1>7, <2>1, FreeSound, AbortSound, NoPackets DEF UserClose
<1>8. CASE UserAbort(n)
  BY <1>1, <1>8, FreeSound, AbortSound, NoPackets DEF UserAbort
<1>9. CASE Reboot(n)
  BY <1>9, FreeSound, NoPackets DEF Reboot
<1> QED
  BY <1>3, <1>4, <1>5, <1>6, <1>7, <1>8, <1>9 DEF User

LEMMA SetupSound ==
  ASSUME TypeOK, SoundInv, NEW n \in Node, NEW m \in net,
         \/ HandleInit(n, m) \/ HandleInitAck(n, m) \/ HandleCookieEcho(n, m)
         \/ StaleCookie(n, m) \/ HandleStale(n, m) \/ HandleCookieAck(n, m)
  PROVE  SoundInv'
<1> DEFINE t == tcb[n]
<1>1. t \in Tcb /\ m \in Packet /\ Sound(t)
  BY DEF TypeOK, SoundInv
<1>2. /\ m.tag \in Nat /\ m.seq \in Nat /\ m.cookie \in Cookie
      /\ m.cookie.peer \in Nat
  BY <1>1 DEF Packet, Cookie
<1>3. CASE HandleInit(n, m)
  <2>1. /\ t.my_vtag \in Nat
        /\ tags[n] + 1 \in Nat /\ tags[n] + 1 # 0
    BY <1>1 DEF Tcb, TypeOK
  <2>2. t.state \in FrontState => t.my_vtag # 0
    BY <1>1 DEF Sound
  <2>3. /\ HasCookie({Pkt("ABORT", Peer(n), m.tag)})
        /\ HasCookie({Chunk(n, t, "SHUTDOWN_ACK")})
    BY <1>1, OtherPackets DEF HasCookie
  <2>4. /\ t.state \in FrontState => HasCookie({InitAck(n, m, t.my_vtag)})
        /\ HasCookie({InitAck(n, m, tags[n] + 1)})
    BY <2>1, <2>2, InitAckHasCookie
  <2>5. \A p : HasCookie({p}) /\ (Put(n, t, {p}) \/ Output(n, t, {p}))
              => SoundInv'
    BY <1>1, PutSound, OutputSound
  <2> QED
    BY <1>3, <2>3, <2>4, <2>5 DEF HandleInit
<1>4. CASE HandleInitAck(n, m)
  <2> DEFINE u == sctp_process_init(sctp_timer_stop(t, "INIT"), m.tag, m.seq)
             w == [u EXCEPT !.state = "COOKIE_ECHOED", !.err = 0,
                            !.cookie = m.cookie]
             v == sctp_timer_start(w, "COOKIE")
  <2>1. CASE sctp_free_assoc(n, {})
    BY <2>1, FreeSound, NoPackets
  <2>2. CASE /\ t.state = "COOKIE_WAIT"
             /\ Output(n, v, {CookieEcho(n, v, v.out)})
    <3>1. m.cookie # NoCookie
      BY <1>4 DEF HandleInitAck, SoundInv, HasCookie
    <3>2. t.my_vtag # 0
      BY <2>2, <1>1 DEF Sound, FrontState
    <3>3. sctp_timer_stop(t, "INIT") \in Tcb
          /\ sctp_timer_stop(t, "INIT").my_vtag = t.my_vtag
      BY <1>1, TimerTypes DEF RxtType, sctp_timer_stop, Tcb
    <3>4. u \in Tcb
      BY <1>2, <3>3, ProcessInitType
    <3>5. u.my_vtag = t.my_vtag
      BY <3>3 DEF sctp_process_init, Tcb
    <3> HIDE DEF u
    <3>6. w \in Tcb
      BY <3>4, <1>2 DEF Tcb, State, FrontState
    <3>7. /\ w.state = "COOKIE_ECHOED" /\ w.cookie = m.cookie
          /\ w.my_vtag = u.my_vtag
      BY <3>4 DEF Tcb
    <3>8. Sound(w)
      BY <3>1, <3>2, <3>5, <3>7 DEF Sound, SentStates
    <3> HIDE DEF w
    <3>9. v \in Tcb /\ Sound(v)
      BY <3>1, <3>6, <3>7, <3>8, TimerTypes, SoundTimers DEF RxtType
    <3> HIDE DEF v
    <3>10. HasCookie({CookieEcho(n, v, v.out)})
      BY <3>9, <1>1, OtherPackets DEF HasCookie
    <3> QED
      BY <2>2, <3>9, <3>10, OutputSound
  <2> QED
    BY <2>1, <2>2, <1>4 DEF HandleInitAck
<1>5. CASE HandleCookieEcho(n, m)
  <2> DEFINE c == m.cookie
             u == sctp_process_init(NewTcb(c.my, tcbs[n] + 1),
                                    c.peer, c.peerseq)
             v == [u EXCEPT !.init_seq = c.myseq]
  <2>1. /\ c.my \in Nat /\ c.peer \in Nat /\ c.myseq \in Nat
        /\ c.peerseq \in Nat /\ tcbs[n] + 1 \in Nat
    BY <1>2 DEF Cookie, TypeOK
  <2>2. \A w \in Tcb : Sound(w) /\ AckCookie(n, w, m) => SoundInv'
    BY <1>1, AckCookieSound
  <2>3. CASE AckCookie(n, MoveToOpen(v), m)
    <3>1. NewTcb(c.my, tcbs[n] + 1) \in Tcb
      BY <2>1, NewTcbType
    <3>2. Sound(NewTcb(c.my, tcbs[n] + 1))
      BY ClosedType
         DEF NewTcb, Closed, Sound, Drained, SentStates, FrontState, Tcb
    <3>3. u \in Tcb /\ Sound(u)
      BY <3>1, <3>2, <2>1, ProcessInitType, SoundProcessInit
    <3> HIDE DEF u
    <3>4. v \in Tcb /\ Sound(v)
      BY <3>3, <2>1 DEF Tcb, Sound, Drained
    <3> HIDE DEF v
    <3>5. MoveToOpen(v) \in Tcb /\ Sound(MoveToOpen(v))
      BY <3>4, TimerTypes, SoundTimers
    <3> QED
      BY <3>5, <2>2, <2>3
  <2>4. CASE sctp_process_cookie_existing(n, t, m)
    <3>1. /\ CookieD(t, c) \in Tcb /\ Sound(CookieD(t, c))
          /\ CookieB(t, c) \in Tcb /\ Sound(CookieB(t, c))
          /\ CookieA(t, c) \in Tcb /\ Sound(CookieA(t, c))
      BY <1>1, <1>2, CookieCaseTypes, SoundCookieCases
    <3>2. Output(n, t, {Chunk(n, t, "SHUTDOWN_ACK")}) => SoundInv'
      BY <1>1, OtherSets, OutputSound DEF ChunkType
    <3> QED
      BY <2>2, <2>4, <3>1, <3>2 DEF sctp_process_cookie_existing
  <2> QED
    BY <2>3, <2>4, <1>5 DEF HandleCookieEcho
<1>6. CASE StaleCookie(n, m)
  <2>1. HasCookie({Pkt("STALE", Peer(n), m.cookie.peer)})
    BY <1>1, OtherPackets DEF HasCookie
  <2> QED
    BY <2>1, <1>1, <1>6, PutSound DEF StaleCookie
<1>7. CASE HandleStale(n, m)
  <2> DEFINE u == sctp_toss_old_cookies(sctp_stop_all_cookie_timers(t))
             w == [u EXCEPT !.state = "COOKIE_WAIT", !.stale = @ + 1]
             v == sctp_timer_start(w, "INIT")
  <2>1. u \in Tcb /\ Sound(u)
    BY <1>1, TimerTypes, StopAllType, SoundStopAll
  <2>2. u.my_vtag # 0
    <3>1. t.my_vtag # 0
      BY <1>1, <1>7 DEF HandleStale, Sound, FrontState
    <3>2. \A y \in Tcb : \A type : sctp_timer_stop(y, type).my_vtag = y.my_vtag
      BY DEF sctp_timer_stop, Tcb
    <3>3. sctp_timer_stop(t, "COOKIE") \in Tcb
      BY <1>1, TimerTypes DEF RxtType
    <3>4. sctp_stop_all_cookie_timers(t).my_vtag = t.my_vtag
      BY <1>1, <3>2, <3>3 DEF sctp_stop_all_cookie_timers
    <3>5. u.my_vtag = sctp_stop_all_cookie_timers(t).my_vtag
      BY <1>1, StopAllType DEF sctp_toss_old_cookies, Tcb
    <3> QED
      BY <3>1, <3>4, <3>5
  <2> HIDE DEF u
  <2>3. w \in Tcb
    <3>1. u.stale + 1 \in Nat
      BY <2>1 DEF Tcb
    <3>2. "COOKIE_WAIT" \in State
      BY DEF State, FrontState
    <3> QED
      BY <2>1, <3>1, <3>2 DEF Tcb
  <2>4. /\ w.state = "COOKIE_WAIT" /\ w.my_vtag = u.my_vtag
        /\ w.rxt = u.rxt /\ w.cookie = u.cookie
    BY <2>1 DEF Tcb
  <2>5. Sound(w)
    BY <2>1, <2>2, <2>4 DEF Sound, SentStates
  <2> HIDE DEF w
  <2>6. v \in Tcb /\ Sound(v)
    BY <2>3, <2>5, TimerTypes, SoundTimers DEF RxtType
  <2> HIDE DEF v
  <2>7. sctp_free_assoc(n, {}) \/ Put(n, v, {Init_(n, v)})
    BY <1>7 DEF HandleStale, u, v, w
  <2>8. HasCookie({Init_(n, v)})
    BY <2>6, <1>1, OtherPackets DEF HasCookie
  <2> QED
    BY <2>6, <2>7, <2>8, FreeSound, PutSound, NoPackets
<1>8. CASE HandleCookieAck(n, m)
  BY <1>1, <1>8, CookieAckTypes, SoundCookieAck, FreeSound, OutputSound,
     NoPackets DEF HandleCookieAck
<1> QED
  BY <1>3, <1>4, <1>5, <1>6, <1>7, <1>8

LEMMA TransferSound ==
  ASSUME TypeOK, SoundInv, NEW n \in Node, NEW m \in net,
         HandleData(n, m) \/ HandleSack(n, m)
  PROVE  SoundInv'
<1> DEFINE t == ImpliedCookieAck(tcb[n])
<1>1. t \in Tcb /\ m \in Packet /\ Sound(t)
  BY CookieAckTypes, SoundCookieAck DEF TypeOK, SoundInv
<1>2. m.seq \in Nat /\ {m.num} \in SUBSET (0 .. MaxMsgs)
  BY <1>1 DEF Packet
<1> HIDE DEF t
<1>3. CASE HandleData(n, m)
  <2>1. HasCookie({Reflect(n, m, "ABORT")})
    BY <1>1, OtherPackets DEF HasCookie
  <2>2. \/ Put(n, t, {Reflect(n, m, "ABORT")})
        \/ ReceiveData(n, t, m.seq, {m.num}, {})
    BY <1>3 DEF HandleData, t
  <2> QED
    BY <2>1, <2>2, <1>1, <1>2, PutSound, ReceiveDataSound, NoPackets
<1>4. CASE HandleSack(n, m)
  <2> DEFINE u == sctp_express_handle_sack(t, m)
             w == ShutdownIssues(t)
  <2>1. u \in Tcb /\ w \in Tcb /\ Sound(u) /\ Sound(w)
    BY <1>1, SackType, ToShutdownTypes, SoundSack, SoundToShutdown
  <2> HIDE DEF u, w
  <2>2. HasCookie(ShutdownPkts(n, t, u)) /\ HasCookie(ShutdownPkts(n, t, w))
    BY <1>1, <2>1, OtherSets
  <2>3. \/ Output(n, u, ShutdownPkts(n, t, u))
        \/ Output(n, w, ShutdownPkts(n, t, w))
    BY <1>4 DEF HandleSack, t, u, w
  <2> QED
    BY <2>1, <2>2, <2>3, OutputSound
<1> QED
  BY <1>3, <1>4

LEMMA TeardownSound ==
  ASSUME TypeOK, SoundInv, NEW n \in Node, NEW m \in net,
         \/ HandleShutdown(n, m) \/ HandleShutdownAck(n, m)
         \/ HandleShutdownComplete(n, m) \/ HandleAbort(n, m)
         \/ OutOfTheBlue(n, m)
  PROVE  SoundInv'
<1> DEFINE t == tcb[n]
<1>1. t \in Tcb /\ m \in Packet /\ Sound(t)
  BY DEF TypeOK, SoundInv
<1>2. \A type \in ChunkType \ {"INIT_ACK"} :
        HasCookie({Reflect(n, m, type)}) /\ HasCookie({Chunk(n, t, type)})
  BY <1>1, OtherPackets DEF HasCookie
<1>3. CASE HandleShutdown(n, m)
  <2> DEFINE u == sctp_express_handle_sack(t, m)
             v == IF u.sock /\ u.state = "OPEN"
                  THEN [u EXCEPT !.state = "SHUTDOWN_RECEIVED",
                                 !.pending = FALSE]
                  ELSE u
             w == IF v.state = "SHUTDOWN_SENT" THEN sctp_timer_stop(v, "SHUTDOWN")
                                               ELSE v
             x == ToShutdownAckSent(w)
  <2>1. u \in Tcb /\ Sound(u)
    BY <1>1, SackType, SoundSack
  <2> HIDE DEF u
  <2>2. v \in Tcb
    BY <2>1 DEF Tcb, State
  <2>3. Sound(v)
    BY <2>1 DEF Tcb, Sound, Drained, SentStates, FrontState
  <2> HIDE DEF v
  <2>4. w \in Tcb /\ Sound(w)
    BY <2>2, <2>3, TimerTypes, SoundTimers DEF RxtType
  <2> HIDE DEF w
  <2>5. x \in Tcb /\ (Drained(w) => Sound(x))
    BY <2>4, ToShutdownTypes, SoundToShutdown
  <2> HIDE DEF x
  <2>6. /\ HasCookie(ShutdownPkts(n, t, u))
        /\ HasCookie(ShutdownPkts(n, t, u) \cup {Chunk(n, x, "SHUTDOWN_ACK")})
    BY <1>1, <2>1, <2>5, OtherSets DEF HasCookie, ChunkType
  <2>7. \/ /\ Drained(w)
           /\ Output(n, x, ShutdownPkts(n, t, u)
                             \cup {Chunk(n, x, "SHUTDOWN_ACK")})
        \/ Output(n, w, ShutdownPkts(n, t, u))
    BY <1>3 DEF HandleShutdown, u, v, w, x
  <2> QED
    BY <2>4, <2>5, <2>6, <2>7, OutputSound
<1>4. CASE HandleShutdownAck(n, m)
  <2>1. \/ Put(n, t, {Reflect(n, m, "SHUTDOWN_COMPLETE")})
        \/ sctp_free_assoc(n, {Chunk(n, t, "SHUTDOWN_COMPLETE")})
    BY <1>4 DEF HandleShutdownAck
  <2>2. "SHUTDOWN_COMPLETE" \in ChunkType \ {"INIT_ACK"}
    BY DEF ChunkType
  <2> QED
    BY <2>1, <2>2, <1>1, <1>2, PutSound, FreeSound
<1>5. CASE HandleShutdownComplete(n, m) \/ HandleAbort(n, m)
  BY <1>5, FreeSound, NoPackets DEF HandleShutdownComplete, HandleAbort
<1>6. CASE OutOfTheBlue(n, m)
  <2>1. "ABORT" \in ChunkType \ {"INIT_ACK"}
    BY DEF ChunkType
  <2> QED
    BY <2>1, <1>1, <1>2, <1>6, PutSound DEF OutOfTheBlue
<1> QED
  BY <1>3, <1>4, <1>5, <1>6

LEMMA TimerSound ==
  ASSUME TypeOK, SoundInv, NEW n \in Node, Timer(n)
  PROVE  SoundInv'
<1> DEFINE t == tcb[n]
<1>1. t \in Tcb /\ Sound(t)
  BY DEF TypeOK, SoundInv
<1>2. Expired(t) \in Tcb /\ Sound(Expired(t))
  BY <1>1, TimerTypes, SoundTimers
<1>3. Counted(t) \in Tcb /\ Sound(Counted(t)) /\ Counted(t).cookie = t.cookie
  <2>1. Expired(t).cookie = t.cookie
    BY <1>1 DEF Expired, Tcb
  <2>2. Counted(t).cookie = Expired(t).cookie
    BY <1>2 DEF Counted, Tcb
  <2> QED
    BY <1>1, <2>1, <2>2, CountedType, SoundCounted
<1>4. /\ HasCookie({Init_(n, t)}) /\ HasCookie({CookieEcho(n, t, 0)})
      /\ HasCookie({Shutdown_(n, t)})
      /\ HasCookie({Chunk(n, t, "SHUTDOWN_ACK")})
  <2>1. PICK q : q \in Packet
    BY <1>1, ChunkIsPacket DEF ChunkType
  <2> QED
    BY <2>1, <1>1, OtherPackets DEF HasCookie
<1>5. ASSUME NEW max, NEW type \in RxtType, NEW ps, HasCookie(ps),
             type # "COOKIE" \/ t.cookie # NoCookie,
             CountOrAbort(n, max, type, ps)
      PROVE  SoundInv'
  <2>1. /\ sctp_timer_start(Counted(t), type) \in Tcb
        /\ Sound(sctp_timer_start(Counted(t), type))
    BY <1>3, <1>5, TimerTypes, SoundTimers
  <2> QED
    BY <2>1, <1>1, <1>5, AbortSound, OutputSound DEF CountOrAbort
<1>6. sctp_abort_an_association(n, t) => SoundInv'
  BY <1>1, AbortSound
<1>7. Put(n, Expired(t), {}) => SoundInv'
  BY <1>2, PutSound, NoPackets
<1>8. CASE InitTimer(n)
  BY <1>8, <1>4, <1>5, <1>7 DEF InitTimer, RxtType
<1>9. CASE CookieTimer(n)
  BY <1>9, <1>4, <1>5, <1>6, <1>7 DEF CookieTimer, RxtType
<1>10. CASE ShutdownTimer(n)
  BY <1>10, <1>4, <1>5 DEF ShutdownTimer, RxtType
<1>11. CASE ShutdownAckTimer(n)
  BY <1>11, <1>4, <1>5 DEF ShutdownAckTimer, RxtType
<1>12. CASE T3Timer(n)
  BY <1>12, <1>3, <1>6, OutputSound, NoPackets DEF T3Timer
<1>13. CASE GuardTimer(n)
  BY <1>13, <1>6 DEF GuardTimer
<1> QED
  BY <1>8, <1>9, <1>10, <1>11, <1>12, <1>13 DEF Timer

(* The two halves of a restart. *)
LEMMA RestartSound ==
  ASSUME TypeOK, WindowInv, SoundInv, NEW n \in Node,
         RestartRelocks(n) \/ \E m \in net : RestartUnlocks(n, m)
  PROVE  SoundInv'
<1>1. tcb[n] \in Tcb /\ Sound(tcb[n]) /\ net \subseteq Packet
  BY DEF TypeOK, SoundInv
<1>2. CASE \E m \in net : RestartUnlocks(n, m)
  <2>1. PICK m \in net : RestartUnlocks(n, m)
    BY <1>2
  <2>2. m.cookie \in Cookie
    BY <1>1 DEF Packet
  <2>3. RestartBegin(tcb[n]) \in Tcb /\ Sound(RestartBegin(tcb[n]))
    BY <1>1, <2>2, CookieCaseTypes, SoundCookieCases
  <2> QED
    BY <2>1, <2>3, PutSound, NoPackets DEF RestartUnlocks
<1>3. CASE RestartRelocks(n)
  <2>1. PICK m \in waiting[n] : AckCookie(n, RestartEnd(tcb[n], m.cookie), m)
    BY <1>3 DEF RestartRelocks
  <2>2. m \in Packet /\ tcb[n].state \notin FrontState
    BY <1>1, <2>1 DEF WindowInv, Window, FrontState
  <2>3. m.cookie \in Cookie
    BY <2>2 DEF Packet
  <2>4. /\ RestartEnd(tcb[n], m.cookie) \in Tcb
        /\ Sound(RestartEnd(tcb[n], m.cookie))
    BY <1>1, <2>2, <2>3, CookieCaseTypes, SoundCookieCases
  <2> QED
    BY <2>1, <2>2, <2>4, AckCookieSound
<1> QED
  BY <1>2, <1>3

LEMMA SoundInductive ==
  TypeOK /\ WindowInv /\ SoundInv /\ [Next]_vars => SoundInv'
<1> SUFFICES ASSUME TypeOK, WindowInv, SoundInv, [Next]_vars PROVE SoundInv'
  OBVIOUS
<1>1. ASSUME NEW n \in Node, User(n) \/ SendFinish(n) PROVE SoundInv'
  BY <1>1, UserSound
<1>2. ASSUME NEW n \in Node, Timer(n) PROVE SoundInv'
  BY <1>2, TimerSound
<1>3. ASSUME NEW n \in Node, NEW m \in net, Receive(n, m) PROVE SoundInv'
  BY <1>3, SetupSound, TransferSound, TeardownSound DEF Receive
<1>4. ASSUME NEW n \in Node,
             RestartRelocks(n) \/ \E m \in net : RestartUnlocks(n, m)
      PROVE  SoundInv'
  BY <1>4, RestartSound
<1>5. CASE UNCHANGED vars
  BY <1>5 DEF SoundInv, Sound, HasCookie, Drained, vars
<1> QED
  BY <1>1, <1>2, <1>3, <1>4, <1>5 DEF Next

LEMMA SoundAlways == Spec => []SoundInv
<1>1. Init => SoundInv
  BY SoundClosed DEF Init, SoundInv, HasCookie
<1> QED
  BY <1>1, SoundInductive, WindowAlways, TypeCorrect, PTL DEF Spec

(***************************************************************************)
(* SHUTDOWN and SHUTDOWN-ACK go out with empty send queues, whatever       *)
(* collides, restarts or repeats, and only a send() that had passed its    *)
(* state check before can put something there afterwards.                  *)
(***************************************************************************)
THEOREM ShutdownAfterDrain == Spec => []QueuesEmptyAtShutdown
<1>1. SoundInv => QueuesEmptyAtShutdown
  BY DEF SoundInv, Sound, QueuesEmptyAtShutdown
<1> QED
  BY <1>1, SoundAlways, PTL

(***************************************************************************)
(* The COOKIE timer of sctp_cookie_timer always finds a COOKIE-ECHO to     *)
(* send again, through stale cookies, collisions and restarts.             *)
(***************************************************************************)
THEOREM CookieTimerServed == Spec => []CookieTimerHasCookie
<1>1. SoundInv => CookieTimerHasCookie
  BY DEF SoundInv, Sound, CookieTimerHasCookie
<1> QED
  BY <1>1, SoundAlways, PTL
=============================================================================

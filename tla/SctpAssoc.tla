------------------------------ MODULE SctpAssoc ------------------------------
(***************************************************************************)
(* The association state machine of KERN/netinet: set-up (INIT, INIT-ACK,  *)
(* COOKIE-ECHO, COOKIE-ACK), collision and restart through the state       *)
(* cookie and its tie-tags, graceful shutdown, abort, and the              *)
(* retransmission timers that drive them, at two single-homed endpoints    *)
(* joined by a network that may lose, duplicate, delay and reorder.        *)
(*                                                                         *)
(* Abstractions.  A verification tag and the initial TSN drawn with it are *)
(* small numbers, unique per endpoint (sctp_select_a_tag); a TSN space is  *)
(* named by its initial TSN, and a data chunk by its space and its offset  *)
(* in it, so chunks of another space never fall in the receive window.     *)
(* The two nonces of a TCB are one number.  Messages are unordered and one *)
(* chunk long; the two mapping arrays are one set of offsets, too few to   *)
(* make them slide.  A chunk not yet acknowledged may be sent again        *)
(* whenever the code may send data, windows never block a sender, a cookie *)
(* may be found stale at any time, and the key that signs cookies changes  *)
(* when the host reboots.  A handler runs under the TCB lock and is one    *)
(* step, but for two: a send (SendStart, SendFinish), and, if SlowRestart, *)
(* a restart whose thread gives the lock up half way (RestartUnlocks,      *)
(* RestartRelocks), while another thread takes in DATA.                    *)
(***************************************************************************)
EXTENDS Naturals

CONSTANTS
  A, B,            \* the two endpoints
  Listeners,       \* endpoints with a listening socket (so_qlimit > 0)
  UserOps,         \* the calls the application of each endpoint makes
  MaxTag,          \* bound on the tags an endpoint draws
  MaxTcb,          \* bound on the TCBs an endpoint allocates
  MaxMsgs,         \* bound on the user messages per association
  MaxBoot,         \* bound on the reboots of an endpoint
  MaxInitTimes,    \* asoc.max_init_times
  MaxSendTimes,    \* asoc.max_send_times
  SlowRestart,     \* a restart may have to wait for the lock it gave up
  GapData          \* and DATA may be taken meanwhile

Node == {A, B}
UserOp == {"connect", "send", "shutdown", "close", "abort", "reboot", "stale"}

ASSUME NodeAssumption == A # B /\ Listeners \subseteq Node
ASSUME OpsAssumption == UserOps \in [Node -> SUBSET UserOp]
ASSUME BoundAssumption ==
  {MaxTag, MaxTcb, MaxMsgs, MaxBoot, MaxInitTimes, MaxSendTimes} \subseteq Nat
ASSUME SlowAssumption == SlowRestart \in BOOLEAN /\ GapData \in BOOLEAN

VARIABLES
  tcb,      \* endpoint -> its transmission control block
  net,      \* every packet ever sent: a packet may arrive any number of times
  tags,     \* endpoint -> tags drawn so far
  tcbs,     \* endpoint -> TCBs allocated so far, the source of the nonces
  key,      \* endpoint -> the secret that signs its cookies
  waiting,  \* endpoint -> the COOKIE-ECHO whose restart waits for the locks
  dlv,      \* history: chunks handed to the application
  ended     \* history: associations ended by the shutdown handshake

vars == <<tcb, net, tags, tcbs, key, waiting, dlv, ended>>

Peer(n) == IF n = A THEN B ELSE A

(***************************************************************************)
(* The transmission control block.  "NONE" in rxt is an idle timer; rxt is *)
(* the one slot net->rxt_timer that the T3, INIT, COOKIE, SHUTDOWN and     *)
(* SHUTDOWN-ACK timers of a destination share.                             *)
(***************************************************************************)
FrontState == {"COOKIE_WAIT", "COOKIE_ECHOED"}
State == FrontState \cup {"CLOSED", "OPEN", "SHUTDOWN_SENT",
                          "SHUTDOWN_RECEIVED", "SHUTDOWN_ACK_SENT"}
RxtType == {"NONE", "SEND", "INIT", "COOKIE", "SHUTDOWN", "SHUTDOWNACK"}
SendStates == {"OPEN", "SHUTDOWN_RECEIVED"}
SentStates == {"SHUTDOWN_SENT", "SHUTDOWN_ACK_SENT"}

Cookie == [my : Nat, peer : Nat, myseq : Nat, peerseq : Nat,
           tie : Nat, key : Nat]
NoCookie == [my |-> 0, peer |-> 0, myseq |-> 0, peerseq |-> 0,
             tie |-> 0, key |-> 0]

Tcb == [state : State, pending : BOOLEAN, sock : BOOLEAN,
        my_vtag : Nat, peer_vtag : Nat, nonce : Nat,
        init_seq : Nat, peer_seq : Nat, cookie : Cookie,
        rxt : RxtType, guard : BOOLEAN, err : Nat, stale : Nat,
        out : 0 .. MaxMsgs, acked : 0 .. MaxMsgs, rcum : 0 .. MaxMsgs,
        map : SUBSET (1 .. MaxMsgs),
        sending : BOOLEAN, late : BOOLEAN]

Closed == [state |-> "CLOSED", pending |-> FALSE, sock |-> TRUE,
           my_vtag |-> 0, peer_vtag |-> 0, nonce |-> 0,
           init_seq |-> 0, peer_seq |-> 0, cookie |-> NoCookie,
           rxt |-> "NONE", guard |-> FALSE, err |-> 0, stale |-> 0,
           out |-> 0, acked |-> 0, rcum |-> 0, map |-> {},
           sending |-> FALSE, late |-> FALSE]

(* sctp_init_asoc with an override tag: a new TCB owns its tag, TSN, nonce. *)
NewTcb(tag, nonce) ==
  [Closed EXCEPT !.my_vtag = tag, !.init_seq = tag, !.nonce = nonce]

Drained(t) == t.out = t.acked

(***************************************************************************)
(* Packets.  One record shape for every chunk type; seq/num is a TSN.      *)
(***************************************************************************)
ChunkType == {"INIT", "INIT_ACK", "COOKIE_ECHO", "COOKIE_ACK", "STALE",
              "DATA", "SACK", "SHUTDOWN", "SHUTDOWN_ACK",
              "SHUTDOWN_COMPLETE", "ABORT"}

Packet == [type : ChunkType, to : Node, vtag : Nat, tbit : BOOLEAN,
           tag : Nat, seq : Nat, num : 0 .. MaxMsgs, cookie : Cookie]

Pkt(type, to, vtag) ==
  [type |-> type, to |-> to, vtag |-> vtag, tbit |-> FALSE,
   tag |-> 0, seq |-> 0, num |-> 0, cookie |-> NoCookie]

(* A packet on this association: it carries the tag the peer chose. *)
Chunk(n, t, type) == Pkt(type, Peer(n), t.peer_vtag)

Init_(n, t) ==
  [Pkt("INIT", Peer(n), 0) EXCEPT !.tag = t.my_vtag, !.seq = t.init_seq]
(* k data chunks ride in the packet of the first COOKIE-ECHO. *)
CookieEcho(n, t, k) ==
  [Chunk(n, t, "COOKIE_ECHO") EXCEPT !.cookie = t.cookie,
                                     !.seq = t.init_seq, !.num = k]
Sack(n, t) == [Chunk(n, t, "SACK") EXCEPT !.seq = t.peer_seq, !.num = t.rcum]
Shutdown_(n, t) ==
  [Chunk(n, t, "SHUTDOWN") EXCEPT !.seq = t.peer_seq, !.num = t.rcum]
Data(n, t, k) == [Chunk(n, t, "DATA") EXCEPT !.seq = t.init_seq, !.num = k]

(* A reply made without a TCB reflects the tag and sets the T bit. *)
Reflect(n, m, type) == [Pkt(type, Peer(n), m.vtag) EXCEPT !.tbit = TRUE]

(***************************************************************************)
(* Timers.  A slot in use refuses a second timer, and a stop for another   *)
(* type than the one running does nothing.                                 *)
(***************************************************************************)
sctp_timer_start(t, type) ==
  IF t.rxt = "NONE" THEN [t EXCEPT !.rxt = type] ELSE t
(* Mutant: a stop without the joint-use check of the shared slot. *)
timer_stop_any_type(t, type) == [t EXCEPT !.rxt = "NONE"]

sctp_timer_stop(t, type) ==
  IF t.rxt = type THEN [t EXCEPT !.rxt = "NONE"] ELSE t
(* Mutant: only the INIT timer is looked for. *)
stop_init_timer_only(t) == sctp_timer_stop(t, "INIT")

sctp_stop_all_cookie_timers(t) ==
  sctp_timer_stop(sctp_timer_stop(t, "COOKIE"), "INIT")
sctp_toss_old_cookies(t) == [t EXCEPT !.cookie = NoCookie]
StartGuard(t) == [t EXCEPT !.guard = TRUE]

(* SCTP_SET_STATE(OPEN) keeps SHUTDOWN_PENDING, and then arms the guard. *)
MoveToOpen(t) == [t EXCEPT !.state = "OPEN", !.guard = @ \/ t.pending]

(***************************************************************************)
(* The end of every handler: sctp_chunk_output sends what may be sent and  *)
(* starts T3 for it.                                                       *)
(***************************************************************************)
sctp_chunk_output(t) ==
  IF t.state \in SendStates /\ ~Drained(t) THEN sctp_timer_start(t, "SEND")
                                           ELSE t
DataOut(n, t) ==
  IF t.state \in SendStates THEN {Data(n, t, k) : k \in (t.acked + 1) .. t.out}
                            ELSE {}

Output(n, t, ps) ==
  /\ tcb' = [tcb EXCEPT ![n] = sctp_chunk_output(t)]
  /\ net' = net \cup ps \cup DataOut(n, t)

(* A handler that ends without sctp_chunk_output. *)
Put(n, t, ps) ==
  /\ tcb' = [tcb EXCEPT ![n] = t]
  /\ net' = net \cup ps

sctp_free_assoc(n, ps) == Put(n, Closed, ps)
sctp_abort_an_association(n, t) == sctp_free_assoc(n, {Chunk(n, t, "ABORT")})

(* Mutant: the peer's tag is taken over but not its initial TSN. *)
process_init_tag_only(t, tag, seq) ==
  [t EXCEPT !.peer_vtag = tag, !.rcum = 0]

(* sctp_process_init: adopt the peer's tag and TSN and expect its first TSN; *)
(* the bits of the mapping arrays are left as they are.                      *)
sctp_process_init(t, tag, seq) ==
  [t EXCEPT !.peer_vtag = tag, !.peer_seq = seq, !.rcum = 0]

(***************************************************************************)
(* Shutdown transitions shared by the user calls and the SACK handlers.    *)
(***************************************************************************)
ToShutdownSent(t) ==
  StartGuard(sctp_timer_start(
    [t EXCEPT !.state = "SHUTDOWN_SENT", !.pending = FALSE], "SHUTDOWN"))
ToShutdownAckSent(t) ==
  sctp_timer_start(
    [t EXCEPT !.state = "SHUTDOWN_ACK_SENT", !.pending = FALSE], "SHUTDOWNACK")

(* The tail of the SACK handlers, once nothing is queued or in flight. *)
ShutdownIssues(t) ==
  IF Drained(t) /\ t.pending THEN ToShutdownSent(t)
  ELSE IF Drained(t) /\ t.state = "SHUTDOWN_RECEIVED" THEN ToShutdownAckSent(t)
  ELSE t
ShutdownPkts(n, old, new) ==
  IF new.state = old.state THEN {}
  ELSE IF new.state = "SHUTDOWN_SENT" THEN {Shutdown_(n, new)}
  ELSE IF new.state = "SHUTDOWN_ACK_SENT" THEN {Chunk(n, new, "SHUTDOWN_ACK")}
  ELSE {}

(* sctp_express_handle_sack: a new cumulative ack of this TSN space.  T3   *)
(* stops when the flight is empty.                                         *)
NewAck(t, m) == m.seq = t.init_seq /\ m.num > t.acked /\ m.num <= t.out
(* Mutant: any ack of this TSN space frees the whole sent queue. *)
sack_frees_everything(t, m) ==
  IF m.seq = t.init_seq
  THEN ShutdownIssues(sctp_timer_stop([t EXCEPT !.acked = t.out, !.err = 0],
                                      "SEND"))
  ELSE t

sctp_express_handle_sack(t, m) ==
  IF NewAck(t, m)
  THEN LET u == [t EXCEPT !.acked = m.num, !.err = 0]
       IN  ShutdownIssues(IF Drained(u) THEN sctp_timer_stop(u, "SEND") ELSE u)
  ELSE t

(***************************************************************************)
(* Data as it arrives: what is neither below the cumulative TSN nor marked *)
(* in the map is new; it is marked and handed to the user, and the SACK    *)
(* moves the cumulative TSN over the leading marks.                        *)
(***************************************************************************)
Fresh(t, seq, ks) ==
  {k \in ks : seq = t.peer_seq /\ k > t.rcum /\ k \notin t.map}

(* Mutant: the first missing TSN instead of the last contiguous one. *)
slide_to_first_missing(map) ==
  CHOOSE k \in 1 .. (MaxMsgs + 1) : 1 .. (k - 1) \subseteq map /\ k \notin map
(* Mutant: the highest TSN instead of the cumulative one. *)
slide_to_highest(map) ==
  CHOOSE k \in 0 .. MaxMsgs : /\ k = 0 \/ k \in map
                             /\ \A j \in map : j <= k

sctp_slide_mapping_arrays(map) ==
  CHOOSE k \in 0 .. MaxMsgs : 1 .. k \subseteq map /\ (k + 1) \notin map

sctp_process_data(t, seq, ks) ==
  LET new == Fresh(t, seq, ks)
      map == t.map \cup new
  IN  [t EXCEPT !.map = map, !.rcum = sctp_slide_mapping_arrays(map),
                !.err = IF new = {} THEN @ ELSE 0]

(* sctp_sack_check: a SACK, and in SHUTDOWN_SENT the SHUTDOWN again. *)
sctp_sack_check(n, t) ==
  {Sack(n, t)} \cup (IF t.state = "SHUTDOWN_SENT" THEN {Shutdown_(n, t)}
                                                  ELSE {})

(* New data for a closed socket aborts the association. *)
ReceiveData(n, t, seq, ks, ps) ==
  LET new == Fresh(t, seq, ks)
      u == sctp_process_data(t, seq, ks)
  IN  IF ~t.sock /\ new # {}
      THEN sctp_abort_an_association(n, t) /\ UNCHANGED dlv
      ELSE /\ Output(n, u, ps \cup sctp_sack_check(n, u))
           /\ dlv' = dlv \cup {[at |-> n, nonce |-> t.nonce,
                                seq |-> seq, num |-> k] : k \in new}

(* No restart of this TCB is half way: the step has the TCB to itself. *)
Unlocked(n) == waiting[n] = {} /\ UNCHANGED waiting

-----------------------------------------------------------------------------
(***************************************************************************)
(* Calls of the application.                                               *)
(***************************************************************************)
(* connect: sctp_aloc_assoc draws tag, TSN and nonces; the INIT goes out    *)
(* under the INIT timer.                                                    *)
Connect(n) ==
  /\ Unlocked(n)
  /\ "connect" \in UserOps[n]
  /\ tcb[n].state = "CLOSED" /\ tags[n] < MaxTag /\ tcbs[n] < MaxTcb
  /\ LET t == sctp_timer_start([NewTcb(tags[n] + 1, tcbs[n] + 1)
                                  EXCEPT !.state = "COOKIE_WAIT"], "INIT")
     IN  Put(n, t, {Init_(n, t)})
  /\ tags' = [tags EXCEPT ![n] = @ + 1]
  /\ tcbs' = [tcbs EXCEPT ![n] = @ + 1]
  /\ UNCHANGED <<key, dlv, ended>>

(* A send checks the state under the lock and then copies the user's data   *)
(* without it ...                                                           *)
SendStart(n) ==
  LET t == tcb[n] IN
  /\ Unlocked(n)
  /\ "send" \in UserOps[n]
  /\ t.sock /\ ~t.sending /\ ~t.pending /\ t.out < MaxMsgs
  /\ t.state \in FrontState \cup {"OPEN"}
  /\ Put(n, [t EXCEPT !.sending = TRUE], {})
  /\ UNCHANGED <<tags, tcbs, key, dlv, ended>>

(* ... and queues it without looking at the state again.  late records a    *)
(* message queued after SHUTDOWN or SHUTDOWN-ACK had been sent.             *)
SendFinish(n) ==
  LET t == tcb[n] IN
  /\ Unlocked(n)
  /\ t.sending /\ t.out < MaxMsgs
  /\ Output(n, [t EXCEPT !.sending = FALSE, !.out = @ + 1,
                         !.late = @ \/ t.state \in SentStates], {})
  /\ UNCHANGED <<tags, tcbs, key, dlv, ended>>

(* Mutant: the queues are not looked at before SHUTDOWN goes out. *)
start_shutdown_at_once(n, t, done) ==
  IF t.state \in done THEN Output(n, t, {})
  ELSE LET u == ToShutdownSent(t) IN Output(n, u, {Shutdown_(n, u)})

(* The common body of shutdown() and close(): with nothing queued SHUTDOWN  *)
(* goes out unless the state is one the call leaves alone, otherwise the    *)
(* association is marked SHUTDOWN_PENDING; both arm the guard timer.        *)
StartShutdown(n, t, done) ==
  IF ~Drained(t) THEN Output(n, StartGuard([t EXCEPT !.pending = TRUE]), {})
  ELSE IF t.state \in done THEN Output(n, t, {})
  ELSE LET u == ToShutdownSent(t) IN Output(n, u, {Shutdown_(n, u)})

UserShutdown(n) ==
  /\ Unlocked(n)
  /\ "shutdown" \in UserOps[n]
  /\ tcb[n].state # "CLOSED" /\ tcb[n].sock
  /\ StartShutdown(n, tcb[n], {"SHUTDOWN_SENT"})
  /\ UNCHANGED <<tags, tcbs, key, dlv, ended>>

(* close: sctp_inpcb_free, graceful.  A set-up with no data is abandoned;   *)
(* data left unread, or a message sent in part, aborts the association.     *)
UserClose(n) ==
  LET t == tcb[n] IN
  /\ Unlocked(n)
  /\ "close" \in UserOps[n]
  /\ t.state # "CLOSED" /\ t.sock /\ ~t.sending
  /\ IF t.state \in FrontState /\ Drained(t)
     THEN sctp_free_assoc(n, {})
     ELSE \/ sctp_abort_an_association(n, t)
          \/ StartShutdown(n, [t EXCEPT !.sock = FALSE],
                           {"SHUTDOWN_SENT", "SHUTDOWN_ACK_SENT"})
  /\ UNCHANGED <<tags, tcbs, key, dlv, ended>>

(* abort: an ABORT leaves unless the peer's tag is still unknown. *)
UserAbort(n) ==
  LET t == tcb[n] IN
  /\ Unlocked(n)
  /\ "abort" \in UserOps[n]
  /\ t.state # "CLOSED" /\ t.sock
  /\ IF t.state = "COOKIE_WAIT" THEN sctp_free_assoc(n, {})
                                ELSE sctp_abort_an_association(n, t)
  /\ UNCHANGED <<tags, tcbs, key, dlv, ended>>

(* The host loses its state and signs with a new secret from now on. *)
Reboot(n) ==
  /\ Unlocked(n)
  /\ "reboot" \in UserOps[n]
  /\ key[n] < MaxBoot
  /\ sctp_free_assoc(n, {})
  /\ key' = [key EXCEPT ![n] = @ + 1]
  /\ UNCHANGED <<tags, tcbs, dlv, ended>>

-----------------------------------------------------------------------------
(***************************************************************************)
(* Set-up.                                                                 *)
(***************************************************************************)
(* sctp_send_initiate_ack: while we are setting up ourselves the INIT-ACK   *)
(* repeats our own tag and TSN; otherwise it draws new ones.                *)
InitAck(n, m, tag) ==
  [Pkt("INIT_ACK", Peer(n), m.tag) EXCEPT
     !.tag = tag, !.seq = tag,
     !.cookie = [my |-> tag, peer |-> m.tag, myseq |-> tag, peerseq |-> m.seq,
                 tie |-> tcb[n].nonce, key |-> key[n]]]

HandleInit(n, m) ==
  LET t == tcb[n] IN
  /\ Unlocked(n)
  /\ m.type = "INIT" /\ m.to = n
  /\ \/ /\ t.state = "CLOSED" /\ n \notin Listeners
        /\ Put(n, t, {Pkt("ABORT", Peer(n), m.tag)})
        /\ UNCHANGED tags
     \/ /\ t.state = "SHUTDOWN_ACK_SENT"
        /\ Output(n, t, {Chunk(n, t, "SHUTDOWN_ACK")})
        /\ UNCHANGED tags
     \/ /\ t.state \in FrontState
        /\ Put(n, t, {InitAck(n, m, t.my_vtag)})
        /\ UNCHANGED tags
     \/ /\ t.state \notin FrontState \cup {"SHUTDOWN_ACK_SENT"}
        /\ t.state = "CLOSED" => n \in Listeners
        /\ tags[n] < MaxTag
        /\ Put(n, t, {InitAck(n, m, tags[n] + 1)})
        /\ tags' = [tags EXCEPT ![n] = @ + 1]
  /\ UNCHANGED <<tcbs, key, dlv, ended>>

(* sctp_handle_init_ack: only COOKIE_WAIT acts; it echoes the cookie under  *)
(* the COOKIE timer.  A closed socket with nothing to send gives up.        *)
HandleInitAck(n, m) ==
  LET t == tcb[n]
      u == sctp_process_init(sctp_timer_stop(t, "INIT"), m.tag, m.seq)
      v == sctp_timer_start([u EXCEPT !.state = "COOKIE_ECHOED", !.err = 0,
                                      !.cookie = m.cookie], "COOKIE")
  IN
  /\ Unlocked(n)
  /\ m.type = "INIT_ACK" /\ m.to = n /\ m.vtag = t.my_vtag
  /\ t.state # "CLOSED"
  /\ IF ~t.sock /\ Drained(t) THEN sctp_free_assoc(n, {})
     ELSE t.state = "COOKIE_WAIT" /\ Output(n, v, {CookieEcho(n, v, v.out)})
  /\ UNCHANGED <<tags, tcbs, key, dlv, ended>>

(* A valid cookie ends the timers of the set-up and is answered by a        *)
(* COOKIE-ACK; then the data of the same packet is taken.                   *)
AckCookie(n, t, m) ==
  LET u == sctp_toss_old_cookies(sctp_stop_all_cookie_timers(t))
      ack == {Chunk(n, u, "COOKIE_ACK")}
  IN  IF m.num > 0 /\ u.state \in {"OPEN", "SHUTDOWN_SENT"}
      THEN ReceiveData(n, u, m.seq, 1 .. m.num, ack)
      ELSE Output(n, u, ack) /\ UNCHANGED dlv

(* The cases of sctp_process_cookie_existing: which tags the cookie shares  *)
(* with the TCB it meets.                                                   *)
MyTagSame(t, c)   == c.my = t.my_vtag
PeerTagSame(t, c) == c.peer = t.peer_vtag
CookieCaseD(t, c) == MyTagSame(t, c) /\ PeerTagSame(t, c)
CookieCaseB(t, c) == MyTagSame(t, c) /\ ~PeerTagSame(t, c)
(* Mutant: a restart is accepted without comparing the tie-tags. *)
case_a_without_tie(t, c) == ~MyTagSame(t, c) /\ ~PeerTagSame(t, c)

CookieCaseA(t, c) ==
  ~MyTagSame(t, c) /\ ~PeerTagSame(t, c) /\ c.tie = t.nonce /\ c.tie # 0

(* Mutant: a repeated COOKIE-ECHO starts the receiver over. *)
case_d_starts_over(t, c) ==
  MoveToOpen(sctp_process_init([sctp_timer_stop(t, "INIT") EXCEPT !.map = {}],
                               c.peer, c.peerseq))

(* D: both tags match, the peer's COOKIE-ECHO collided with our set-up or   *)
(* our COOKIE-ACK was lost.                                                 *)
CookieD(t, c) ==
  IF t.state \in FrontState
  THEN MoveToOpen(sctp_process_init(sctp_timer_stop(t, "INIT"),
                                    c.peer, c.peerseq))
  ELSE t

(* B: our tag, another peer tag: take over the peer's new identity. *)
CookieB(t, c) ==
  MoveToOpen(sctp_process_init(sctp_stop_all_cookie_timers(t),
                               c.peer, c.peerseq))

(* Mutant: a restart leaves the mapping arrays as they are. *)
restart_keeps_map(t) ==
  LET u == sctp_timer_stop(t, "INIT")
  IN  IF t.pending \/ t.state # "SHUTDOWN_SENT" THEN MoveToOpen(u) ELSE u

(* A: the peer restarted.  Up to SCTP_TCB_UNLOCK the state is set, where    *)
(* SHUTDOWN_SENT alone is kept, and the mapping arrays are cleared ...      *)
RestartBegin(t) ==
  LET u == sctp_timer_stop(t, "INIT")
      v == IF t.pending \/ t.state # "SHUTDOWN_SENT" THEN MoveToOpen(u) ELSE u
  IN  [v EXCEPT !.map = {}]

(* ... and once the locks are taken again, everything queued is reported    *)
(* back to the user and both sides take their new tags and TSNs.            *)
RestartEnd(t, c) ==
  sctp_process_init([t EXCEPT !.my_vtag = c.my, !.init_seq = c.myseq,
                              !.out = 0, !.acked = 0, !.late = FALSE],
                    c.peer, c.peerseq)

CookieA(t, c) == RestartEnd(RestartBegin(t), c)

sctp_process_cookie_existing(n, t, m) ==
  LET c == m.cookie IN
  \/ /\ t.state = "SHUTDOWN_ACK_SENT"
     /\ Output(n, t, {Chunk(n, t, "SHUTDOWN_ACK")})
     /\ UNCHANGED dlv
  \/ /\ t.state # "SHUTDOWN_ACK_SENT"
     /\ CookieCaseD(t, c) /\ c.myseq = t.init_seq
     /\ AckCookie(n, CookieD(t, c), m)
  \/ /\ t.state # "SHUTDOWN_ACK_SENT"
     /\ CookieCaseB(t, c) /\ c.myseq = t.init_seq
     /\ AckCookie(n, CookieB(t, c), m)
  \/ /\ t.state # "SHUTDOWN_ACK_SENT"
     /\ CookieCaseA(t, c)
     /\ AckCookie(n, CookieA(t, c), m)

(* sctp_handle_cookie_echo: the signature must verify; a listener builds    *)
(* the TCB from the cookie alone.                                           *)
HandleCookieEcho(n, m) ==
  LET t == tcb[n]
      c == m.cookie
      u == sctp_process_init(NewTcb(c.my, tcbs[n] + 1), c.peer, c.peerseq)
  IN
  /\ Unlocked(n)
  /\ m.type = "COOKIE_ECHO" /\ m.to = n /\ c.key = key[n]
  /\ \/ /\ t.state = "CLOSED" /\ n \in Listeners /\ tcbs[n] < MaxTcb
        /\ AckCookie(n, MoveToOpen([u EXCEPT !.init_seq = c.myseq]), m)
        /\ tcbs' = [tcbs EXCEPT ![n] = @ + 1]
     \/ /\ t.state # "CLOSED" /\ (t.sock \/ ~Drained(t))
        /\ sctp_process_cookie_existing(n, t, m)
        /\ UNCHANGED tcbs
  /\ UNCHANGED <<tags, key, ended>>

(* Case A when another thread gets in between: the lock is given up with    *)
(* the arrays cleared, the old tags and the old cumulative TSN in place ... *)
RestartUnlocks(n, m) ==
  LET t == tcb[n] IN
  /\ SlowRestart /\ waiting[n] = {}
  /\ m.type = "COOKIE_ECHO" /\ m.to = n /\ m.cookie.key = key[n]
  /\ t.state \notin {"CLOSED", "SHUTDOWN_ACK_SENT"} /\ (t.sock \/ ~Drained(t))
  /\ CookieCaseA(t, m.cookie)
  /\ Put(n, RestartBegin(t), {})
  /\ waiting' = [waiting EXCEPT ![n] = {m}]
  /\ UNCHANGED <<tags, tcbs, key, dlv, ended>>

(* ... and nothing is looked at again when the thread has it back.          *)
RestartRelocks(n) ==
  \E m \in waiting[n] :
    /\ AckCookie(n, RestartEnd(tcb[n], m.cookie), m)
    /\ waiting' = [waiting EXCEPT ![n] = {}]
    /\ UNCHANGED <<tags, tcbs, key, ended>>

(* A cookie older than its lifetime is answered with an ERROR, addressed    *)
(* with the peer's tag of the cookie.                                       *)
StaleCookie(n, m) ==
  /\ Unlocked(n)
  /\ "stale" \in UserOps[n]
  /\ m.type = "COOKIE_ECHO" /\ m.to = n /\ m.cookie.key = key[n]
  /\ tcb[n].state # "CLOSED" \/ n \in Listeners
  /\ Put(n, tcb[n], {Pkt("STALE", Peer(n), m.cookie.peer)})
  /\ UNCHANGED <<tags, tcbs, key, dlv, ended>>

(* sctp_handle_error, stale cookie: start over with an INIT, or give up. *)
HandleStale(n, m) ==
  LET t == tcb[n]
      u == sctp_toss_old_cookies(sctp_stop_all_cookie_timers(t))
      v == sctp_timer_start([u EXCEPT !.state = "COOKIE_WAIT",
                                      !.stale = @ + 1], "INIT")
  IN
  /\ Unlocked(n)
  /\ m.type = "STALE" /\ m.to = n /\ m.vtag = t.my_vtag
  /\ t.state = "COOKIE_ECHOED"
  /\ IF t.stale + 1 > MaxInitTimes THEN sctp_free_assoc(n, {})
                                   ELSE Put(n, v, {Init_(n, v)})
  /\ UNCHANGED <<tags, tcbs, key, dlv, ended>>

(* sctp_handle_cookie_ack. *)
sctp_handle_cookie_ack(t) ==
  LET u == sctp_stop_all_cookie_timers(t)
      v == IF t.state = "COOKIE_ECHOED" THEN MoveToOpen(u) ELSE u
  IN  sctp_toss_old_cookies([v EXCEPT !.err = 0])

(* DATA and SACK in COOKIE_ECHOED imply that the COOKIE-ACK was lost. *)
ImpliedCookieAck(t) ==
  IF t.state = "COOKIE_ECHOED" THEN sctp_handle_cookie_ack(t) ELSE t

HandleCookieAck(n, m) ==
  LET t == tcb[n] IN
  /\ Unlocked(n)
  /\ m.type = "COOKIE_ACK" /\ m.to = n /\ m.vtag = t.my_vtag
  /\ t.state # "CLOSED"
  /\ IF ~t.sock /\ Drained(t) THEN sctp_free_assoc(n, {})
                              ELSE Output(n, sctp_handle_cookie_ack(t), {})
  /\ UNCHANGED <<tags, tcbs, key, dlv, ended>>

-----------------------------------------------------------------------------
(***************************************************************************)
(* Data transfer, as far as shutdown depends on it.                        *)
(***************************************************************************)
(* DATA is taken in OPEN and SHUTDOWN_SENT only, and also by a thread that  *)
(* finds the lock free in the middle of a restart.                          *)
HandleData(n, m) ==
  LET t == ImpliedCookieAck(tcb[n]) IN
  /\ waiting[n] = {} \/ (GapData /\ t.sock)
  /\ m.type = "DATA" /\ m.to = n /\ m.vtag = t.my_vtag
  /\ \/ /\ t.state = "COOKIE_WAIT"
        /\ Put(n, t, {Reflect(n, m, "ABORT")})
        /\ UNCHANGED dlv
     \/ /\ t.state \in {"OPEN", "SHUTDOWN_SENT"}
        /\ ReceiveData(n, t, m.seq, {m.num}, {})
  /\ UNCHANGED <<tags, tcbs, key, waiting, ended>>

(* SACK: ignored in SHUTDOWN_ACK_SENT.  An ack of nothing new still runs    *)
(* the shutdown checks when it opens the peer's window.                     *)
HandleSack(n, m) ==
  LET t == ImpliedCookieAck(tcb[n])
      u == sctp_express_handle_sack(t, m)
      w == ShutdownIssues(t)
  IN
  /\ Unlocked(n)
  /\ m.type = "SACK" /\ m.to = n /\ m.vtag = t.my_vtag
  /\ t.state \notin {"CLOSED", "SHUTDOWN_ACK_SENT"}
  /\ \/ Output(n, u, ShutdownPkts(n, t, u))
     \/ /\ m.seq = t.init_seq /\ m.num = t.acked
        /\ Output(n, w, ShutdownPkts(n, t, w))
  /\ UNCHANGED <<tags, tcbs, key, dlv, ended>>

-----------------------------------------------------------------------------
(***************************************************************************)
(* Teardown.                                                               *)
(***************************************************************************)
(* sctp_handle_shutdown: the acknowledgement in the SHUTDOWN first, then    *)
(* SHUTDOWN_RECEIVED, and SHUTDOWN_ACK_SENT once nothing is outstanding.    *)
HandleShutdown(n, m) ==
  LET t == tcb[n]
      u == sctp_express_handle_sack(t, m)
      v == IF u.sock /\ u.state = "OPEN"
           THEN [u EXCEPT !.state = "SHUTDOWN_RECEIVED", !.pending = FALSE]
           ELSE u
      w == IF v.state = "SHUTDOWN_SENT" THEN sctp_timer_stop(v, "SHUTDOWN")
                                        ELSE v
      x == ToShutdownAckSent(w)
  IN
  /\ Unlocked(n)
  /\ m.type = "SHUTDOWN" /\ m.to = n /\ m.vtag = t.my_vtag
  /\ t.state \notin FrontState \cup {"CLOSED"}
  /\ IF Drained(w)
     THEN Output(n, x, ShutdownPkts(n, t, u) \cup {Chunk(n, x, "SHUTDOWN_ACK")})
     ELSE Output(n, w, ShutdownPkts(n, t, u))
  /\ UNCHANGED <<tags, tcbs, key, dlv, ended>>

(* The end of an association by the handshake, as the application sees it. *)
End(n, t) ==
  ended' = ended \cup {[at |-> n, seq |-> t.init_seq, out |-> t.out,
                        late |-> t.late]}

(* sctp_handle_shutdown_ack; with another tag the packet is out of the      *)
(* blue and only answered.                                                  *)
HandleShutdownAck(n, m) ==
  LET t == tcb[n] IN
  /\ Unlocked(n)
  /\ m.type = "SHUTDOWN_ACK" /\ m.to = n
  /\ \/ /\ t.state = "CLOSED" \/ m.vtag # t.my_vtag \/ t.state \in FrontState
        /\ Put(n, t, {Reflect(n, m, "SHUTDOWN_COMPLETE")})
        /\ UNCHANGED ended
     \/ /\ m.vtag = t.my_vtag
        /\ t.state \in {"SHUTDOWN_SENT", "SHUTDOWN_ACK_SENT"}
        /\ sctp_free_assoc(n, {Chunk(n, t, "SHUTDOWN_COMPLETE")})
        /\ End(n, t)
  /\ UNCHANGED <<tags, tcbs, key, dlv>>

(* ABORT and SHUTDOWN-COMPLETE carry our tag, or the peer's with the T bit. *)
TagOrReflected(t, m) == m.vtag = IF m.tbit THEN t.peer_vtag ELSE t.my_vtag

HandleShutdownComplete(n, m) ==
  LET t == tcb[n] IN
  /\ Unlocked(n)
  /\ m.type = "SHUTDOWN_COMPLETE" /\ m.to = n /\ TagOrReflected(t, m)
  /\ t.state = "SHUTDOWN_ACK_SENT"
  /\ sctp_free_assoc(n, {})
  /\ End(n, t)
  /\ UNCHANGED <<tags, tcbs, key, dlv>>

HandleAbort(n, m) ==
  LET t == tcb[n] IN
  /\ Unlocked(n)
  /\ m.type = "ABORT" /\ m.to = n /\ TagOrReflected(t, m)
  /\ t.state # "CLOSED"
  /\ sctp_free_assoc(n, {})
  /\ UNCHANGED <<tags, tcbs, key, dlv, ended>>

(* sctp_handle_ootb: a packet for no association is answered by an ABORT    *)
(* that reflects its tag.                                                   *)
OutOfTheBlue(n, m) ==
  /\ Unlocked(n)
  /\ m.to = n /\ tcb[n].state = "CLOSED"
  /\ m.type \in {"INIT_ACK", "COOKIE_ACK", "STALE", "DATA", "SACK", "SHUTDOWN"}
  /\ Put(n, tcb[n], {Reflect(n, m, "ABORT")})
  /\ UNCHANGED <<tags, tcbs, key, dlv, ended>>

-----------------------------------------------------------------------------
(***************************************************************************)
(* Timers.  Each expiry empties the slot, counts against the threshold and *)
(* retransmits; the handlers differ in what they check first.              *)
(***************************************************************************)
Expired(t) == [t EXCEPT !.rxt = "NONE"]

sctp_threshold_management(t, max) == t.err + 1 > max
(* Mutant: an expiry is not counted. *)
not_counted(t) == Expired(t)

Counted(t) == [Expired(t) EXCEPT !.err = @ + 1]

(* Mutant: the handler retransmits but does not start its timer again. *)
count_without_restart(n, max, type, ps) ==
  LET t == tcb[n] IN
  IF sctp_threshold_management(t, max)
  THEN sctp_abort_an_association(n, t)
  ELSE Output(n, Counted(t), ps)

(* Count the expiry; over the threshold the association is aborted. *)
CountOrAbort(n, max, type, ps) ==
  LET t == tcb[n] IN
  IF sctp_threshold_management(t, max)
  THEN sctp_abort_an_association(n, t)
  ELSE Output(n, sctp_timer_start(Counted(t), type), ps)

InitTimer(n) ==
  LET t == tcb[n] IN
  /\ Unlocked(n)
  /\ t.rxt = "INIT"
  /\ IF t.state # "COOKIE_WAIT" THEN Put(n, Expired(t), {})
     ELSE CountOrAbort(n, MaxInitTimes, "INIT", {Init_(n, t)})
  /\ UNCHANGED <<tags, tcbs, key, dlv, ended>>

(* The COOKIE timer is not served once the socket is gone. *)
CookieTimer(n) ==
  LET t == tcb[n] IN
  /\ Unlocked(n)
  /\ t.rxt = "COOKIE"
  /\ IF ~t.sock THEN Put(n, Expired(t), {})
     ELSE IF t.cookie = NoCookie
          THEN IF t.state = "COOKIE_ECHOED" THEN sctp_abort_an_association(n, t)
                                            ELSE Put(n, Expired(t), {})
          ELSE CountOrAbort(n, MaxInitTimes, "COOKIE", {CookieEcho(n, t, 0)})
  /\ UNCHANGED <<tags, tcbs, key, dlv, ended>>

ShutdownTimer(n) ==
  /\ Unlocked(n)
  /\ tcb[n].rxt = "SHUTDOWN"
  /\ CountOrAbort(n, MaxSendTimes, "SHUTDOWN", {Shutdown_(n, tcb[n])})
  /\ UNCHANGED <<tags, tcbs, key, dlv, ended>>

(* Mutant: expiries of the SHUTDOWN-ACK timer are not counted. *)
shutdownack_without_threshold(n) ==
  /\ Unlocked(n)
  /\ tcb[n].rxt = "SHUTDOWNACK"
  /\ Output(n, sctp_timer_start(Expired(tcb[n]), "SHUTDOWNACK"),
            {Chunk(n, tcb[n], "SHUTDOWN_ACK")})
  /\ UNCHANGED <<tags, tcbs, key, dlv, ended>>

ShutdownAckTimer(n) ==
  /\ Unlocked(n)
  /\ tcb[n].rxt = "SHUTDOWNACK"
  /\ CountOrAbort(n, MaxSendTimes, "SHUTDOWNACK",
                  {Chunk(n, tcb[n], "SHUTDOWN_ACK")})
  /\ UNCHANGED <<tags, tcbs, key, dlv, ended>>

(* Mutant: T3 expiries are not counted. *)
t3_without_threshold(n) ==
  /\ Unlocked(n)
  /\ tcb[n].rxt = "SEND"
  /\ Output(n, Expired(tcb[n]), {})
  /\ UNCHANGED <<tags, tcbs, key, dlv, ended>>

(* T3: everything in flight goes out again with sctp_chunk_output. *)
T3Timer(n) ==
  LET t == tcb[n] IN
  /\ Unlocked(n)
  /\ t.rxt = "SEND"
  /\ IF sctp_threshold_management(t, MaxSendTimes)
     THEN sctp_abort_an_association(n, t)
     ELSE Output(n, Counted(t), {})
  /\ UNCHANGED <<tags, tcbs, key, dlv, ended>>

GuardTimer(n) ==
  /\ Unlocked(n)
  /\ tcb[n].guard
  /\ sctp_abort_an_association(n, tcb[n])
  /\ UNCHANGED <<tags, tcbs, key, dlv, ended>>

-----------------------------------------------------------------------------
Init ==
  /\ tcb = [n \in Node |-> Closed]
  /\ net = {} /\ dlv = {} /\ ended = {}
  /\ tags = [n \in Node |-> 0]
  /\ tcbs = [n \in Node |-> 0]
  /\ key = [n \in Node |-> 0]
  /\ waiting = [n \in Node |-> {}]

User(n) ==
  \/ Connect(n) \/ SendStart(n) \/ UserShutdown(n)
  \/ UserClose(n) \/ UserAbort(n) \/ Reboot(n)

Receive(n, m) ==
  \/ HandleInit(n, m) \/ HandleInitAck(n, m) \/ HandleCookieEcho(n, m)
  \/ StaleCookie(n, m) \/ HandleStale(n, m) \/ HandleCookieAck(n, m)
  \/ HandleData(n, m) \/ HandleSack(n, m) \/ HandleShutdown(n, m)
  \/ HandleShutdownAck(n, m) \/ HandleShutdownComplete(n, m)
  \/ HandleAbort(n, m) \/ OutOfTheBlue(n, m)

Timer(n) ==
  \/ InitTimer(n) \/ CookieTimer(n) \/ ShutdownTimer(n)
  \/ ShutdownAckTimer(n) \/ T3Timer(n) \/ GuardTimer(n)

Next ==
  \E n \in Node :
    \/ User(n) \/ SendFinish(n) \/ Timer(n) \/ RestartRelocks(n)
    \/ \E m \in net : Receive(n, m) \/ RestartUnlocks(n, m)

Spec == Init /\ [][Next]_vars

(* A callout that is armed fires; packets may all be lost, so only the      *)
(* timers are fair, and a send in progress does not stay in the copy.       *)
Fairness ==
  \A n \in Node :
    /\ WF_vars(InitTimer(n)) /\ WF_vars(CookieTimer(n))
    /\ WF_vars(ShutdownTimer(n)) /\ WF_vars(ShutdownAckTimer(n))
    /\ WF_vars(T3Timer(n)) /\ WF_vars(GuardTimer(n))
    /\ WF_vars(SendFinish(n)) /\ WF_vars(RestartRelocks(n))

(* A COOKIE-ACK clears the error count in any state.  It is only sent in    *)
(* answer to a COOKIE-ECHO, of which max_init_times are sent, so the        *)
(* network copies finitely many; any other packet may be copied for ever.   *)
FiniteCookieAcks ==
  <>[][\A n \in Node : \A m \in net : ~HandleCookieAck(n, m)]_vars

LiveSpec == Spec /\ Fairness /\ FiniteCookieAcks

-----------------------------------------------------------------------------
(***************************************************************************)
(* Properties.                                                             *)
(***************************************************************************)
(* Every variable has its type: counters, offsets and packets stay within   *)
(* the instance's bounds whatever handler runs.                             *)
TypeOK ==
  /\ tcb \in [Node -> Tcb]
  /\ net \subseteq Packet
  /\ tags \in [Node -> Nat]
  /\ tcbs \in [Node -> Nat]
  /\ key \in [Node -> Nat]
  /\ waiting \in [Node -> SUBSET Packet]
  /\ dlv \subseteq [at : Node, nonce : Nat, seq : Nat, num : 0 .. MaxMsgs]
  /\ ended \subseteq [at : Node, seq : Nat, out : 0 .. MaxMsgs, late : BOOLEAN]

(* Chunk k of TSN space seq reached the application at an endpoint. *)
Delivered(at, seq, k) == \E d \in dlv : d.at = at /\ d.seq = seq /\ d.num = k

(* What the sender's cumulative ack (last_acked_seq, moved by SACK and by   *)
(* SHUTDOWN) covers has been handed to the peer's application, however the  *)
(* acknowledgements were lost, repeated or reordered.                       *)
AckedIsDelivered ==
  \A n \in Node : \A k \in 1 .. tcb[n].acked :
    Delivered(Peer(n), tcb[n].init_seq, k)

(* The chunks of the peer's current TSN space this TCB handed up. *)
Received(n, t) ==
  {d.num : d \in {e \in dlv : e.at = n /\ e.nonce = t.nonce /\ e.seq = t.peer_seq}}

(* A bit set in the mapping arrays stands for a chunk of the peer's current *)
(* TSN space that was received: the cumulative TSN computed from the bits   *)
(* (sctp_slide_mapping_arrays) never passes a chunk that never came.        *)
MapIsDelivered == \A n \in Node : tcb[n].map \subseteq Received(n, tcb[n])

(* A chunk handed to the application stays marked while its TSN space is    *)
(* current, so no retransmission, duplicate COOKIE-ECHO or duplicate packet *)
(* makes the receiver deliver it again.                                     *)
NoRedelivery ==
  \A n \in Node : tcb[n].state # "CLOSED" =>
    Received(n, tcb[n]) \subseteq tcb[n].map

(* An association that ended by the SHUTDOWN handshake lost nothing: every  *)
(* message queued before SHUTDOWN or SHUTDOWN-ACK left is at the peer's     *)
(* application.                                                             *)
GracefulMeansDelivered ==
  \A e \in ended :
    e.late \/ \A k \in 1 .. e.out : Delivered(Peer(e.at), e.seq, k)

(* Once SHUTDOWN or SHUTDOWN-ACK is out the send queues are empty, unless a *)
(* send that had passed its state check before was queued after it.         *)
QueuesEmptyAtShutdown ==
  \A n \in Node :
    tcb[n].state \in SentStates => Drained(tcb[n]) \/ tcb[n].late

(* The assertion of sctp_handle_shutdown_ack and _shutdown_complete, under  *)
(* INVARIANTS: "Queues are not empty when handling SHUTDOWN-ACK".           *)
QueuesEmpty ==
  \A n \in Node : tcb[n].state \in SentStates => Drained(tcb[n])

(* Endpoints that agree on a verification tag agree on the TSN space that   *)
(* was drawn with it, through collisions, duplicates and restarts.          *)
TsnAgreement ==
  \A n \in Node : LET t == tcb[n]  p == tcb[Peer(n)] IN
    (p.my_vtag # 0 /\ t.peer_vtag = p.my_vtag) => t.peer_seq = p.init_seq

(* The COOKIE timer never runs without a COOKIE-ECHO to retransmit: the     *)
(* "Cookie timer expires in wrong state?" panic and the abort before it in  *)
(* sctp_cookie_timer stay unreachable.                                      *)
CookieTimerHasCookie ==
  \A n \in Node : tcb[n].rxt = "COOKIE" => tcb[n].cookie # NoCookie

(* An endpoint waiting for an INIT-ACK has its INIT timer running. *)
InitTimerRuns ==
  \A n \in Node : tcb[n].state = "COOKIE_WAIT" => tcb[n].rxt = "INIT"

(* Nothing waits without a timer although five timers share one slot: an    *)
(* echoed cookie, a SHUTDOWN, a SHUTDOWN-ACK and unacknowledged data each   *)
(* have a retransmission timer or the guard, SHUTDOWN_PENDING always has    *)
(* the guard, and SHUTDOWN_RECEIVED always has data to wait for.            *)
TimersCover ==
  \A n \in Node : LET t == tcb[n] IN
    /\ t.state = "COOKIE_ECHOED" => t.rxt = "COOKIE" \/ t.guard
    /\ t.state \in SentStates => t.rxt # "NONE" \/ t.guard
    /\ t.pending => t.guard
    /\ t.state \in SendStates /\ ~Drained(t) => t.rxt # "NONE"
    /\ t.state = "SHUTDOWN_RECEIVED" => ~Drained(t)

(* A TCB takes a new identity (case A of the cookie table) only when the    *)
(* peer it talked to is gone: a replayed or old cookie never tears a live   *)
(* association away.                                                        *)
RestartIsGenuine ==
  [][\A n \in Node :
       (/\ tcb[n].state # "CLOSED" /\ tcb'[n].nonce = tcb[n].nonce
        /\ tcb'[n].my_vtag # tcb[n].my_vtag)
       => tcb[Peer(n)].my_vtag # tcb[n].peer_vtag]_vars

(* A set-up ends, established or given up, though every packet be lost. *)
SetupEnds ==
  \A n \in Node :
    tcb[n].state \in FrontState ~> tcb[n].state \notin FrontState

(* A shutdown that left the endpoint ends, even against a peer that keeps   *)
(* sending, or that is gone.                                                *)
TeardownEnds ==
  \A n \in Node :
    tcb[n].state \in SentStates ~> tcb[n].state \notin SentStates

(* Queued data is acknowledged or the association is given up. *)
DataResolved == \A n \in Node : ~Drained(tcb[n]) ~> Drained(tcb[n])
=============================================================================

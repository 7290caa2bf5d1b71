------------------------ MODULE SctpSenderQueueProofs ------------------------
(***************************************************************************)
(* Theorems about SctpSender for every number of destinations, chunks,     *)
(* SACKs and faults: the head of the sent queue is always a chunk that can *)
(* be retransmitted, and a T3 timer runs whenever something waits to be    *)
(* sent or acknowledged.  SctpSenderProofs shows that the books are exact, *)
(* which the later theorems use.                                           *)
(***************************************************************************)
EXTENDS SctpSenderProofs

-----------------------------------------------------------------------------
(***************************************************************************)
(* The invariant of the sent queue.                                        *)
(***************************************************************************)

\* What the cumulative TSN covers is freed, and nothing else is; chunks are
\* sent in order.
Ordered(x) ==
    /\ \A t \in Tsns : x.sent[t] = "freed" <=> t <= x.last
    /\ \A t, u \in Tsns : x.sent[t] = "unsent" /\ t <= u => x.sent[u] = "unsent"

HeadSent(x) == \A t \in Tsns : t = x.last + 1 => x.sent[t] \notin {"acked", "nracked"}

\* Revokable acknowledgements are remembered until a SACK without gap reports.
AckedSeen(x) == (\E t \in Tsns : x.sent[t] = "acked") => x.saw_frags

Queued(x) ==
    /\ x \in SendSide /\ Unmarked(x) /\ Addressed(x)
    /\ Ordered(x) /\ HeadSent(x) /\ AckedSeen(x)

\* The peer: what is under way to it was sent, and it keeps what is in order.
PeerHolds ==
    /\ got \subseteq Tsns /\ kept \subseteq got /\ wire \subseteq Tsns
    /\ 1..Cum(got) \subseteq kept
    /\ \A t \in wire \cup got : a.sent[t] # "unsent"
    /\ a.last <= Cum(got)

\* No SACK under way has its cumulative TSN right before t.
Never(t) == \A s \in sacks : s.cum # t - 1

SackSound(s) ==
    /\ s \in SackType /\ s.cum <= Cum(got) /\ s.nr \subseteq kept
    /\ \A t \in s.seg \cup s.nr : t > s.cum + 1
    /\ \A t \in s.nr : Never(t)

SacksSound == \A s \in sacks : SackSound(s)

\* A non-renegable chunk is never going to be the next one that is missing.
NrKept == \A t \in Tsns : a.sent[t] = "nracked" => t \in kept /\ Never(t)

QueueInv == Queued(a) /\ PeerHolds /\ SacksSound /\ NrKept

\* A SHUTDOWN under way: the chunk after its cumulative TSN counts as acked
\* nowhere, and no SACK under way is going to change that.
ShutSound(c) ==
    /\ c \in 0..MaxTsn /\ c <= Cum(got)
    /\ \A t \in Tsns : t = c + 1 => /\ a.sent[t] \notin {"acked", "nracked"}
                                   /\ \A s \in sacks : t \notin s.seg \cup s.nr

ShutsSound == \A c \in shuts : ShutSound(c)

\* Without reneging the peer has whatever it reported.
Reported ==
    /\ \A t \in Tsns : a.sent[t] = "acked" => t \in got
    /\ \A s \in sacks : s.seg \subseteq got

\* A peer that shuts down has reneged nothing, so that it has what it reported.
ShutInv ==
    /\ reneges \in Nat
    /\ reneges = 0 => Reported
    /\ reneges > 0 => shuts = {}
    /\ ShutsSound

-----------------------------------------------------------------------------
(***************************************************************************)
(* What each operator does to the queue and to the timers.                 *)
(***************************************************************************)
SameQueue(x, y) ==
    /\ y \in SendSide /\ y.sent = x.sent /\ y.whoTo = x.whoTo /\ y.last = x.last
    /\ y.queued = x.queued /\ y.saw_frags = x.saw_frags
SameTimers(x, y) == y.timer = x.timer /\ y.timers_up = x.timers_up
Same(x, y) == SameQueue(x, y) /\ SameTimers(x, y)

\* y is x with the chunks of S in another status.
Marks(x, y, S, status) ==
    /\ y \in SendSide /\ y.last = x.last
    /\ y.queued = x.queued /\ y.saw_frags = x.saw_frags
    /\ SameTimers(x, y)
    /\ \A t \in Tsns : y.sent[t] = IF t \in S THEN status ELSE x.sent[t]
    /\ \A t \in Tsns : t \notin S \/ status # "freed" => y.whoTo[t] = x.whoTo[t]

LEMMA SameTrans ==
  ASSUME NEW x, NEW y, NEW z, Same(x, y), Same(y, z)
  PROVE  Same(x, z)
  BY DEF Same, SameQueue, SameTimers

LEMMA FlightFields ==
  ASSUME NEW x \in SendSide, NEW f \in [Nets -> Nat], NEW k \in Nat,
         NEW y, y = [x EXCEPT !.flight = f, !.total = k]
  PROVE  Same(x, y)
  BY DEF Same, SameQueue, SameTimers, SendSide

LEMMA OfCard ==
  ASSUME NEW x, NEW S \in SUBSET Tsns, NEW n
  PROVE  Cardinality(Of(x, S, n)) \in Nat
<1>1. Of(x, S, n) \in SUBSET Tsns
  BY DEF Of
<1> QED
  BY <1>1, CardNat

LEMMA FlightDecreaseSame ==
  ASSUME NEW x \in SendSide, NEW S \in SUBSET Tsns
  PROVE  /\ Same(x, FlightDecrease(x, S))
         /\ \A n \in Nets : FlightDecrease(x, S).flight[n] <= x.flight[n]
<1> DEFINE f == [n \in Nets |-> Floor(x.flight[n] - Cardinality(Of(x, S, n)))]
           k == Floor(x.total - Cardinality(S))
           P == x.probe \ S
<1>1. \A n \in Nets : x.flight[n] \in Nat /\ Cardinality(Of(x, S, n)) \in Nat
  BY OfCard DEF SendSide
<1>2. x.total \in Nat /\ Cardinality(S) \in Nat
  BY CardNat DEF SendSide
<1>3. \A n \in Nets : f[n] \in Nat /\ f[n] <= x.flight[n]
  BY <1>1 DEF Floor
<1>4. f \in [Nets -> Nat]
  BY <1>3
<1>5. k \in Nat /\ P \in SUBSET Tsns
  BY <1>2 DEF Floor, SendSide
<1>6. FlightDecrease(x, S) = [x EXCEPT !.flight = f, !.total = k, !.probe = P]
  BY DEF FlightDecrease, SendSide
<1> HIDE DEF f, k, P
<1>7. ASSUME NEW y, y = [x EXCEPT !.flight = f, !.total = k, !.probe = P]
      PROVE  Same(x, y) /\ y.flight = f
  BY <1>4, <1>5, <1>7 DEF Same, SameQueue, SameTimers, SendSide
<1>8. Same(x, FlightDecrease(x, S)) /\ FlightDecrease(x, S).flight = f
  BY <1>6, <1>7
<1> QED
  BY <1>3, <1>8

LEMMA FlightIncreaseSame ==
  ASSUME NEW x \in SendSide, NEW S \in SUBSET Tsns
  PROVE  Same(x, FlightIncrease(x, S))
<1> DEFINE f == [n \in Nets |-> x.flight[n] + Cardinality(Of(x, S, n))]
           k == x.total + Cardinality(S)
<1>1. \A n \in Nets : x.flight[n] \in Nat /\ Cardinality(Of(x, S, n)) \in Nat
  BY OfCard DEF SendSide
<1>2. x.total \in Nat /\ Cardinality(S) \in Nat
  BY CardNat DEF SendSide
<1>3. f \in [Nets -> Nat] /\ k \in Nat
  BY <1>1, <1>2
<1>4. FlightIncrease(x, S) = [x EXCEPT !.flight = f, !.total = k]
  BY DEF FlightIncrease, SendSide
<1> HIDE DEF f, k
<1> QED
  BY <1>3, <1>4, FlightFields

LEMMA NothingInFlightSame ==
  ASSUME NEW x \in SendSide
  PROVE  Same(x, NothingInFlight(x)) /\ Same(x, [x EXCEPT !.total = 0])
<1> DEFINE f == [n \in Nets |-> 0]
<1>1. f \in [Nets -> Nat] /\ 0 \in Nat
  OBVIOUS
<1>2. NothingInFlight(x) = [x EXCEPT !.flight = f, !.total = 0]
  BY DEF NothingInFlight
<1> HIDE DEF f
<1>3. Same(x, [x EXCEPT !.total = 0])
  BY DEF Same, SameQueue, SameTimers, SendSide
<1> QED
  BY <1>1, <1>2, <1>3, FlightFields

LEMMA RecountIsSame ==
  ASSUME NEW x \in SendSide
  PROVE  Same(x, Recount(x))
<1> DEFINE y == NothingInFlight(x)
<1>1. Same(x, y) /\ y \in SendSide
  BY NothingInFlightSame DEF Same, SameQueue
<1>2. Recount(x) = FlightIncrease(y, InFlight(x))
  BY DEF Recount
<1> HIDE DEF y
<1>3. Same(y, Recount(x))
  BY <1>1, <1>2, FlightIncreaseSame, QueueParts
<1> QED
  BY <1>1, <1>3, SameTrans

LEMMA RetranSame ==
  ASSUME NEW x \in SendSide, NEW k \in Nat
  PROVE  /\ Same(x, [x EXCEPT !.retran = k])
         /\ Same(x, RetranDecrease(x, k)) /\ Same(x, RetranIncrease(x, k))
         /\ [x EXCEPT !.retran = k].flight = x.flight
         /\ RetranIncrease(x, k).flight = x.flight
<1>1. \A j \in Nat : Same(x, [x EXCEPT !.retran = j])
                     /\ [x EXCEPT !.retran = j].flight = x.flight
  BY DEF Same, SameQueue, SameTimers, SendSide
<1>2. Floor(x.retran - k) \in Nat /\ x.retran + k \in Nat
  BY DEF Floor, SendSide
<1> QED
  BY <1>1, <1>2 DEF RetranDecrease, RetranIncrease

LEMMA DeflateSame ==
  ASSUME NEW x \in SendSide, NEW S \in SUBSET Tsns
  PROVE  Same(x, Deflate(x, S)) /\ Same(x, Inflate(x, S))
<1>1. x.revoked \ S \in SUBSET Tsns /\ x.revoked \cup S \in SUBSET Tsns
  BY DEF SendSide
<1>2. \A R \in SUBSET Tsns : Same(x, [x EXCEPT !.revoked = R])
  BY DEF Same, SameQueue, SameTimers, SendSide
<1> QED
  BY <1>1, <1>2 DEF Deflate, Inflate

LEMMA AgedSame ==
  ASSUME NEW x \in SendSide, NEW N
  PROVE  Same(x, Aged(x, N))
<1>1. {t \in x.young : x.whoTo[t] \notin N} \in SUBSET Tsns
  BY DEF SendSide
<1>2. \A Y \in SUBSET Tsns : Same(x, [x EXCEPT !.young = Y])
  BY DEF Same, SameQueue, SameTimers, SendSide
<1> QED
  BY <1>1, <1>2 DEF Aged

LEMMA ProbeSame ==
  ASSUME NEW x \in SendSide, NEW P \in SUBSET Tsns, NEW W \in SUBSET Nets
  PROVE  /\ Same(x, [x EXCEPT !.probe = P, !.window_probe = W])
         /\ Same(x, [x EXCEPT !.probe = P]) /\ Same(x, [x EXCEPT !.window_probe = W])
         /\ [x EXCEPT !.probe = P].flight = x.flight
         /\ [x EXCEPT !.window_probe = W].flight = x.flight
  BY DEF Same, SameQueue, SameTimers, SendSide

LEMMA ProbedSame ==
  ASSUME NEW x \in SendSide, NEW S \in SUBSET Tsns, NEW n \in Nets
  PROVE  Same(x, Probed(x, S, n))
<1>1. x.probe \cup S \in SUBSET Tsns /\ x.window_probe \cup {n} \in SUBSET Nets
  BY DEF SendSide
<1> QED
  BY <1>1, ProbeSame DEF Probed

LEMMA LeaveSame ==
  ASSUME NEW x \in SendSide, NEW S \in SUBSET Tsns
  PROVE  Same(x, Leave(x, S))
<1> DEFINE F == S \cap InFlight(x)
           k == Cardinality(S \cap Resend(x))
           u == FlightDecrease(x, F)
           v == RetranDecrease(u, k)
<1>1. Leave(x, S) = Deflate(v, S)
  BY DEF Leave
<1>2. F \in SUBSET Tsns /\ S \cap Resend(x) \in SUBSET Tsns
  OBVIOUS
<1>3. k \in Nat
  BY <1>2, CardNat
<1> HIDE DEF F, k
<1>4. Same(x, u) /\ u \in SendSide
  BY <1>2, FlightDecreaseSame DEF Same, SameQueue
<1> HIDE DEF u
<1>5. Same(u, v) /\ v \in SendSide
  BY <1>3, <1>4, RetranSame DEF Same, SameQueue
<1> HIDE DEF v
<1>6. Same(v, Leave(x, S))
  BY <1>1, <1>5, DeflateSame
<1> QED
  BY <1>4, <1>5, <1>6, SameTrans

LEMMA MarkMarks ==
  ASSUME NEW x \in SendSide, NEW S \in SUBSET Tsns, NEW st \in AnyStatus
  PROVE  Marks(x, Mark(x, S, st), S, st) /\ Mark(x, S, st).flight = x.flight
<1> DEFINE f == [t \in Tsns |-> IF t \in S THEN st ELSE x.sent[t]]
<1>1. f \in [Tsns -> AnyStatus] /\ \A t \in Tsns : f[t] = IF t \in S THEN st ELSE x.sent[t]
  BY DEF SendSide
<1>2. Mark(x, S, st) = [x EXCEPT !.sent = f]
  BY DEF Mark
<1> HIDE DEF f
<1> QED
  BY <1>1, <1>2 DEF Marks, SameTimers, SendSide

LEMMA FreeMarks ==
  ASSUME NEW x \in SendSide, NEW S \in SUBSET Tsns
  PROVE  Marks(x, Free(x, S), S, "freed")
<1> DEFINE z == Mark(x, S, "freed")
           w == [t \in Tsns |-> IF t \in S THEN "none" ELSE z.whoTo[t]]
           P == z.probe \ S
           Y == z.young \ S
<1>1. Marks(x, z, S, "freed") /\ z \in SendSide
  BY MarkMarks DEF AnyStatus, Statuses, Marks
<1>2. Free(x, S) = [z EXCEPT !.whoTo = w, !.probe = P, !.young = Y]
  BY DEF Free
<1> HIDE DEF z
<1>3. w \in [Tsns -> Nets \cup {"none"}] /\ P \in SUBSET Tsns /\ Y \in SUBSET Tsns
  BY <1>1 DEF SendSide
<1> HIDE DEF w, P, Y
<1>4. LET y == Free(x, S) IN
      /\ y \in SendSide /\ y.sent = z.sent /\ y.last = z.last /\ y.queued = z.queued
      /\ y.saw_frags = z.saw_frags /\ SameTimers(z, y) /\ y.whoTo = w
  BY <1>1, <1>2, <1>3 DEF SendSide, SameTimers
<1>5. \A t \in Tsns : t \notin S => w[t] = x.whoTo[t]
  BY <1>1 DEF Marks, w
<1> QED
  BY <1>1, <1>4, <1>5 DEF Marks, SameTimers

LEMMA MarksSame ==
  ASSUME NEW x, NEW y, NEW z, NEW S, NEW st
  PROVE  /\ Same(x, y) /\ Marks(y, z, S, st) => Marks(x, z, S, st)
         /\ Marks(x, y, S, st) /\ Same(y, z) => Marks(x, z, S, st)
  BY DEF Same, SameQueue, SameTimers, Marks

-----------------------------------------------------------------------------
(***************************************************************************)
(* Timers.  The count of running timers is never above their number: only  *)
(* sctp_timer_start counts up, sctp_timer_stop counts down in any case.    *)
(***************************************************************************)
TimerCount(x) == x.timers_up <= Cardinality(x.timer)

LEMMA NetsFinite ==
  ASSUME NEW N \in SUBSET Nets
  PROVE  IsFiniteSet(N) /\ Cardinality(N) \in Nat
  BY SenderAssumption, FS_Subset, FS_CardinalityType

WithTimers(x, N, k) == [x EXCEPT !.timer = N, !.timers_up = k]
WithTimer(x, N) == [x EXCEPT !.timer = N]

LEMMA TimersFields ==
  ASSUME NEW x \in SendSide, NEW N \in SUBSET Nets, NEW k \in Nat
  PROVE  /\ SameQueue(x, WithTimers(x, N, k)) /\ WithTimers(x, N, k).timer = N
         /\ WithTimers(x, N, k).timers_up = k /\ WithTimers(x, N, k).flight = x.flight
         /\ SameQueue(x, WithTimer(x, N)) /\ WithTimer(x, N).timer = N
         /\ WithTimer(x, N).timers_up = x.timers_up
         /\ WithTimer(x, N).flight = x.flight
  BY DEF WithTimers, WithTimer, SameQueue, SendSide

\* y is x with the timers of N.
Timed(x, y, N) ==
    /\ SameQueue(x, y) /\ y.timer = N /\ y.flight = x.flight
    /\ TimerCount(x) => TimerCount(y)

LEMMA AgedTimed ==
  ASSUME NEW x, NEW y, NEW N, Timed(x, y, N), NEW M
  PROVE  Timed(x, Aged(y, M), N)
<1>1. y \in SendSide
  BY DEF Timed, SameQueue
<1>2. Same(y, Aged(y, M))
  BY <1>1, AgedSame
<1>3. Aged(y, M).flight = y.flight
  BY <1>1 DEF Aged, SendSide
<1> QED
  BY <1>2, <1>3 DEF Timed, Same, SameQueue, SameTimers, TimerCount

LEMMA StartTimed ==
  ASSUME NEW x \in SendSide, NEW n \in Nets
  PROVE  /\ Timed(x, TimerStart(x, n), x.timer \cup {n})
         /\ Timed(x, OsTimerStart(x, n), x.timer \cup {n})
<1> DEFINE N == x.timer \cup {n}
           k == x.timers_up + 1
           y == WithTimers(x, N, k)
           z == WithTimer(x, N)
<1>1. x.timer \in SUBSET Nets /\ N \in SUBSET Nets /\ x.timers_up \in Nat
      /\ k \in Nat
  BY DEF SendSide
<1>2. IsFiniteSet(x.timer) /\ Cardinality(x.timer) \in Nat /\ Cardinality(N) \in Nat
  BY <1>1, NetsFinite
<1>3. Cardinality(N) = IF n \in x.timer THEN Cardinality(x.timer)
                                        ELSE Cardinality(x.timer) + 1
  BY <1>2, FS_AddElement
<1>4. /\ TimerStart(x, n) = IF n \in x.timer THEN x ELSE Aged(y, {n})
      /\ OsTimerStart(x, n) = Aged(z, {n})
  BY DEF TimerStart, OsTimerStart, WithTimers, WithTimer
<1>5. n \in x.timer => N = x.timer
  OBVIOUS
<1> HIDE DEF N, k
<1>6. /\ SameQueue(x, y) /\ y.timer = N /\ y.timers_up = k
      /\ y.flight = x.flight
  <2>1. N \in SUBSET Nets /\ k \in Nat
    BY <1>1
  <2> QED
    BY <2>1, TimersFields
<1>7. /\ SameQueue(x, z) /\ z.timer = N /\ z.timers_up = x.timers_up
      /\ z.flight = x.flight
  BY <1>1, TimersFields
<1> HIDE DEF y, z
<1>8. Timed(x, z, N)
  BY <1>1, <1>2, <1>3, <1>7 DEF Timed, TimerCount
<1>9. n \notin x.timer => Timed(x, y, N)
  BY <1>1, <1>2, <1>3, <1>6 DEF Timed, TimerCount, k
<1>10. n \in x.timer => Timed(x, x, N)
  BY <1>5 DEF Timed, SameQueue
<1>11. Timed(x, TimerStart(x, n), N)
  BY <1>4, <1>9, <1>10, AgedTimed
<1>12. Timed(x, OsTimerStart(x, n), N)
  BY <1>4, <1>8, AgedTimed
<1> QED
  BY <1>11, <1>12 DEF N

LEMMA ValidationTimed ==
  ASSUME NEW x \in SendSide, NEW n \in Nets
  PROVE  /\ Timed(x, TimerValidation(x, n), TimerValidation(x, n).timer)
         /\ TimerValidation(x, n).timer # {}
<1>1. CASE x.timer = {}
  BY <1>1, StartTimed DEF TimerValidation, Timed
<1>2. CASE x.timer # {}
  BY <1>2 DEF TimerValidation, Timed, SameQueue
<1> QED
  BY <1>1, <1>2

LEMMA StopTimed ==
  ASSUME NEW x \in SendSide, NEW N \in SUBSET Nets
  PROVE  Timed(x, TimerStop(x, N), x.timer \ N)
<1> DEFINE T == x.timer \ N
           k == Floor(x.timers_up - Cardinality(N))
           y == TimerStop(x, N)
<1>1. x.timer \in SUBSET Nets /\ T \in SUBSET Nets /\ x.timers_up \in Nat
      /\ x.timer \cap N \in SUBSET Nets
  BY DEF SendSide
<1>2. /\ IsFiniteSet(x.timer) /\ IsFiniteSet(N)
      /\ Cardinality(x.timer) \in Nat /\ Cardinality(N) \in Nat
      /\ Cardinality(T) \in Nat /\ Cardinality(x.timer \cap N) \in Nat
  BY <1>1, NetsFinite
<1>3. Cardinality(T) = Cardinality(x.timer) - Cardinality(x.timer \cap N)
  BY <1>2, FS_Difference
<1>4. Cardinality(x.timer \cap N) <= Cardinality(N)
  <2>1. x.timer \cap N \in SUBSET N
    OBVIOUS
  <2> QED
    BY <1>2, <2>1, FS_Subset
<1>5. k \in Nat /\ (k = 0 \/ k = x.timers_up - Cardinality(N))
  BY <1>1, <1>2 DEF Floor
<1>6. y = WithTimers(x, T, k)
  BY DEF TimerStop, WithTimers
<1> HIDE DEF T, k, y
<1>7. SameQueue(x, y) /\ y.timer = T /\ y.timers_up = k /\ y.flight = x.flight
  <2>1. T \in SUBSET Nets /\ k \in Nat
    BY <1>1, <1>5
  <2> QED
    BY ONLY <2>1, <1>6, TimersFields, x \in SendSide, Zenon
<1>8. TimerCount(x) => TimerCount(y)
  BY <1>1, <1>2, <1>3, <1>4, <1>5, <1>7 DEF TimerCount
<1> QED
  BY <1>7, <1>8 DEF Timed, T, y

-----------------------------------------------------------------------------
(***************************************************************************)
(* Chunks that go back and forth between flight and retransmission.        *)
(***************************************************************************)
Shuffled(x, y) ==
    /\ y \in SendSide /\ y.last = x.last
    /\ y.queued = x.queued /\ y.saw_frags = x.saw_frags
    /\ \A t \in Tsns : \/ y.sent[t] = x.sent[t]
                       \/ {x.sent[t], y.sent[t]} \subseteq {"sent", "resend"}
    /\ \A t \in Tsns : x.whoTo[t] \in Nets => y.whoTo[t] \in Nets

LEMMA SameShuffled ==
  ASSUME NEW x, NEW y, SameQueue(x, y)
  PROVE  Shuffled(x, y)
  BY DEF SameQueue, Shuffled

LEMMA MarksShuffled ==
  ASSUME NEW x, NEW y, NEW S \in SUBSET (InFlight(x) \cup Resend(x)),
         NEW st \in {"sent", "resend"}, Marks(x, y, S, st)
  PROVE  Shuffled(x, y)
  BY DEF Marks, Shuffled, InFlight, Resend

LEMMA ShuffledTrans ==
  ASSUME NEW x, NEW y, NEW z, Shuffled(x, y), Shuffled(y, z)
  PROVE  Shuffled(x, z)
  BY DEF Shuffled

LEMMA ShuffledQueues ==
  ASSUME NEW x, NEW y, Shuffled(x, y)
  PROVE  /\ SentQueue(y) = SentQueue(x) /\ SendQueue(y) = SendQueue(x)
         /\ InFlight(y) \cup Resend(y) = InFlight(x) \cup Resend(x)
<1>1. SentQueue(y) = SentQueue(x)
  BY DEF Shuffled, SentQueue
<1>2. InFlight(y) \cup Resend(y) = InFlight(x) \cup Resend(x)
  BY DEF Shuffled, InFlight, Resend
<1>3. 1..y.queued \subseteq Tsns
  BY SenderAssumption DEF Shuffled, SendSide, Tsns
<1>4. SendQueue(y) = SendQueue(x)
  BY <1>3 DEF Shuffled, SendQueue
<1> QED
  BY <1>1, <1>2, <1>4

LEMMA ShuffledQueued ==
  ASSUME NEW x, NEW y, Shuffled(x, y), Queued(x)
  PROVE  Queued(y)
<1>1. y \in SendSide
  BY DEF Shuffled
<1>2. Unmarked(y)
  BY DEF Shuffled, Queued, Unmarked
<1>3. Ordered(y)
  BY DEF Shuffled, Queued, Ordered
<1>4. HeadSent(y)
  BY DEF Shuffled, Queued, HeadSent
<1>5. AckedSeen(y)
  BY DEF Shuffled, Queued, AckedSeen
<1>6. Addressed(y)
  BY ShuffledQueues DEF Shuffled, Queued, Addressed, SentQueue
<1> QED
  BY <1>1, <1>2, <1>3, <1>4, <1>5, <1>6 DEF Queued

LEMMA StrikeShuffled ==
  ASSUME NEW x \in SendSide, NEW S \in SUBSET InFlight(x)
  PROVE  Shuffled(x, Strike(x, S)) /\ SameTimers(x, Strike(x, S))
<1> DEFINE u == Mark(x, S, "resend")
           v == FlightDecrease(u, S)
           w == RetranIncrease(v, Cardinality(S))
<1>1. S \in SUBSET Tsns /\ Cardinality(S) \in Nat
      /\ S \in SUBSET (InFlight(x) \cup Resend(x))
  BY CardNat DEF InFlight
<1>2. Marks(x, u, S, "resend") /\ u \in SendSide
  BY <1>1, MarkMarks DEF Marks, AnyStatus, Statuses
<1>3. Strike(x, S) = w
  BY DEF Strike
<1> HIDE DEF u
<1>4. Same(u, v) /\ v \in SendSide
  BY <1>1, <1>2, FlightDecreaseSame DEF Same, SameQueue
<1> HIDE DEF v
<1>5. Same(v, w)
  BY <1>1, <1>4, RetranSame
<1> HIDE DEF w
<1>6. Same(u, w)
  BY <1>4, <1>5, SameTrans
<1>7. Marks(x, w, S, "resend")
  BY <1>2, <1>6, MarksSame
<1>8. Shuffled(x, w)
  BY <1>1, <1>7, MarksShuffled
<1>9. SameTimers(x, w)
  BY <1>7 DEF Marks
<1> QED
  BY <1>3, <1>8, <1>9

LEMMA ProbeRecoveryShuffled ==
  ASSUME NEW x \in SendSide
  PROVE  LET y == ProbeRecovery(x) IN
         /\ Shuffled(x, y) /\ SameTimers(x, y)
         /\ \A n \in Nets : y.flight[n] <= x.flight[n]
<1> DEFINE P == x.probe \cap SentQueue(x)
           t == CHOOSE u \in Tsns : IsFirst(u, P)
           Q == x.probe \ {t}
           y == [x EXCEPT !.probe = Q]
           v == FlightDecrease(y, {t})
           w == Mark(v, {t}, "resend")
           z == RetranIncrease(w, 1)
<1>0. \A n \in Nets : x.flight[n] \in Nat
  BY DEF SendSide
<1>1. CASE P = {}
  BY <1>0, <1>1 DEF ProbeRecovery, Shuffled, SameTimers
<1>2. CASE P # {}
  <2>1. P \in SUBSET Tsns /\ Q \in SUBSET Tsns
    BY QueueParts DEF SendSide
  <2>2. t \in P
    BY <1>2, <2>1, FirstExists
  <2>3. ProbeRecovery(x) = IF x.sent[t] \in {"sent", "resend"} THEN z ELSE y
    BY <1>2 DEF ProbeRecovery
  <2>4. {t} \in SUBSET Tsns /\ t \in Tsns
    BY <2>1, <2>2
  <2> HIDE DEF t, Q
  <2>5. Same(x, y) /\ y \in SendSide /\ y.flight = x.flight
    <3>1. {} \in SUBSET Nets
      OBVIOUS
    <3> QED
      BY <2>1, <3>1, ProbeSame DEF Same, SameQueue
  <2> HIDE DEF y
  <2>6. CASE x.sent[t] \notin {"sent", "resend"}
    BY <1>0, <2>3, <2>5, <2>6, SameShuffled DEF Same
  <2>7. CASE x.sent[t] \in {"sent", "resend"}
    <3>1. /\ Same(y, v) /\ v \in SendSide
          /\ \A n \in Nets : v.flight[n] <= y.flight[n]
      BY <2>4, <2>5, FlightDecreaseSame DEF Same, SameQueue
    <3> HIDE DEF v
    <3>2. Marks(v, w, {t}, "resend") /\ w.flight = v.flight /\ w \in SendSide
      BY <2>4, <3>1, MarkMarks DEF Marks, AnyStatus, Statuses
    <3> HIDE DEF w
    <3>3. Same(w, z) /\ z.flight = w.flight
      BY <3>2, RetranSame
    <3> HIDE DEF z
    <3>4. Same(x, v)
      BY <2>5, <3>1, SameTrans
    <3>5. Marks(x, z, {t}, "resend")
      BY <3>2, <3>3, <3>4, MarksSame
    <3>6. {t} \in SUBSET (InFlight(x) \cup Resend(x))
      BY <2>4, <2>7 DEF InFlight, Resend
    <3>7. Shuffled(x, z)
      BY <3>5, <3>6, MarksShuffled
    <3>8. SameTimers(x, z)
      BY <3>5 DEF Marks
    <3>9. \A n \in Nets : z.flight[n] <= x.flight[n]
      BY <2>5, <3>1, <3>2, <3>3
    <3>10. ProbeRecovery(x) = z
      BY <2>3, <2>7
    <3> QED
      BY <3>7, <3>8, <3>9, <3>10
  <2> QED
    BY <2>6, <2>7
<1> QED
  BY <1>1, <1>2

LEMMA SentMarks ==
  ASSUME NEW x \in SendSide, NEW S \in SUBSET Tsns, NEW n
  PROVE  Marks(x, Sent(x, S, n), S, "sent")
<1> DEFINE u == Mark(x, S, "sent")
           v == FlightIncrease(u, S)
           Y == IF n \in x.timer THEN v.young \cup S ELSE v.young \ S
<1>1. Marks(x, u, S, "sent") /\ u \in SendSide
  BY MarkMarks DEF Marks, AnyStatus, Statuses
<1>2. Sent(x, S, n) = [v EXCEPT !.young = Y]
  BY DEF Sent
<1> HIDE DEF u
<1>3. Same(u, v) /\ v \in SendSide
  BY <1>1, FlightIncreaseSame DEF Same, SameQueue
<1> HIDE DEF v
<1>4. Y \in SUBSET Tsns
  BY <1>3 DEF SendSide
<1> HIDE DEF Y
<1>5. Same(v, Sent(x, S, n))
  BY <1>2, <1>3, <1>4 DEF Same, SameQueue, SameTimers, SendSide
<1>6. Same(u, Sent(x, S, n))
  BY <1>3, <1>5, SameTrans
<1> QED
  BY <1>1, <1>6, MarksSame

LEMMA MayProbeSame ==
  ASSUME NEW x \in SendSide, NEW S \in SUBSET Tsns, NEW n \in Nets, NEW probe \in BOOLEAN
  PROVE  LET p == IF probe THEN Probed(x, S, n) ELSE x IN Same(x, p)
<1>1. Same(x, x)
  BY DEF Same, SameQueue, SameTimers
<1> QED
  BY <1>1, ProbedSame

LEMMA ResentShuffled ==
  ASSUME NEW x \in SendSide, NEW S \in SUBSET Resend(x), NEW n \in Nets,
         NEW probe \in BOOLEAN
  PROVE  LET y == Resent(IF probe THEN Probed(x, S, n) ELSE x, S, n) IN
         Shuffled(x, y) /\ n \in y.timer /\ (TimerCount(x) => TimerCount(y))
<1> DEFINE p == IF probe THEN Probed(x, S, n) ELSE x
           u == Sent(p, S, n)
           v == Deflate(u, S)
           w == RetranDecrease(v, Cardinality(S))
           y == TimerStart(w, n)
<1>1. S \in SUBSET Tsns /\ Cardinality(S) \in Nat /\ S \in SUBSET (InFlight(x) \cup Resend(x))
  BY CardNat DEF Resend
<1>2. Same(x, p) /\ p \in SendSide
  BY <1>1, MayProbeSame DEF Same, SameQueue
<1>3. Resent(p, S, n) = y
  BY DEF Resent
<1> HIDE DEF p
<1>4. Marks(p, u, S, "sent") /\ u \in SendSide
  <2>1. Marks(p, u, S, "sent")
    BY <1>1, <1>2, SentMarks
  <2> QED
    BY <2>1 DEF Marks
<1> HIDE DEF u
<1>5. Same(u, v) /\ v \in SendSide
  BY <1>1, <1>4, DeflateSame DEF Same, SameQueue
<1> HIDE DEF v
<1>6. Same(v, w) /\ w \in SendSide
  BY <1>1, <1>5, RetranSame DEF Same, SameQueue
<1> HIDE DEF w
<1>7. Same(u, w)
  BY <1>5, <1>6, SameTrans
<1>8. Marks(x, w, S, "sent")
  BY <1>2, <1>4, <1>7, MarksSame
<1>9. Shuffled(x, w) /\ SameTimers(x, w)
  <2>1. SameTimers(x, w)
    BY <1>8 DEF Marks
  <2> QED
    BY <1>1, <1>8, <2>1, MarksShuffled
<1>10. Timed(w, y, w.timer \cup {n})
  BY <1>6, StartTimed
<1> HIDE DEF y
<1>11. Shuffled(w, y) /\ n \in y.timer /\ (TimerCount(w) => TimerCount(y))
  BY <1>10, SameShuffled DEF Timed
<1>12. Shuffled(x, y)
  BY <1>9, <1>11, ShuffledTrans
<1>13. TimerCount(x) => TimerCount(y)
  BY <1>9, <1>11 DEF SameTimers, TimerCount
<1> QED
  BY <1>3, <1>11, <1>12, <1>13 DEF p

LEMMA MarkForResendShuffled ==
  ASSUME NEW x \in SendSide, NEW n \in Nets, NEW alt \in Nets,
         NEW M \in SUBSET (InFlight(x) \cup Resend(x))
  PROVE  LET y == MarkForResend(x, M, n, alt) IN Shuffled(x, y) /\ SameTimers(x, y)
<1> DEFINE out == M \cap InFlight(x)
           d == Deflate(x, out)
           y == FlightDecrease(d, out)
           m == Mark(y, M, "resend")
           f == [t \in Tsns |-> IF t \in M THEN alt ELSE m.whoTo[t]]
           z == [m EXCEPT !.whoTo = f]
           k == Cardinality(Resend(z))
           w == [z EXCEPT !.retran = k]
<1>1. M \in SUBSET Tsns /\ out \in SUBSET Tsns
  BY DEF InFlight, Resend
<1>2. \/ MarkForResend(x, M, n, alt) = w
      \/ MarkForResend(x, M, n, alt) = Recount(w)
  BY DEF MarkForResend
<1> HIDE DEF out
<1>3. Same(x, d) /\ d \in SendSide
  BY <1>1, DeflateSame DEF Same, SameQueue
<1> HIDE DEF d
<1>4. Same(d, y) /\ y \in SendSide
  BY <1>1, <1>3, FlightDecreaseSame DEF Same, SameQueue
<1> HIDE DEF y
<1>5. Marks(y, m, M, "resend") /\ m \in SendSide
  BY <1>1, <1>4, MarkMarks DEF Marks, AnyStatus, Statuses
<1> HIDE DEF m
<1>6. f \in [Tsns -> Nets \cup {"none"}]
  BY <1>5 DEF SendSide
<1> HIDE DEF f
<1>7. /\ z \in SendSide /\ z.sent = m.sent /\ z.last = m.last /\ z.queued = m.queued
      /\ z.saw_frags = m.saw_frags /\ SameTimers(m, z) /\ z.whoTo = f
  BY <1>5, <1>6 DEF SameTimers, SendSide
<1>7a. Shuffled(m, z)
  BY <1>7 DEF Shuffled, f
<1> HIDE DEF z
<1>8. k \in Nat
  BY QueueParts, CardNat
<1> HIDE DEF k
<1>9. Same(z, w) /\ w \in SendSide
  BY <1>7, <1>8, RetranSame DEF Same, SameQueue
<1> HIDE DEF w
<1>10. Same(w, Recount(w))
  BY <1>9, RecountIsSame
<1>11. Same(x, y)
  BY <1>3, <1>4, SameTrans
<1>12. Shuffled(z, w) /\ Shuffled(w, Recount(w))
  BY <1>9, <1>10, SameShuffled DEF Same
<1>13. Marks(x, m, M, "resend")
  BY <1>5, <1>11, MarksSame
<1>14. Shuffled(x, m)
  BY <1>13, MarksShuffled
<1>15. Shuffled(x, w) /\ Shuffled(x, Recount(w))
  BY <1>7a, <1>12, <1>14, ShuffledTrans
<1>16. SameTimers(x, w) /\ SameTimers(x, Recount(w))
  BY <1>7, <1>9, <1>10, <1>13 DEF Marks, Same, SameTimers
<1> QED
  BY <1>2, <1>15, <1>16

(* The first chunk of the send queue goes out. *)
Readdressed(b, t, n) ==
    [b EXCEPT !.whoTo[t] = n, !.probe = @ \ {t}, !.revoked = @ \ {t}]
WentOut(b, t, n, probe) ==
    LET x == Readdressed(b, t, n)
    IN TimerStart(Sent(IF probe THEN Probed(x, {t}, n) ELSE x, {t}, n), n)

\* y is b with chunk t sent to n.
SentTo(b, y, t, n) ==
    /\ y \in SendSide /\ y.last = b.last /\ y.queued = b.queued
    /\ y.saw_frags = b.saw_frags
    /\ \A u \in Tsns : y.sent[u] = IF u = t THEN "sent" ELSE b.sent[u]
    /\ \A u \in Tsns : y.whoTo[u] = IF u = t THEN n ELSE b.whoTo[u]
    /\ n \in y.timer /\ (TimerCount(b) => TimerCount(y))

LEMMA FirstSendMarks ==
  ASSUME NEW b \in SendSide, NEW t \in Tsns, NEW n \in Nets, NEW probe \in BOOLEAN
  PROVE  SentTo(b, WentOut(b, t, n, probe), t, n)
<1> DEFINE x == Readdressed(b, t, n)
           f == [b.whoTo EXCEPT ![t] = n]
           P == b.probe \ {t}
           R == b.revoked \ {t}
           T == {t}
           p == IF probe THEN Probed(x, T, n) ELSE x
           u == Sent(p, T, n)
           y == TimerStart(u, n)
<1>1. /\ f \in [Tsns -> Nets \cup {"none"}] /\ P \in SUBSET Tsns /\ R \in SUBSET Tsns
      /\ T \in SUBSET Tsns
  BY DEF SendSide
<1>2. x = [b EXCEPT !.whoTo = f, !.probe = P, !.revoked = R]
  BY DEF SendSide, Readdressed
<1>2a. \A v \in Tsns : f[v] = IF v = t THEN n ELSE b.whoTo[v]
  BY DEF SendSide
<1> HIDE DEF x, f, P, R, T
<1>3. /\ x \in SendSide /\ x.sent = b.sent /\ x.last = b.last /\ x.queued = b.queued
      /\ x.saw_frags = b.saw_frags /\ x.whoTo = f /\ SameTimers(b, x)
  BY <1>1, <1>2 DEF SameTimers, SendSide
<1>4. Same(x, p) /\ p \in SendSide
  <2>1. T \in SUBSET Tsns /\ x \in SendSide
    BY <1>1, <1>3
  <2>2. Same(x, p)
    BY ONLY <2>1, MayProbeSame, n \in Nets, probe \in BOOLEAN
  <2> QED
    BY ONLY <2>2 DEF Same, SameQueue
<1> HIDE DEF p
<1>5. Marks(p, u, T, "sent") /\ u \in SendSide
  <2>1. T \in SUBSET Tsns /\ p \in SendSide
    BY <1>1, <1>4
  <2>2. Marks(p, u, T, "sent")
    BY ONLY <2>1, SentMarks
  <2> QED
    BY ONLY <2>2 DEF Marks
<1> HIDE DEF u
<1>7. Marks(x, u, T, "sent")
  BY ONLY <1>4, <1>5, MarksSame
<1>8. Timed(u, y, u.timer \cup {n})
  BY <1>5, StartTimed
<1> HIDE DEF y
<1>9. /\ y \in SendSide /\ y.last = b.last /\ y.queued = b.queued
      /\ y.saw_frags = b.saw_frags /\ n \in y.timer
      /\ TimerCount(b) => TimerCount(y)
  BY ONLY <1>3, <1>7, <1>8 DEF Marks, Timed, SameQueue, SameTimers, TimerCount
<1>10. \A v \in Tsns : /\ y.sent[v] = IF v = t THEN "sent" ELSE b.sent[v]
                       /\ y.whoTo[v] = IF v = t THEN n ELSE b.whoTo[v]
  BY ONLY <1>2a, <1>3, <1>7, <1>8 DEF Marks, Timed, SameQueue, T
<1> QED
  BY <1>9, <1>10 DEF y, u, p, T, x, WentOut, SentTo

LEMMA FirstSendQueued ==
  ASSUME NEW b, Queued(b), NEW t, IsFirst(t, SendQueue(b)),
         NEW y \in SendSide, y.last = b.last, y.saw_frags = b.saw_frags,
         \A u \in Tsns : y.sent[u] = IF u = t THEN "sent" ELSE b.sent[u],
         NEW n \in Nets, \A u \in Tsns : y.whoTo[u] = IF u = t THEN n ELSE b.whoTo[u]
  PROVE  Queued(y)
<1>1. t \in Tsns /\ b.sent[t] = "unsent" /\ b.queued \in Nat /\ b.queued <= MaxTsn
      /\ t <= b.queued /\ MaxTsn \in Nat /\ b.last \in Nat /\ t \in Nat
  BY SenderAssumption DEF IsFirst, SendQueue, Queued, SendSide, Tsns
<1>2. \A u \in Tsns : b.sent[u] = "unsent" => t <= u
  <2> SUFFICES ASSUME NEW u \in Tsns, b.sent[u] = "unsent", ~(t <= u)
               PROVE  FALSE
    OBVIOUS
  <2>1. u \in 1..b.queued
    BY <1>1 DEF Tsns
  <2>2. u \in SendQueue(b)
    BY <2>1 DEF SendQueue
  <2> QED
    BY <2>2 DEF IsFirst
<1>3. Unmarked(y)
  BY DEF Unmarked, Queued
<1>4. Ordered(y)
  <2>1. \A u \in Tsns : y.sent[u] = "freed" <=> u <= y.last
    BY <1>1 DEF Queued, Ordered
  <2>2. ASSUME NEW u \in Tsns, NEW v \in Tsns, y.sent[u] = "unsent", u <= v
        PROVE  y.sent[v] = "unsent"
    <3>1. u # t /\ b.sent[u] = "unsent"
      BY <2>2
    <3>2. t <= u /\ b.sent[v] = "unsent"
      BY <1>2, <2>2, <3>1 DEF Queued, Ordered
    <3>3. v # t
      BY <2>2, <3>1, <3>2, <1>1 DEF Tsns
    <3> QED
      BY <3>2, <3>3
  <2> QED
    BY <2>1, <2>2 DEF Ordered
<1>5. HeadSent(y)
  BY DEF Queued, HeadSent
<1>6. AckedSeen(y)
  BY DEF Queued, AckedSeen
<1>7. Addressed(y)
  BY DEF Queued, Addressed, SentQueue
<1> QED
  BY <1>3, <1>4, <1>5, <1>6, <1>7 DEF Queued

-----------------------------------------------------------------------------
(***************************************************************************)
(* SACKs.  What each part of the SACK handlers does to the status of a     *)
(* chunk; then that the sent queue stays in order and its head open.       *)
(***************************************************************************)

\* y is x with other statuses, perhaps other timers.
Handled(x, y, last, saw) ==
    /\ y \in SendSide /\ y.last = last /\ y.queued = x.queued /\ y.saw_frags = saw
    /\ TimerCount(x) => TimerCount(y)
    /\ \A t \in Tsns : y.sent[t] = "freed" \/ y.whoTo[t] = x.whoTo[t]

LEMMA MarksHandled ==
  ASSUME NEW x, NEW y, NEW S, NEW st, Marks(x, y, S, st)
  PROVE  Handled(x, y, x.last, x.saw_frags)
  BY DEF Marks, Handled, SameTimers, TimerCount

LEMMA SameHandled ==
  ASSUME NEW x, NEW y, NEW z, NEW last, NEW saw,
         Handled(x, y, last, saw), Same(y, z)
  PROVE  Handled(x, z, last, saw)
  BY DEF Same, SameQueue, SameTimers, Handled, TimerCount

LEMMA LastSet ==
  ASSUME NEW x, NEW y, NEW z, NEW l, NEW saw, Handled(x, y, l, saw),
         NEW k \in 0..MaxTsn, z = [y EXCEPT !.last = k]
  PROVE  Handled(x, z, k, saw) /\ z.sent = y.sent
<1>1. y \in SendSide
  BY DEF Handled
<1>2. /\ z \in SendSide /\ z.last = k /\ z.queued = y.queued
      /\ z.saw_frags = y.saw_frags /\ z.sent = y.sent
      /\ z.timer = y.timer /\ z.timers_up = y.timers_up /\ z.whoTo = y.whoTo
  BY <1>1 DEF SendSide
<1> QED
  BY <1>2 DEF Handled, TimerCount

LEMMA ExpressAckSent ==
  ASSUME NEW x \in SendSide, NEW k \in 0..MaxTsn
  PROVE  LET y == ExpressAck(x, k) IN
         /\ Handled(x, y, k, x.saw_frags)
         /\ \A t \in Tsns : y.sent[t] = IF t \in SentQueue(x) /\ t <= k
                                        THEN "freed" ELSE x.sent[t]
<1> DEFINE S == {t \in SentQueue(x) : t <= k}
           u == Leave(x, S)
           v == Free(u, S)
           w == [v EXCEPT !.last = k]
<1>1. S \in SUBSET Tsns
      /\ \A t \in Tsns : t \in S <=> t \in SentQueue(x) /\ t <= k
  BY QueueParts
<1>2. ExpressAck(x, k) = w \/ ExpressAck(x, k) = NothingInFlight(w)
  BY DEF ExpressAck
<1> HIDE DEF S
<1>3. Same(x, u) /\ u \in SendSide
  BY <1>1, LeaveSame DEF Same, SameQueue
<1> HIDE DEF u
<1>4. Marks(u, v, S, "freed")
  BY <1>1, <1>3, FreeMarks
<1> HIDE DEF v
<1>5. Marks(x, v, S, "freed")
  BY <1>3, <1>4, MarksSame
<1>6. Handled(x, v, x.last, x.saw_frags)
  BY <1>5, MarksHandled
<1>7. Handled(x, w, k, x.saw_frags) /\ w.sent = v.sent
  BY <1>1, <1>6, LastSet
<1> HIDE DEF w
<1>8. Same(w, NothingInFlight(w))
  BY <1>7, NothingInFlightSame DEF Handled
<1>9. Handled(x, NothingInFlight(w), k, x.saw_frags)
      /\ NothingInFlight(w).sent = v.sent
  BY <1>7, <1>8, SameHandled DEF Same, SameQueue
<1>10. \A t \in Tsns : v.sent[t] = IF t \in SentQueue(x) /\ t <= k
                                   THEN "freed" ELSE x.sent[t]
  BY <1>1, <1>5 DEF Marks
<1> QED
  BY <1>2, <1>7, <1>9, <1>10

LEMMA CumAckSent ==
  ASSUME NEW x \in SendSide, NEW s \in SackType
  PROVE  LET y == CumAck(x, s) IN
         /\ Handled(x, y, x.last, x.saw_frags)
         /\ \A t \in Tsns :
              y.sent[t] = IF t \in SentQueue(x) /\ t <= s.cum /\ x.sent[t] # "nracked"
                          THEN "acked" ELSE x.sent[t]
<1> DEFINE S == {t \in SentQueue(x) : t <= s.cum}
           M == {t \in S : x.sent[t] # "nracked"}
           u == Leave(x, S)
           v == Mark(u, M, "acked")
<1>1. /\ S \in SUBSET Tsns /\ M \in SUBSET Tsns
      /\ \A t \in Tsns : t \in M <=> t \in SentQueue(x) /\ t <= s.cum /\ x.sent[t] # "nracked"
  BY QueueParts
<1>2. CumAck(x, s) = v
  BY DEF CumAck
<1> HIDE DEF S, M
<1>3. Same(x, u) /\ u \in SendSide
  BY <1>1, LeaveSame DEF Same, SameQueue
<1> HIDE DEF u
<1>4. Marks(u, v, M, "acked")
  BY <1>1, <1>3, MarkMarks DEF AnyStatus, Statuses
<1> HIDE DEF v
<1>5. Marks(x, v, M, "acked")
  BY <1>3, <1>4, MarksSame
<1>6. Handled(x, v, x.last, x.saw_frags)
  BY <1>5, MarksHandled
<1>7. \A t \in Tsns : v.sent[t] = IF t \in M THEN "acked" ELSE x.sent[t]
  BY <1>5 DEF Marks
<1> QED
  BY <1>1, <1>2, <1>6, <1>7

LEMMA SegmentsSent ==
  ASSUME NEW x \in SendSide, NEW s \in SackType
  PROVE  LET y == Segments(x, s) IN
         /\ Handled(x, y, x.last, x.saw_frags)
         /\ \A t \in Tsns :
              y.sent[t] = IF t \in SentQueue(x) /\ t \in s.nr THEN "nracked"
                          ELSE IF t \in SentQueue(x) /\ t \in s.seg /\ x.sent[t] # "nracked"
                          THEN "marked" ELSE x.sent[t]
<1> DEFINE seg == s.seg \cap SentQueue(x)
           nr == s.nr \cap SentQueue(x)
           S == seg \cup nr
           M == {t \in seg : x.sent[t] # "nracked"}
           u == Leave(x, S)
           v == Mark(u, M, "marked")
           w == Mark(v, nr, "nracked")
<1>1. /\ S \in SUBSET Tsns /\ M \in SUBSET Tsns /\ nr \in SUBSET Tsns
      /\ \A t \in Tsns : t \in nr <=> t \in SentQueue(x) /\ t \in s.nr
      /\ \A t \in Tsns : t \in M <=> t \in SentQueue(x) /\ t \in s.seg /\ x.sent[t] # "nracked"
  BY QueueParts DEF SackType
<1>2. Segments(x, s) = w
  BY DEF Segments
<1> HIDE DEF S, M, nr
<1>3. Same(x, u) /\ u \in SendSide
  BY <1>1, LeaveSame DEF Same, SameQueue
<1> HIDE DEF u
<1>4. Marks(u, v, M, "marked") /\ v \in SendSide
  BY <1>1, <1>3, MarkMarks DEF AnyStatus, Statuses, Marks
<1> HIDE DEF v
<1>5. Marks(x, v, M, "marked")
  BY <1>3, <1>4, MarksSame
<1>6. Marks(v, w, nr, "nracked")
  BY <1>1, <1>4, MarkMarks DEF AnyStatus, Statuses
<1> HIDE DEF w
<1>7. Handled(x, w, x.last, x.saw_frags)
  BY <1>5, <1>6 DEF Marks, Handled, SameTimers, TimerCount
<1>8. \A t \in Tsns : w.sent[t] = IF t \in nr THEN "nracked"
                                  ELSE IF t \in M THEN "marked" ELSE x.sent[t]
  BY <1>5, <1>6 DEF Marks
<1> QED
  BY <1>1, <1>2, <1>7, <1>8

LEMMA FreeAckedSent ==
  ASSUME NEW x \in SendSide, NEW s \in SackType
  PROVE  LET y == FreeAcked(x, s) IN
         /\ Handled(x, y, s.cum, x.saw_frags)
         /\ \A t \in Tsns : y.sent[t] = IF t \in SentQueue(x) /\ t <= s.cum
                                        THEN "freed" ELSE x.sent[t]
<1> DEFINE y == IF \E t \in SentQueue(x) : t <= s.cum THEN TimerStop(x, Nets) ELSE x
           S == {t \in SentQueue(y) : t <= s.cum}
           v == Free(y, S)
           z == [v EXCEPT !.last = s.cum]
<1>1. FreeAcked(x, s) = z \/ FreeAcked(x, s) = [z EXCEPT !.total = 0]
  BY DEF FreeAcked
<1>2. SameQueue(x, y) /\ (TimerCount(x) => TimerCount(y))
  <2>1. Nets \in SUBSET Nets /\ SameQueue(x, x)
    BY DEF SameQueue
  <2>2. Timed(x, TimerStop(x, Nets), x.timer \ Nets)
    BY <2>1, StopTimed
  <2> QED
    BY <2>1, <2>2 DEF Timed
<1> HIDE DEF y
<1>3. y \in SendSide /\ SentQueue(y) = SentQueue(x)
  BY <1>2 DEF SameQueue, SentQueue
<1>4. S \in SUBSET Tsns /\ s.cum \in 0..MaxTsn
      /\ \A t \in Tsns : t \in S <=> t \in SentQueue(x) /\ t <= s.cum
  BY <1>3, QueueParts DEF SackType
<1> HIDE DEF S
<1>5. Marks(y, v, S, "freed")
  BY <1>3, <1>4, FreeMarks
<1> HIDE DEF v
<1>6. Handled(x, v, x.last, x.saw_frags)
  BY <1>2, <1>5 DEF Marks, Handled, SameQueue, SameTimers, TimerCount
<1>7. Handled(x, z, s.cum, x.saw_frags) /\ z.sent = v.sent
  BY <1>4, <1>6, LastSet
<1> HIDE DEF z
<1>8. Same(z, [z EXCEPT !.total = 0])
  BY <1>7, NothingInFlightSame DEF Handled
<1>9. Handled(x, [z EXCEPT !.total = 0], s.cum, x.saw_frags)
      /\ [z EXCEPT !.total = 0].sent = v.sent
  BY <1>7, <1>8, SameHandled DEF Same, SameQueue
<1>10. \A t \in Tsns : v.sent[t] = IF t \in SentQueue(x) /\ t <= s.cum
                                   THEN "freed" ELSE x.sent[t]
  BY <1>2, <1>4, <1>5 DEF Marks, SameQueue
<1> QED
  BY <1>1, <1>7, <1>9, <1>10

LEMMA RevokeMarks ==
  ASSUME NEW x \in SendSide, NEW S \in SUBSET Tsns
  PROVE  Marks(x, Revoke(x, S), S, "sent")
<1> DEFINE u == Mark(x, S, "sent")
           v == FlightIncrease(u, S)
<1>1. Marks(x, u, S, "sent") /\ u \in SendSide
  BY MarkMarks DEF Marks, AnyStatus, Statuses
<1>2. Revoke(x, S) = Inflate(v, S)
  BY DEF Revoke
<1> HIDE DEF u
<1>3. Same(u, v) /\ v \in SendSide
  BY <1>1, FlightIncreaseSame DEF Same, SameQueue
<1> HIDE DEF v
<1>4. Same(v, Revoke(x, S))
  BY <1>2, <1>3, DeflateSame
<1>5. Same(u, Revoke(x, S))
  BY <1>3, <1>4, SameTrans
<1> QED
  BY <1>1, <1>5, MarksSame

LEMMA CheckForRevokedSent ==
  ASSUME NEW x \in SendSide, NEW s \in SackType
  PROVE  LET y == CheckForRevoked(x, s) IN
         /\ Handled(x, y, x.last, s.seg # {})
         /\ \A t \in Tsns :
              y.sent[t] =
                IF /\ s.seg # {} \/ x.saw_frags
                   /\ x.sent[t] = "acked" /\ (s.seg = {} \/ Reaches(s, t))
                THEN "sent"
                ELSE IF s.seg # {} /\ x.sent[t] = "marked" THEN "acked" ELSE x.sent[t]
<1> DEFINE gone == {t \in Tsns : x.sent[t] = "acked" /\ (s.seg = {} \/ Reaches(s, t))}
           y == IF s.seg # {} \/ x.saw_frags THEN Revoke(x, gone) ELSE x
           G == IF s.seg # {} \/ x.saw_frags THEN gone ELSE {}
           M == {t \in Tsns : s.seg # {} /\ y.sent[t] = "marked"}
           z == Mark(y, M, "acked")
           p == s.seg # {}
           q == s.nr # {}
           w == [z EXCEPT !.saw_frags = p, !.saw_nr_frags = q]
           e == NothingInFlight(TimerStop(w, Nets))
<1>1. CheckForRevoked(x, s) = w \/ CheckForRevoked(x, s) = e
  BY DEF CheckForRevoked
<1>2. Marks(x, y, G, "sent") /\ y \in SendSide
  <2>1. Marks(x, Revoke(x, gone), gone, "sent")
    BY RevokeMarks
  <2>2. Marks(x, x, {}, "sent")
    BY DEF Marks, SameTimers
  <2> QED
    BY <2>1, <2>2 DEF Marks
<1>3. \A t \in Tsns : t \in G <=> /\ s.seg # {} \/ x.saw_frags
                                  /\ x.sent[t] = "acked" /\ (s.seg = {} \/ Reaches(s, t))
  OBVIOUS
<1> HIDE DEF y, G
<1>4. M \in SUBSET Tsns /\ \A t \in Tsns : t \in M <=> s.seg # {} /\ y.sent[t] = "marked"
  OBVIOUS
<1> HIDE DEF M
<1>5. Marks(y, z, M, "acked") /\ z \in SendSide
  BY <1>2, <1>4, MarkMarks DEF AnyStatus, Statuses, Marks
<1> HIDE DEF z
<1>6. p \in BOOLEAN /\ q \in BOOLEAN
  OBVIOUS
<1>6a. p = (s.seg # {})
  OBVIOUS
<1> HIDE DEF p, q
<1>7. /\ w \in SendSide /\ w.sent = z.sent /\ w.last = z.last /\ w.queued = z.queued
      /\ w.saw_frags = p /\ w.timer = z.timer /\ w.timers_up = z.timers_up
      /\ w.whoTo = z.whoTo
  BY <1>5, <1>6 DEF SendSide
<1> HIDE DEF w
<1>8. Handled(x, w, x.last, p)
  BY <1>2, <1>5, <1>7 DEF Marks, Handled, SameTimers, TimerCount
<1>9. Handled(x, e, x.last, p) /\ e.sent = w.sent
  <2> DEFINE h == TimerStop(w, Nets)
  <2>1. Nets \in SUBSET Nets
    OBVIOUS
  <2>2. Timed(w, h, w.timer \ Nets)
    BY <1>7, <2>1, StopTimed
  <2> HIDE DEF h
  <2>3. h \in SendSide
    BY <2>2 DEF Timed, SameQueue
  <2>4. Same(h, NothingInFlight(h))
    BY <2>3, NothingInFlightSame
  <2>5. Handled(x, h, x.last, p) /\ h.sent = w.sent
    BY <1>8, <2>2 DEF Timed, SameQueue, Handled
  <2>6. Handled(x, NothingInFlight(h), x.last, p)
    BY <2>4, <2>5, SameHandled
  <2> QED
    BY <2>4, <2>5, <2>6 DEF Same, SameQueue, h
<1>10. \A t \in Tsns : w.sent[t] = IF t \in G THEN "sent"
                                   ELSE IF s.seg # {} /\ x.sent[t] = "marked" THEN "acked"
                                   ELSE x.sent[t]
  BY <1>2, <1>4, <1>5, <1>7 DEF Marks
<1> QED
  BY <1>1, <1>3, <1>6a, <1>8, <1>9, <1>10

\* What sctp_handle_sack leaves of the chunks beyond the cumulative TSN.
Sacked(x, y, s) ==
    \A t \in Tsns :
        /\ t \notin SentQueue(x) => y.sent[t] = x.sent[t]
        /\ t \in SentQueue(x) /\ t <= s.cum => y.sent[t] = "freed"
        /\ t \in SentQueue(x) /\ ~(t <= s.cum) =>
             /\ y.sent[t] \notin {"unsent", "freed", "marked"}
             /\ y.sent[t] = "nracked" => x.sent[t] = "nracked" \/ t \in s.nr
             /\ y.sent[t] = "acked" =>
                  \/ s.seg # {} /\ (t \in s.seg \/ (x.sent[t] = "acked" /\ ~Reaches(s, t)))
                  \/ s.seg = {} /\ ~x.saw_frags /\ x.sent[t] = "acked"

LEMMA SlowAckSent ==
  ASSUME NEW x \in SendSide, Unmarked(x), NEW s \in SackType
  PROVE  LET y == SlowAck(x, s) IN
         Handled(x, y, s.cum, s.seg # {}) /\ Sacked(x, y, s)
<1> DEFINE u == CumAck(x, s)
           v == Segments(u, s)
           w == FreeAcked(v, s)
           y == CheckForRevoked(w, s)
<1>1. SlowAck(x, s) = y
  BY DEF SlowAck
<1>2. /\ Handled(x, u, x.last, x.saw_frags)
      /\ \A t \in Tsns :
           u.sent[t] = IF t \in SentQueue(x) /\ t <= s.cum /\ x.sent[t] # "nracked"
                       THEN "acked" ELSE x.sent[t]
  BY CumAckSent
<1>3. u \in SendSide
  BY <1>2 DEF Handled
<1> HIDE DEF u
<1>4. /\ Handled(u, v, u.last, u.saw_frags)
      /\ \A t \in Tsns :
           v.sent[t] = IF t \in SentQueue(u) /\ t \in s.nr THEN "nracked"
                       ELSE IF t \in SentQueue(u) /\ t \in s.seg /\ u.sent[t] # "nracked"
                       THEN "marked" ELSE u.sent[t]
  BY <1>3, SegmentsSent
<1>5. v \in SendSide
  BY <1>4 DEF Handled
<1> HIDE DEF v
<1>6. /\ Handled(v, w, s.cum, v.saw_frags)
      /\ \A t \in Tsns : w.sent[t] = IF t \in SentQueue(v) /\ t <= s.cum
                                     THEN "freed" ELSE v.sent[t]
  BY <1>5, FreeAckedSent
<1>7. w \in SendSide
  BY <1>6 DEF Handled
<1> HIDE DEF w
<1>8. /\ Handled(w, y, w.last, s.seg # {})
      /\ \A t \in Tsns :
           y.sent[t] =
             IF /\ s.seg # {} \/ w.saw_frags
                /\ w.sent[t] = "acked" /\ (s.seg = {} \/ Reaches(s, t))
             THEN "sent"
             ELSE IF s.seg # {} /\ w.sent[t] = "marked" THEN "acked" ELSE w.sent[t]
  BY <1>7, CheckForRevokedSent
<1> HIDE DEF y
<1>9. /\ Handled(x, y, s.cum, s.seg # {}) /\ w.saw_frags = x.saw_frags
  <2>1. \A t \in Tsns :
          /\ u.sent[t] = "freed" => v.sent[t] = "freed"
          /\ v.sent[t] = "freed" => w.sent[t] = "freed"
          /\ w.sent[t] = "freed" => y.sent[t] = "freed"
    BY <1>4, <1>6, <1>8 DEF SentQueue
  <2>2. \A t \in Tsns : y.sent[t] = "freed" \/ y.whoTo[t] = x.whoTo[t]
    BY <1>2, <1>4, <1>6, <1>8, <2>1 DEF Handled
  <2> QED
    BY <1>2, <1>4, <1>6, <1>8, <2>2 DEF Handled
<1>10. \A t \in Tsns : (t \in SentQueue(u) <=> t \in SentQueue(x))
                       /\ (t \in SentQueue(v) <=> t \in SentQueue(x))
  <2> SUFFICES ASSUME NEW t \in Tsns
               PROVE  (t \in SentQueue(u) <=> t \in SentQueue(x))
                      /\ (t \in SentQueue(v) <=> t \in SentQueue(x))
    OBVIOUS
  <2>1. t \in SentQueue(u) <=> t \in SentQueue(x)
    BY <1>2 DEF SentQueue
  <2>2. t \in SentQueue(v) <=> t \in SentQueue(u)
    BY <1>4 DEF SentQueue
  <2> QED
    BY <2>1, <2>2
<1>11. ASSUME NEW t \in Tsns, t \notin SentQueue(x)
       PROVE  y.sent[t] = x.sent[t]
  <2>1. x.sent[t] \notin {"acked", "marked"}
    BY <1>11 DEF SentQueue
  <2>2. u.sent[t] = x.sent[t] /\ v.sent[t] = x.sent[t] /\ w.sent[t] = x.sent[t]
    BY <1>2, <1>4, <1>6, <1>10, <1>11
  <2> QED
    BY <1>8, <2>1, <2>2
<1>12. ASSUME NEW t \in Tsns, t \in SentQueue(x), t <= s.cum
       PROVE  y.sent[t] = "freed"
  <2>1. w.sent[t] = "freed"
    BY <1>6, <1>10, <1>12
  <2> QED
    BY <1>8, <2>1
<1>13. ASSUME NEW t \in Tsns, t \in SentQueue(x), ~(t <= s.cum)
       PROVE  /\ y.sent[t] \notin {"unsent", "freed", "marked"}
              /\ y.sent[t] = "nracked" => x.sent[t] = "nracked" \/ t \in s.nr
              /\ y.sent[t] = "acked" =>
                  \/ s.seg # {} /\ (t \in s.seg \/ (x.sent[t] = "acked" /\ ~Reaches(s, t)))
                  \/ s.seg = {} /\ ~x.saw_frags /\ x.sent[t] = "acked"
  <2>1. u.sent[t] = x.sent[t] /\ w.sent[t] = v.sent[t]
    BY <1>2, <1>6, <1>10, <1>13
  <2>2. v.sent[t] = IF t \in s.nr THEN "nracked"
                    ELSE IF t \in s.seg /\ x.sent[t] # "nracked"
                    THEN "marked" ELSE x.sent[t]
    BY <1>4, <1>10, <1>13, <2>1
  <2>3. x.sent[t] \in {"sent", "resend", "acked", "nracked"}
    BY <1>13 DEF SentQueue, Unmarked
  <2>4. y.sent[t] =
             IF /\ s.seg # {} \/ x.saw_frags
                /\ v.sent[t] = "acked" /\ (s.seg = {} \/ Reaches(s, t))
             THEN "sent"
             ELSE IF s.seg # {} /\ v.sent[t] = "marked" THEN "acked" ELSE v.sent[t]
    BY <1>8, <1>9, <2>1
  <2>5. t \in s.seg => s.seg # {}
    OBVIOUS
  <2> QED
    BY <2>2, <2>3, <2>4, <2>5
<1>14. Sacked(x, y, s)
  BY <1>11, <1>12, <1>13 DEF Sacked
<1> QED
  BY <1>1, <1>9, <1>14

LEMMA SackReaches ==
  ASSUME NEW s \in SackType, \A t \in s.seg \cup s.nr : t > s.cum + 1, s.seg # {}
  PROVE  Reaches(s, s.cum + 1)
<1>1. PICK u \in s.seg : TRUE
  OBVIOUS
<1>2. u > s.cum + 1 /\ u \in Nat /\ s.cum \in Nat
  BY SenderAssumption DEF SackType, Tsns
<1> QED
  BY <1>1, <1>2 DEF Reaches

(* Both handlers free what the cumulative TSN covers, keep the order, and   *)
(* leave the first chunk beyond it neither acked nor nracked.               *)
LEMMA SackQueued ==
  ASSUME Queued(a), PeerHolds, SacksSound, NrKept, NEW s \in sacks, s.cum >= a.last,
         NEW y,
         \/ /\ ~a.saw_frags
            /\ Handled(a, y, s.cum, a.saw_frags)
            /\ \A t \in Tsns : y.sent[t] = IF t \in SentQueue(a) /\ t <= s.cum
                                           THEN "freed" ELSE a.sent[t]
         \/ Handled(a, y, s.cum, s.seg # {}) /\ Sacked(a, y, s)
  PROVE  /\ Queued(y)
         /\ \A t \in Tsns : y.sent[t] = "unsent" => a.sent[t] = "unsent"
         /\ \A t \in Tsns : y.sent[t] = "nracked" => a.sent[t] = "nracked" \/ t \in s.nr
<1>1. /\ y \in SendSide /\ y.last = s.cum /\ SackSound(s) /\ s \in SackType
      /\ \A t \in s.seg \cup s.nr : t > s.cum + 1
  BY DEF Handled, SacksSound, SackSound
<1>2. /\ s.cum \in Nat /\ a.last \in Nat /\ Cum(got) \in Nat /\ s.cum <= Cum(got)
      /\ \A t \in Tsns : t \in Nat /\ t >= 1
  <2>1. Cum(got) \in 0..MaxTsn
    BY CumType DEF PeerHolds
  <2> QED
    BY <1>1, <2>1, SenderAssumption DEF SackType, Queued, SendSide, Tsns, SackSound
<1>3. \A t \in Tsns : t \in SentQueue(a) \/ a.sent[t] \in {"unsent", "freed"}
  BY DEF Queued, SendSide, AnyStatus, Statuses, SentQueue
<1>4. \A t \in Tsns : t <= s.cum => a.sent[t] # "unsent"
  <2> SUFFICES ASSUME NEW t \in Tsns, t <= s.cum PROVE a.sent[t] # "unsent"
    OBVIOUS
  <2>1. t \in 1..Cum(got)
    BY <1>2
  <2>2. t \in got
    BY <2>1 DEF PeerHolds
  <2> QED
    BY <2>2 DEF PeerHolds
<1>5. \A t \in Tsns : a.sent[t] = "freed" <=> t <= a.last
  BY DEF Queued, Ordered
<1>6. \A t \in Tsns : t <= a.last => t <= s.cum
  BY <1>2
<1>7. \A t \in Tsns : t = s.cum + 1 => a.sent[t] # "nracked"
  <2> SUFFICES ASSUME NEW t \in Tsns, t = s.cum + 1, a.sent[t] = "nracked"
               PROVE  FALSE
    OBVIOUS
  <2>1. s.cum # t - 1
    BY DEF NrKept, Never
  <2> QED
    BY <1>2, <2>1
<1>7a. (\A t \in Tsns : t \notin SentQueue(a) => y.sent[t] = a.sent[t]) => Addressed(y)
  <2> SUFFICES ASSUME \A u \in Tsns : u \notin SentQueue(a) => y.sent[u] = a.sent[u],
                      NEW t \in SentQueue(y)
               PROVE  y.whoTo[t] \in Nets
    BY DEF Addressed
  <2>1. t \in Tsns /\ y.sent[t] \notin {"unsent", "freed"}
    BY DEF SentQueue
  <2>2. t \in SentQueue(a)
    BY <1>3, <2>1
  <2>3. y.whoTo[t] = a.whoTo[t]
    BY <2>1 DEF Handled
  <2> QED
    BY <2>2, <2>3 DEF Queued, Addressed
<1>8. CASE /\ ~a.saw_frags
           /\ Handled(a, y, s.cum, a.saw_frags)
           /\ \A t \in Tsns : y.sent[t] = IF t \in SentQueue(a) /\ t <= s.cum
                                          THEN "freed" ELSE a.sent[t]
  <2>1. Unmarked(y)
    BY <1>8 DEF Unmarked, Queued
  <2>2. \A t \in Tsns : y.sent[t] = "freed" <=> t <= y.last
    BY <1>1, <1>3, <1>4, <1>5, <1>6, <1>8
  <2>3. \A t \in Tsns : y.sent[t] = "unsent" <=> a.sent[t] = "unsent"
    BY <1>4, <1>8
  <2>4. Ordered(y)
    BY <2>2, <2>3 DEF Queued, Ordered
  <2>5. \A t \in Tsns : a.sent[t] # "acked"
    BY <1>8 DEF Queued, AckedSeen
  <2>6. \A t \in Tsns : y.sent[t] # "acked"
    BY <1>8, <2>5
  <2>7. HeadSent(y) /\ AckedSeen(y)
    BY <1>1, <1>7, <1>8, <2>6 DEF HeadSent, AckedSeen
  <2> QED
    BY <1>1, <1>7a, <1>8, <2>1, <2>3, <2>4, <2>7 DEF Queued
<1>9. CASE Handled(a, y, s.cum, s.seg # {}) /\ Sacked(a, y, s)
  <2>0. ASSUME NEW t \in Tsns
        PROVE  /\ t \notin SentQueue(a) => y.sent[t] = a.sent[t]
               /\ t \in SentQueue(a) /\ t <= s.cum => y.sent[t] = "freed"
               /\ t \in SentQueue(a) /\ ~(t <= s.cum) =>
                    /\ y.sent[t] \notin {"unsent", "freed", "marked"}
                    /\ y.sent[t] = "nracked" => a.sent[t] = "nracked" \/ t \in s.nr
                    /\ y.sent[t] = "acked" =>
                         \/ s.seg # {} /\ (t \in s.seg \/ (a.sent[t] = "acked" /\ ~Reaches(s, t)))
                         \/ s.seg = {} /\ ~a.saw_frags /\ a.sent[t] = "acked"
    BY <1>9 DEF Sacked
  <2>1. Unmarked(y)
    <3> SUFFICES ASSUME NEW t \in Tsns PROVE y.sent[t] # "marked"
      BY DEF Unmarked
    <3>1. a.sent[t] # "marked"
      BY DEF Queued, Unmarked
    <3> QED
      BY <2>0, <3>1
  <2>2. \A t \in Tsns : y.sent[t] = "freed" <=> t <= y.last
    <3> SUFFICES ASSUME NEW t \in Tsns PROVE y.sent[t] = "freed" <=> t <= s.cum
      BY <1>1
    <3> QED
      BY <1>3, <1>4, <1>5, <1>6, <2>0
  <2>3. \A t \in Tsns : y.sent[t] = "unsent" <=> a.sent[t] = "unsent"
    <3>1. \A t \in Tsns : t \in SentQueue(a) => a.sent[t] # "unsent"
      BY DEF SentQueue
    <3> QED
      BY <1>3, <2>0, <3>1
  <2>4. Ordered(y)
    BY <2>2, <2>3 DEF Queued, Ordered
  <2>5. ASSUME NEW t \in Tsns, y.sent[t] = "acked"
        PROVE  /\ s.seg # {} /\ t \in SentQueue(a)
               /\ t \in s.seg \/ (a.sent[t] = "acked" /\ ~Reaches(s, t))
    <3>1. t \in SentQueue(a)
      BY <1>3, <2>0, <2>5
    <3>2. ~(s.seg = {} /\ ~a.saw_frags /\ a.sent[t] = "acked")
      BY DEF Queued, AckedSeen
    <3> QED
      BY <2>0, <2>5, <3>1, <3>2
  <2>6. AckedSeen(y)
    <3>1. y.saw_frags = (s.seg # {})
      BY <1>9 DEF Handled
    <3> QED
      BY <2>5, <3>1 DEF AckedSeen
  <2>7. HeadSent(y)
    <3> SUFFICES ASSUME NEW t \in Tsns, t = s.cum + 1
                 PROVE  y.sent[t] # "acked" /\ y.sent[t] # "nracked"
      BY <1>1 DEF HeadSent
    <3>1. t \notin s.seg /\ t \notin s.nr /\ ~(t <= s.cum)
      BY <1>1, <1>2
    <3>2. s.seg # {} => Reaches(s, t)
      BY <1>1, SackReaches
    <3>3. y.sent[t] # "acked"
      BY <2>5, <3>1, <3>2
    <3>4. a.sent[t] # "nracked"
      BY <1>7
    <3>5. y.sent[t] # "nracked"
      BY <2>0, <3>1, <3>4
    <3> QED
      BY <3>3, <3>5
  <2>8. \A t \in Tsns : y.sent[t] = "nracked" => a.sent[t] = "nracked" \/ t \in s.nr
    BY <2>0
  <2> QED
    BY <1>1, <1>7a, <2>0, <2>1, <2>3, <2>4, <2>6, <2>7, <2>8 DEF Queued
<1> QED
  BY <1>8, <1>9

-----------------------------------------------------------------------------
(***************************************************************************)
(* Every action keeps the invariant of the sent queue.                     *)
(***************************************************************************)

\* A step of the sender: SACKs may leave the network, chunks that were sent
\* may enter it, and only what a SACK reported becomes non-renegable.
SenderStep ==
    /\ UNCHANGED <<got, kept>>
    /\ sacks' \subseteq sacks
    /\ \A t \in wire' : t \in wire \/ (t \in Tsns /\ a'.sent[t] # "unsent")
    /\ a'.last <= Cum(got)
    /\ \A t \in Tsns : a'.sent[t] = "unsent" => a.sent[t] = "unsent"
    /\ \A t \in Tsns : a'.sent[t] = "nracked" =>
         a.sent[t] = "nracked" \/ \E s \in sacks : t \in s.nr

LEMMA SenderStepKeeps ==
  ASSUME QueueInv, Queued(a'), SenderStep
  PROVE  QueueInv'
<1>1. PeerHolds'
  BY DEF QueueInv, PeerHolds, SenderStep
<1>2. \A t : Never(t) => Never(t)'
  BY DEF Never, SenderStep
<1>3. SacksSound'
  BY <1>2 DEF QueueInv, SacksSound, SackSound, SenderStep
<1>4. NrKept'
  <2> SUFFICES ASSUME NEW t \in Tsns, a'.sent[t] = "nracked"
               PROVE  t \in kept /\ Never(t)
    BY <1>2 DEF NrKept, SenderStep
  <2>1. CASE a.sent[t] = "nracked"
    BY <2>1 DEF QueueInv, NrKept
  <2>2. ASSUME NEW s \in sacks, t \in s.nr PROVE t \in kept /\ Never(t)
    BY <2>2 DEF QueueInv, SacksSound, SackSound
  <2> QED
    BY <2>1, <2>2 DEF SenderStep
<1>5. Queued(a)'
  OBVIOUS
<1> QED
  BY <1>1, <1>3, <1>4, <1>5 DEF QueueInv

LEMMA ShuffledStep ==
  ASSUME QueueInv, Shuffled(a, a'), UNCHANGED <<got, kept>>, sacks' \subseteq sacks,
         \A t \in wire' : t \in wire \/ t \in SentQueue(a)
  PROVE  QueueInv'
<1>1. Queued(a')
  BY ShuffledQueued DEF QueueInv
<1>2. SenderStep
  <2>1. a'.last = a.last /\ a.last <= Cum(got)
    BY DEF Shuffled, QueueInv, PeerHolds
  <2>2. \A t \in Tsns : /\ a'.sent[t] = "unsent" => a.sent[t] = "unsent"
                        /\ a'.sent[t] = "nracked" => a.sent[t] = "nracked"
    BY DEF Shuffled
  <2>3. \A t \in wire' : t \in wire \/ (t \in Tsns /\ a'.sent[t] # "unsent")
    BY <2>2 DEF SentQueue
  <2> QED
    BY <2>1, <2>2, <2>3 DEF SenderStep
<1> QED
  BY <1>1, <1>2, SenderStepKeeps

LEMMA NothingQueuedSame ==
  ASSUME NEW x \in SendSide
  PROVE  LET y == NothingQueued(x) IN
         SameQueue(x, y) /\ (TimerCount(x) => TimerCount(y))
<1> DEFINE u == TimerStop(x, Nets)
           v == NothingInFlight(u)
           y == NothingQueued(x)
<1>1. Nets \in SUBSET Nets /\ 0 \in Nat
  OBVIOUS
<1>2. Timed(x, u, x.timer \ Nets)
  BY <1>1, StopTimed
<1>3. y = [v EXCEPT !.retran = 0]
  BY DEF NothingQueued
<1> HIDE DEF u, y
<1>4. SameQueue(x, u) /\ u \in SendSide
  BY <1>2 DEF Timed, SameQueue
<1>5. Same(u, v) /\ v \in SendSide
  BY <1>4, NothingInFlightSame DEF Same, SameQueue
<1> HIDE DEF v
<1>6. Same(v, y)
  BY <1>1, <1>3, <1>5, RetranSame
<1>7. SameQueue(x, y) /\ (TimerCount(x) => TimerCount(y))
  BY <1>2, <1>4, <1>5, <1>6 DEF Same, SameQueue, SameTimers, Timed, TimerCount
<1> QED
  BY <1>7 DEF y

LEMMA SackKeepsQueue ==
  ASSUME QueueInv, NEW s \in sacks, NEW grew \in BOOLEAN, Sack(s, grew)
  PROVE  QueueInv'
<1>1. UNCHANGED <<wire, got, kept>> /\ sacks' \subseteq sacks
  BY DEF Sack, peer
<1>2. a \in SendSide /\ Unmarked(a) /\ s \in SackType /\ SackSound(s)
  BY DEF QueueInv, Queued, SacksSound, SackSound
<1>3. ASSUME SameQueue(a, a') PROVE QueueInv'
  BY <1>1, <1>3, SameShuffled, ShuffledStep
<1>4. ASSUME NEW y, s.cum >= a.last, Shuffled(y, a'),
             \/ /\ ~a.saw_frags
                /\ Handled(a, y, s.cum, a.saw_frags)
                /\ \A t \in Tsns : y.sent[t] = IF t \in SentQueue(a) /\ t <= s.cum
                                               THEN "freed" ELSE a.sent[t]
             \/ Handled(a, y, s.cum, s.seg # {}) /\ Sacked(a, y, s)
      PROVE  QueueInv'
  <2>1. /\ Queued(y)
        /\ \A t \in Tsns : y.sent[t] = "unsent" => a.sent[t] = "unsent"
        /\ \A t \in Tsns : y.sent[t] = "nracked" => a.sent[t] = "nracked" \/ t \in s.nr
    BY <1>4, SackQueued DEF QueueInv
  <2>2. Queued(a')
    BY <1>4, <2>1, ShuffledQueued
  <2>3. a'.last = s.cum /\ s.cum <= Cum(got)
    BY <1>2, <1>4 DEF Handled, Shuffled, SackSound
  <2>4. \A t \in Tsns : /\ a'.sent[t] = "unsent" => a.sent[t] = "unsent"
                        /\ a'.sent[t] = "nracked" => a.sent[t] = "nracked" \/ t \in s.nr
    BY <1>4, <2>1 DEF Shuffled
  <2>5. SenderStep
    BY <1>1, <2>3, <2>4 DEF SenderStep
  <2> QED
    BY <2>2, <2>5, SenderStepKeeps
<1>5. CASE a' = a
  BY <1>2, <1>3, <1>5 DEF SameQueue
<1>6. CASE IsExpress(a, s) /\ s.cum > a.last /\ a' = ExpressAck(a, s.cum)
  <2>1. /\ Handled(a, a', s.cum, a.saw_frags)
        /\ \A t \in Tsns : a'.sent[t] = IF t \in SentQueue(a) /\ t <= s.cum
                                        THEN "freed" ELSE a.sent[t]
    BY <1>2, <1>6, ExpressAckSent DEF SackType
  <2>2. ~a.saw_frags /\ s.cum >= a.last
    BY <1>6 DEF IsExpress
  <2>3. Shuffled(a', a')
    BY <2>1 DEF Shuffled, Handled
  <2> QED
    BY <1>4, <2>1, <2>2, <2>3
<1>7. CASE a' = NothingQueued(a)
  BY <1>2, <1>3, <1>7, NothingQueuedSame
<1>8. CASE s.cum >= a.last /\ \E S \in SUBSET Strikable(a, SlowAck(a, s), s) :
                                a' = Strike(SlowAck(a, s), S)
  <2> DEFINE y == SlowAck(a, s)
  <2>1. Handled(a, y, s.cum, s.seg # {}) /\ Sacked(a, y, s)
    BY <1>2, SlowAckSent
  <2>2. PICK S \in SUBSET Strikable(a, y, s) : a' = Strike(y, S)
    BY <1>8
  <2> HIDE DEF y
  <2>3. S \in SUBSET InFlight(y) /\ y \in SendSide
    BY <2>1 DEF Strikable, Handled
  <2>4. Shuffled(y, a')
    BY <2>2, <2>3, StrikeShuffled
  <2> QED
    BY <1>4, <1>8, <2>1, <2>4
<1> QED
  BY <1>5, <1>6, <1>7, <1>8 DEF Sack

\* What a SACK or a SHUTDOWN reports is acked, and what was acked before.
AckedStep ==
    \A t \in Tsns :
        /\ a'.sent[t] = "acked" =>
             a.sent[t] = "acked" \/ \E s \in sacks : t \in s.seg
        /\ a'.sent[t] = "nracked" =>
             a.sent[t] = "nracked" \/ \E s \in sacks : t \in s.nr

LEMMA ShuffledAcks ==
  ASSUME Shuffled(a, a')
  PROVE  AckedStep
  BY DEF Shuffled, AckedStep

LEMMA SackAcks ==
  ASSUME QueueInv, NEW s \in sacks, NEW grew \in BOOLEAN, Sack(s, grew)
  PROVE  AckedStep
<1>1. a \in SendSide /\ Unmarked(a) /\ s \in SackType
  BY DEF QueueInv, Queued, SacksSound, SackSound
<1>2. CASE a' = a
  BY <1>2 DEF AckedStep
<1>3. CASE a' = ExpressAck(a, s.cum)
  <2>1. \A t \in Tsns : a'.sent[t] \in {"freed", a.sent[t]}
    BY <1>1, <1>3, ExpressAckSent DEF SackType
  <2> QED
    BY <2>1 DEF AckedStep
<1>4. CASE a' = NothingQueued(a)
  <2>1. SameQueue(a, a')
    BY <1>1, <1>4, NothingQueuedSame
  <2> QED
    BY <2>1, SameShuffled, ShuffledAcks
<1>5. CASE \E S \in SUBSET Strikable(a, SlowAck(a, s), s) : a' = Strike(SlowAck(a, s), S)
  <2> DEFINE y == SlowAck(a, s)
  <2>1. Handled(a, y, s.cum, s.seg # {}) /\ Sacked(a, y, s)
    BY <1>1, SlowAckSent
  <2>2. PICK S \in SUBSET Strikable(a, y, s) : a' = Strike(y, S)
    BY <1>5
  <2> HIDE DEF y
  <2>3. S \in SUBSET InFlight(y) /\ y \in SendSide
    BY <2>1 DEF Strikable, Handled
  <2>4. Shuffled(y, a')
    BY <2>2, <2>3, StrikeShuffled
  <2>5. \A t \in Tsns : /\ a'.sent[t] = "acked" => y.sent[t] = "acked"
                        /\ a'.sent[t] = "nracked" => y.sent[t] = "nracked"
    BY <2>4 DEF Shuffled
  <2>6. \A t \in Tsns : /\ y.sent[t] = "acked" => a.sent[t] = "acked" \/ t \in s.seg
                        /\ y.sent[t] = "nracked" => a.sent[t] = "nracked" \/ t \in s.nr
    BY <2>1 DEF Sacked
  <2> QED
    BY <2>5, <2>6 DEF AckedStep
<1> QED
  BY <1>2, <1>3, <1>4, <1>5 DEF Sack

\* A SHUTDOWN frees what its cumulative TSN covers, and the chunk that it leaves
\* at the head is open.
LEMMA ShutdownKeepsQueue ==
  ASSUME QueueInv, ShutInv, NEW c \in shuts, NEW grew \in BOOLEAN, Shutdown(c, grew)
  PROVE  QueueInv' /\ AckedStep
<1>1. UNCHANGED <<wire, sacks, got, kept>>
  BY DEF Shutdown
<1>2. Queued(a) /\ a \in SendSide /\ PeerHolds /\ ShutSound(c)
  BY DEF QueueInv, Queued, ShutInv, ShutsSound
<1>3. CASE a' = a
  <2>1. SameQueue(a, a')
    BY <1>2, <1>3 DEF SameQueue
  <2> QED
    BY <1>1, <2>1, SameShuffled, ShuffledStep, ShuffledAcks
<1>4. CASE c > a.last /\ a' = ExpressAck(a, c)
  <2>1. c \in 0..MaxTsn /\ c <= Cum(got) /\ a.last \in 0..MaxTsn /\ Cum(got) \in 0..MaxTsn
    BY <1>2, CumType DEF ShutSound, SendSide, PeerHolds
  <2>2. /\ Handled(a, a', c, a.saw_frags)
        /\ \A t \in Tsns : a'.sent[t] = IF t \in SentQueue(a) /\ t <= c
                                        THEN "freed" ELSE a.sent[t]
    BY <1>2, <1>4, <2>1, ExpressAckSent
  <2>3. a' \in SendSide /\ a'.last = c /\ a'.saw_frags = a.saw_frags
    BY <2>2 DEF Handled
  <2>4. \A t \in Tsns : t \in SentQueue(a) \/ a.sent[t] \in {"unsent", "freed"}
    BY <1>2 DEF SendSide, AnyStatus, Statuses, SentQueue
  <2>5. ASSUME NEW t \in Tsns, t <= c PROVE a.sent[t] # "unsent"
    <3>1. t \in 1..Cum(got)
      BY <2>1, <2>5, SenderAssumption DEF Tsns
    <3> QED
      BY <1>2, <3>1 DEF PeerHolds
  <2>6. ASSUME NEW t \in Tsns PROVE a'.sent[t] = "freed" <=> t <= c
    <3>1. a.sent[t] = "freed" => t <= c
      BY <1>2, <1>4, <2>1, SenderAssumption DEF Queued, Ordered, Tsns
    <3> QED
      BY <2>2, <2>4, <2>5, <3>1
  <2>7. \A t \in Tsns : a'.sent[t] = "unsent" <=> a.sent[t] = "unsent"
    BY <2>2 DEF SentQueue
  <2>8. Ordered(a')
    BY <1>2, <2>3, <2>6, <2>7 DEF Queued, Ordered
  <2>9. \A t \in Tsns : a'.sent[t] \in {"freed", a.sent[t]}
    BY <2>2
  <2>10. HeadSent(a')
    BY <1>2, <2>3, <2>9 DEF HeadSent, ShutSound
  <2>11. AckedSeen(a') /\ Unmarked(a')
    BY <1>2, <2>3, <2>9 DEF Queued, AckedSeen, Unmarked
  <2>12. Addressed(a')
    <3> SUFFICES ASSUME NEW t \in SentQueue(a') PROVE a'.whoTo[t] \in Nets
      BY DEF Addressed
    <3>1. t \in Tsns /\ a'.sent[t] # "freed"
      BY DEF SentQueue
    <3>2. a'.whoTo[t] = a.whoTo[t] /\ a'.sent[t] = a.sent[t]
      BY <2>2, <3>1 DEF Handled
    <3>3. t \in SentQueue(a)
      BY <3>1, <3>2 DEF SentQueue
    <3> QED
      BY <1>2, <3>2, <3>3 DEF Queued, Addressed
  <2>13. Queued(a')
    BY <2>3, <2>8, <2>10, <2>11, <2>12 DEF Queued
  <2>14. SenderStep
    BY <1>1, <2>1, <2>3, <2>7, <2>9 DEF SenderStep
  <2>15. AckedStep
    BY <2>9 DEF AckedStep
  <2> QED
    BY <2>13, <2>14, <2>15, SenderStepKeeps
<1> QED
  BY <1>3, <1>4 DEF Shutdown

\* What a destination of the loop of the SACK handlers does.
LEMMA ServiceShuffled ==
  ASSUME a \in SendSide, NEW n \in Nets, Service(n)
  PROVE  Shuffled(a, a')
<1> DEFINE recover == ctx.recovery /\ n \in a.window_probe
           x == IF recover THEN ProbeRecovery(a) ELSE a
           start == IF ctx.express THEN OsTimerStart(x, n) ELSE TimerStart(x, n)
           assured == IF n \in x.timer THEN x ELSE start
<1>1. Shuffled(a, a)
  BY DEF Shuffled
<1>2. Shuffled(a, x) /\ x \in SendSide
  BY <1>1, ProbeRecoveryShuffled DEF Shuffled
<1>3. \/ a' = [start EXCEPT !.window_probe = @ \ {n}]
      \/ a' = [assured EXCEPT !.window_probe = @ \ {n}]
      \/ a' = assured \/ a' = TimerStop(x, {n}) \/ a' = x
  BY DEF Service
<1> HIDE DEF x
<1>4. SameQueue(x, start) /\ SameQueue(x, TimerStop(x, {n})) /\ SameQueue(x, x)
  <2>1. {n} \in SUBSET Nets
    OBVIOUS
  <2>2. Timed(x, TimerStop(x, {n}), x.timer \ {n})
    BY <1>2, <2>1, StopTimed
  <2> QED
    BY <1>2, <2>2, StartTimed DEF Timed, SameQueue
<1>5. SameQueue(x, assured)
  BY <1>4
<1> HIDE DEF start, assured
<1>6. ASSUME NEW y, SameQueue(x, y) PROVE SameQueue(x, [y EXCEPT !.window_probe = @ \ {n}])
  <2> DEFINE W == y.window_probe \ {n}
  <2>1. y \in SendSide /\ W \in SUBSET Nets /\ {} \in SUBSET Tsns
    BY <1>6 DEF SameQueue, SendSide
  <2> HIDE DEF W
  <2>2. Same(y, [y EXCEPT !.window_probe = W])
    BY <2>1, ProbeSame
  <2> QED
    BY <1>6, <2>2 DEF Same, SameQueue, W
<1>7. SameQueue(x, a')
  BY <1>3, <1>4, <1>5, <1>6
<1> QED
  BY <1>2, <1>7, SameShuffled, ShuffledTrans

LEMMA ServiceDoneSame ==
  ASSUME a \in SendSide, ServiceDone
  PROVE  Same(a, a')
<1>1. CASE a' = a
  BY <1>1 DEF Same, SameQueue, SameTimers
<1>2. CASE a' = [Recount(a) EXCEPT !.retran = Cardinality(Resend(a))]
  <2> DEFINE x == Recount(a)
             k == Cardinality(Resend(a))
  <2>1. Same(a, x) /\ x \in SendSide
    BY RecountIsSame DEF Same, SameQueue
  <2>2. k \in Nat
    BY QueueParts, CardNat
  <2> HIDE DEF x, k
  <2>3. Same(x, [x EXCEPT !.retran = k])
    BY <2>1, <2>2, RetranSame
  <2>4. a' = [x EXCEPT !.retran = k]
    BY <1>2 DEF x, k
  <2> QED
    BY <2>1, <2>3, <2>4, SameTrans
<1> QED
  BY <1>1, <1>2 DEF ServiceDone

LEMMA TransmitKeepsQueue ==
  ASSUME QueueInv, NEW t \in SendQueue(a), NEW n \in Nets, NEW probe \in BOOLEAN,
         Transmit(t, n, probe)
  PROVE  /\ QueueInv' /\ n \in a'.timer /\ (TimerCount(a) => TimerCount(a'))
         /\ a'.sent[t] = "sent" /\ t \in Tsns /\ AckedStep
<1>1. a \in SendSide /\ t \in Tsns /\ a.sent[t] = "unsent"
  BY SenderAssumption DEF SendQueue, Tsns, QueueInv, Queued, SendSide
<1>2. a' = WentOut(a, t, n, probe)
  BY DEF Transmit, WentOut, Readdressed
<1>3. SentTo(a, a', t, n)
  BY <1>1, <1>2, FirstSendMarks
<1>4. /\ a' \in SendSide /\ a'.last = a.last /\ a'.saw_frags = a.saw_frags
      /\ \A u \in Tsns : a'.sent[u] = IF u = t THEN "sent" ELSE a.sent[u]
      /\ \A u \in Tsns : a'.whoTo[u] = IF u = t THEN n ELSE a.whoTo[u]
      /\ n \in a'.timer /\ (TimerCount(a) => TimerCount(a'))
  BY <1>3 DEF SentTo
<1>5. Queued(a')
  <2>1. Queued(a) /\ IsFirst(t, SendQueue(a))
    BY DEF QueueInv, Transmit
  <2> QED
    BY <1>4, <2>1, FirstSendQueued
<1>6. UNCHANGED <<got, kept, sacks>> /\ wire' = wire \cup {t}
  BY DEF Transmit, peer
<1>7. SenderStep
  <2>1. a.last <= Cum(got)
    BY DEF QueueInv, PeerHolds
  <2> QED
    BY <1>1, <1>4, <1>6, <2>1 DEF SenderStep
<1>8. AckedStep
  BY <1>4 DEF AckedStep
<1> QED
  BY <1>1, <1>4, <1>5, <1>7, <1>8, SenderStepKeeps

LEMMA RetransmitShuffles ==
  ASSUME a \in SendSide, NEW n \in Nets, NEW probe \in BOOLEAN,
         NEW S \in SUBSET Resend(a), Retransmit(S, n, probe)
  PROVE  Shuffled(a, a') /\ n \in a'.timer /\ (TimerCount(a) => TimerCount(a'))
<1>1. a' = Resent(IF probe THEN Probed(a, S, n) ELSE a, S, n)
  BY DEF Retransmit
<1> QED
  BY <1>1, ResentShuffled

\* A failed send leaves the queue alone and starts a timer.
LEMMA FailureTimed ==
  ASSUME a \in SendSide, NEW n \in Nets, NEW probe \in BOOLEAN,
         \/ \E S \in SUBSET Resend(a), v \in Nets : RetransmitFails(S, n, probe, v)
         \/ TransmitFails(n, probe)
  PROVE  SameQueue(a, a') /\ a'.timer # {} /\ (TimerCount(a) => TimerCount(a'))
<1>1. ASSUME NEW x, Same(a, x), NEW v \in Nets,
             a' = TimerStart(x, v) \/ a' = TimerValidation(x, v)
      PROVE  SameQueue(a, a') /\ a'.timer # {} /\ (TimerCount(a) => TimerCount(a'))
  <2>1. x \in SendSide
    BY <1>1 DEF Same, SameQueue
  <2>2. Timed(x, a', a'.timer) /\ a'.timer # {}
    <3>1. CASE a' = TimerStart(x, v)
      BY <2>1, <3>1, StartTimed DEF Timed
    <3>2. CASE a' = TimerValidation(x, v)
      BY <2>1, <3>2, ValidationTimed
    <3> QED
      BY <1>1, <3>1, <3>2
  <2> QED
    BY <1>1, <2>2 DEF Timed, Same, SameQueue, SameTimers, TimerCount
<1>2. ASSUME NEW S \in SUBSET Resend(a), NEW v \in Nets, RetransmitFails(S, n, probe, v)
      PROVE  SameQueue(a, a') /\ a'.timer # {} /\ (TimerCount(a) => TimerCount(a'))
  <2> DEFINE x == IF probe THEN Probed(a, S, n) ELSE a
  <2>1. S \in SUBSET Tsns
    BY QueueParts
  <2>2. Same(a, x)
    BY <2>1, MayProbeSame
  <2>3. a' = TimerStart(x, n) \/ a' = TimerValidation(x, v)
    BY <1>2 DEF RetransmitFails
  <2> HIDE DEF x
  <2> QED
    BY <1>1, <2>2, <2>3
<1>3. ASSUME TransmitFails(n, probe)
      PROVE  SameQueue(a, a') /\ a'.timer # {} /\ (TimerCount(a) => TimerCount(a'))
  <2> DEFINE W == a.window_probe \cup {n}
             x == IF probe THEN [a EXCEPT !.window_probe = W] ELSE a
  <2>1. W \in SUBSET Nets /\ {} \in SUBSET Tsns
    BY DEF SendSide
  <2>2. a' = TimerStart(x, n)
    BY <1>3 DEF TransmitFails
  <2> HIDE DEF W
  <2>3. Same(a, a)
    BY DEF Same, SameQueue, SameTimers
  <2>4. Same(a, x)
    BY <2>1, <2>3, ProbeSame
  <2> HIDE DEF x
  <2> QED
    BY <1>1, <2>2, <2>4
<1> QED
  BY <1>2, <1>3

LEMMA OutputsKeepQueue ==
  ASSUME QueueInv, Outputs
  PROVE  QueueInv' /\ AckedStep
<1> PICK n \in Nets, probe \in BOOLEAN :
        \/ \E S \in SUBSET Resend(a) : Retransmit(S, n, probe)
        \/ \E S \in SUBSET Resend(a), v \in Nets : RetransmitFails(S, n, probe, v)
        \/ \E t \in SendQueue(a) : Transmit(t, n, probe)
        \/ TransmitFails(n, probe)
        \/ StopOutput(n)
  BY DEF Outputs
<1>0. a \in SendSide
  BY DEF QueueInv, Queued
<1>1. ASSUME NEW S \in SUBSET Resend(a), Retransmit(S, n, probe) PROVE QueueInv' /\ AckedStep
  <2>1. UNCHANGED <<got, kept, sacks>> /\ wire' = wire \cup S
    BY <1>1 DEF Retransmit, peer
  <2>2. S \subseteq SentQueue(a)
    BY QueueParts
  <2>3. Shuffled(a, a')
    BY <1>0, <1>1, RetransmitShuffles
  <2> QED
    BY <2>1, <2>2, <2>3, ShuffledStep, ShuffledAcks
<1>2. ASSUME \/ \E S \in SUBSET Resend(a), v \in Nets : RetransmitFails(S, n, probe, v)
             \/ TransmitFails(n, probe)
      PROVE  QueueInv' /\ AckedStep
  <2>1. UNCHANGED <<got, kept, sacks, wire>>
    BY <1>2 DEF RetransmitFails, TransmitFails, peer
  <2>2. Shuffled(a, a')
    BY <1>0, <1>2, FailureTimed, SameShuffled
  <2> QED
    BY <2>1, <2>2, ShuffledStep, ShuffledAcks
<1>3. ASSUME NEW t \in SendQueue(a), Transmit(t, n, probe) PROVE QueueInv' /\ AckedStep
  BY <1>3, TransmitKeepsQueue
<1>4. ASSUME StopOutput(n) PROVE QueueInv' /\ AckedStep
  <2>1. UNCHANGED <<got, kept, sacks, wire>> /\ (a' = a \/ a' = TimerValidation(a, n))
    BY <1>4 DEF StopOutput, peer
  <2>2. SameQueue(a, a')
    BY <1>0, <2>1, ValidationTimed DEF SameQueue, Timed
  <2> QED
    BY <2>1, <2>2, SameShuffled, ShuffledStep, ShuffledAcks
<1> QED
  BY <1>1, <1>2, <1>3, <1>4

LEMMA ReturnTimed ==
  ASSUME Queued(a), Return
  PROVE  /\ SameQueue(a, a') /\ (TimerCount(a) => TimerCount(a'))
         /\ a'.timer # {} \/ a' = a
         /\ ctx.t3 # "none" /\ a.timers_up = 0 /\ SentQueue(a) # {} => a'.timer # {}
<1> DEFINE t == CHOOSE u \in Tsns : IsFirst(u, SentQueue(a))
<1>0. a \in SendSide
  BY DEF Queued
<1> DEFINE safeguard == ctx.t3 # "none" /\ a.timers_up = 0 /\ SentQueue(a) # {}
<1>1. CASE ~safeguard /\ a' = a
  BY <1>0, <1>1 DEF SameQueue
<1>2. CASE SentQueue(a) # {} /\ a' = TimerStart(a, a.whoTo[t])
  <2>1. t \in SentQueue(a)
    BY <1>2, QueueParts, FirstExists
  <2>2. a.whoTo[t] \in Nets
    BY <2>1 DEF Queued, Addressed
  <2> HIDE DEF t
  <2>3. Timed(a, a', a.timer \cup {a.whoTo[t]})
    BY <1>0, <1>2, <2>2, StartTimed
  <2> QED
    BY <2>3 DEF Timed
<1> QED
  BY <1>1, <1>2 DEF Return

LEMMA UserSendQueue ==
  ASSUME QueueInv, UserSend
  PROVE  QueueInv' /\ SameTimers(a, a') /\ a'.sent = a.sent /\ a' \in SendSide
<1> DEFINE k == a.queued + 1
<1>1. a \in SendSide /\ k \in 0..MaxTsn /\ a' = [a EXCEPT !.queued = k]
  BY SenderAssumption DEF UserSend, QueueInv, Queued, SendSide
<1>2. UNCHANGED <<got, kept, sacks, wire>>
  BY DEF UserSend, peer
<1> HIDE DEF k
<1>3. /\ a' \in SendSide /\ a'.sent = a.sent /\ a'.whoTo = a.whoTo /\ a'.last = a.last
      /\ a'.saw_frags = a.saw_frags /\ SameTimers(a, a')
  BY <1>1 DEF SendSide, SameTimers
<1>4. Queued(a')
  <2>1. Queued(a)
    BY DEF QueueInv
  <2> QED
    BY <1>3, <2>1 DEF Queued, Unmarked, Addressed, SentQueue, Ordered, HeadSent, AckedSeen
<1>5. SenderStep
  <2>1. a.last <= Cum(got)
    BY DEF QueueInv, PeerHolds
  <2> QED
    BY <1>2, <1>3, <2>1 DEF SenderStep
<1> QED
  BY <1>3, <1>4, <1>5, SenderStepKeeps

LEMMA ExpireShuffles ==
  ASSUME a \in SendSide, NEW n \in Nets, Expire(n)
  PROVE  /\ Shuffled(a, a') /\ (TimerCount(a) => TimerCount(a'))
         /\ UNCHANGED <<wire, sacks, got, kept>> /\ at' = "output" /\ ctx'.t3 = n
<1> PICK M \in SUBSET Tsns, alt \in Nets : T3Timeout(n, M, alt)
  BY DEF Expire
<1> DEFINE x == TimerStop(a, {n})
<1>1. {n} \in SUBSET Nets /\ Cardinality({n}) = 1
  BY FS_Singleton
<1>2. a' = MarkForResend(x, M, n, alt) /\ M \subseteq InFlight(a) \cup Resend(a)
  BY <1>1 DEF T3Timeout, Of, TimerStop
<1>3. Timed(a, x, a.timer \ {n})
  BY <1>1, StopTimed
<1> HIDE DEF x
<1>4. SameQueue(a, x) /\ x \in SendSide /\ (TimerCount(a) => TimerCount(x))
      /\ InFlight(x) = InFlight(a) /\ Resend(x) = Resend(a)
  BY <1>3 DEF Timed, SameQueue, InFlight, Resend
<1>5. Shuffled(x, a') /\ SameTimers(x, a')
  BY <1>2, <1>4, MarkForResendShuffled
<1>6. Shuffled(a, a')
  BY <1>4, <1>5, SameShuffled, ShuffledTrans
<1>7. UNCHANGED <<wire, sacks, got, kept>> /\ at' = "output" /\ ctx'.t3 = n
  BY DEF T3Timeout, peer, GoOutput, NoCtx
<1> QED
  BY <1>4, <1>5, <1>6, <1>7 DEF SameTimers, TimerCount

-----------------------------------------------------------------------------
(* The peer. *)

LEMMA CumGrows ==
  ASSUME NEW S \in SUBSET Tsns, NEW R \in SUBSET S
  PROVE  Cum(R) <= Cum(S)
<1>1. R \in SUBSET Tsns
  OBVIOUS
<1>2. /\ Cum(R) \in 0..MaxTsn /\ 1..Cum(R) \subseteq S
      /\ Cum(S) \in 0..MaxTsn /\ Cum(S) + 1 \notin S
  BY <1>1, CumType
<1> QED
  BY <1>2, SenderAssumption

LEMMA CumIs ==
  ASSUME NEW S \in SUBSET Tsns, NEW k \in 0..MaxTsn, 1..k \subseteq S, k + 1 \notin S
  PROVE  Cum(S) = k
<1>1. Cum(S) \in 0..MaxTsn /\ 1..Cum(S) \subseteq S /\ Cum(S) + 1 \notin S
  BY CumType
<1> QED
  BY <1>1, SenderAssumption

\* The peer receives more, or drops what it may drop.
LEMMA PeerStepKeeps ==
  ASSUME QueueInv, UNCHANGED <<a, sacks>>, kept \subseteq kept',
         PeerHolds', Cum(got) <= Cum(got')
  PROVE  QueueInv'
<1>1. Cum(got) \in 0..MaxTsn /\ Cum(got') \in 0..MaxTsn
  BY CumType DEF QueueInv, PeerHolds
<1>2. \A t : Never(t)' <=> Never(t)
  BY DEF Never
<1>3. SacksSound'
  <2> SUFFICES ASSUME NEW s \in sacks PROVE SackSound(s)'
    BY DEF SacksSound
  <2>1. SackSound(s) /\ s.cum \in 0..MaxTsn
    BY DEF QueueInv, SacksSound, SackSound, SackType
  <2>2. s.cum <= Cum(got')
    BY <1>1, <2>1, SenderAssumption DEF SackSound
  <2> QED
    BY <1>2, <2>1, <2>2 DEF SackSound
<1>4. NrKept'
  BY <1>2 DEF QueueInv, NrKept
<1> QED
  BY <1>3, <1>4 DEF QueueInv

LEMMA ArriveKeepsQueue ==
  ASSUME QueueInv, NEW t \in wire, Arrive(t)
  PROVE  QueueInv'
<1>1. /\ got \in SUBSET Tsns /\ got' \in SUBSET Tsns /\ got \in SUBSET got'
      /\ wire' \subseteq wire /\ UNCHANGED <<a, sacks>>
  BY DEF QueueInv, PeerHolds, Arrive, sender
<1>2. PICK D \in SUBSET got' : kept' = kept \cup 1..Cum(got') \cup D
  BY DEF Arrive
<1>3. 1..Cum(got') \subseteq got' /\ Cum(got) <= Cum(got')
  BY <1>1, CumType, CumGrows
<1>4. kept \subseteq kept' /\ kept' \subseteq got' /\ 1..Cum(got') \subseteq kept'
  BY <1>1, <1>2, <1>3 DEF QueueInv, PeerHolds
<1>5. a'.last <= Cum(got')
  <2>1. a.last <= Cum(got) /\ a.last \in 0..MaxTsn
    BY DEF QueueInv, PeerHolds, Queued, SendSide
  <2>2. Cum(got) \in 0..MaxTsn /\ Cum(got') \in 0..MaxTsn
    BY <1>1, CumType
  <2> QED
    BY <1>1, <1>3, <2>1, <2>2, SenderAssumption
<1>6. \A u \in wire' \cup got' : a'.sent[u] # "unsent"
  BY <1>1 DEF QueueInv, PeerHolds, Arrive
<1>7. PeerHolds'
  BY <1>1, <1>4, <1>5, <1>6 DEF QueueInv, PeerHolds
<1> QED
  BY <1>1, <1>3, <1>4, <1>7, PeerStepKeeps

LEMMA RenegeKeepsQueue ==
  ASSUME QueueInv, Renege
  PROVE  QueueInv'
<1>1. PICK D \in SUBSET {t \in got \ kept : t > Cum(got) + 1} : got' = got \ D
  BY DEF Renege
<1>2. UNCHANGED <<a, sacks, kept, wire>>
  BY DEF Renege, sender
<1>3. /\ got \in SUBSET Tsns /\ got' \in SUBSET Tsns /\ kept \subseteq got
      /\ 1..Cum(got) \subseteq kept
  BY <1>1 DEF QueueInv, PeerHolds
<1>4. Cum(got') = Cum(got)
  <2>1. Cum(got) \in 0..MaxTsn /\ Cum(got) + 1 \notin got'
    BY <1>1, <1>3, CumType
  <2>2. 1..Cum(got) \subseteq got'
    BY <1>1, <1>3
  <2> QED
    BY <1>3, <2>1, <2>2, CumIs
<1>5. kept \subseteq got'
  BY <1>1, <1>3
<1>6. PeerHolds'
  BY <1>1, <1>2, <1>3, <1>4, <1>5 DEF QueueInv, PeerHolds
<1>7. Cum(got) <= Cum(got')
  BY <1>3, <1>4, CumType
<1> QED
  BY <1>2, <1>6, <1>7, PeerStepKeeps

LEMMA PeerSackKeepsQueue ==
  ASSUME QueueInv, PeerSack
  PROVE  QueueInv'
<1> DEFINE c == Cum(got)
           new == SackOf(got, kept)
<1>1. UNCHANGED <<a, got, kept, wire>> /\ sacks' = sacks \cup {new}
  BY DEF PeerSack, sender
<1>2. got \in SUBSET Tsns /\ kept \subseteq got
  BY DEF QueueInv, PeerHolds
<1>3. c \in 0..MaxTsn /\ c + 1 \notin got
  BY <1>2, CumType
<1>4. /\ new \in SackType /\ new.cum = c /\ new.nr \subseteq kept
      /\ \A t \in new.seg \cup new.nr : t \in got /\ t > c
  BY <1>2, <1>3 DEF SackOf, SackType
<1>5. \A t \in got : t \in Int /\ t # c + 1
  BY <1>2, <1>3 DEF Tsns
<1> HIDE DEF c, new
<1>6. \A t \in new.seg \cup new.nr : t \in got /\ t > c + 1
  BY <1>3, <1>4, <1>5
<1>7. \A t \in kept : Never(t) => Never(t)'
  <2> SUFFICES ASSUME NEW t \in kept, Never(t) PROVE new.cum # t - 1
    BY <1>1 DEF Never
  <2> QED
    BY <1>2, <1>3, <1>4, <1>5
<1>8. \A t \in new.nr : Never(t)'
  <2> SUFFICES ASSUME NEW t \in new.nr PROVE Never(t)
    BY <1>4, <1>7
  <2> SUFFICES ASSUME NEW s \in sacks PROVE s.cum # t - 1
    BY DEF Never
  <2>1. s.cum \in 0..MaxTsn /\ s.cum <= c
    BY DEF QueueInv, SacksSound, SackSound, SackType, c
  <2> QED
    BY <1>3, <1>5, <1>6, <2>1
<1>9. ASSUME NEW s, s = new PROVE SackSound(s)'
  <2>1. s.cum <= Cum(got')
    BY <1>1, <1>3, <1>4, <1>9 DEF c
  <2>2. \A t \in s.seg \cup s.nr : t > s.cum + 1
    BY <1>4, <1>6, <1>9
  <2> QED
    BY <1>1, <1>4, <1>8, <1>9, <2>1, <2>2 DEF SackSound
<1>10. \A s \in sacks : SackSound(s)'
  <2> SUFFICES ASSUME NEW s \in sacks PROVE SackSound(s)'
    OBVIOUS
  <2>1. SackSound(s)
    BY DEF QueueInv, SacksSound
  <2> QED
    BY <1>1, <1>7, <2>1 DEF SackSound
<1>11. SacksSound'
  BY <1>1, <1>9, <1>10 DEF SacksSound
<1>12. NrKept'
  BY <1>1, <1>7 DEF QueueInv, NrKept
<1>13. PeerHolds' /\ Queued(a)'
  BY <1>1 DEF QueueInv, PeerHolds
<1> QED
  BY <1>11, <1>12, <1>13 DEF QueueInv

\* The network loses something.
LEMMA LossKeepsQueue ==
  ASSUME QueueInv, \/ \E t \in wire : LoseData(t)
                   \/ \E s \in sacks : LoseSack(s)
                   \/ UNCHANGED vars
  PROVE  QueueInv'
<1>1. UNCHANGED <<a, got, kept>> /\ wire' \subseteq wire /\ sacks' \subseteq sacks
  BY DEF LoseData, LoseSack, sender, peer, vars
<1>2. a \in SendSide
  BY DEF QueueInv, Queued
<1>3. Shuffled(a, a')
  BY <1>1, <1>2 DEF Shuffled
<1> QED
  BY <1>1, <1>3, ShuffledStep

-----------------------------------------------------------------------------
(* The invariant of the sent queue. *)

LEMMA QueueInit == Init => QueueInv
<1> SUFFICES ASSUME Init PROVE QueueInv
  OBVIOUS
<1>1. /\ a \in SendSide /\ a.last = 0
      /\ \A t \in Tsns : a.sent[t] = "unsent"
  BY SenderAssumption DEF Init, SendSide, AnyStatus, Statuses, Tsns
<1>2. Queued(a)
  BY <1>1 DEF Queued, Unmarked, Addressed, SentQueue, Ordered, HeadSent, AckedSeen, Tsns
<1>3. got = {} /\ kept = {} /\ wire = {} /\ sacks = {}
  BY DEF Init
<1>4. PeerHolds
  <2>1. {} \in SUBSET Tsns
    OBVIOUS
  <2>2. Cum({}) \in 0..MaxTsn /\ 1..Cum({}) \subseteq {}
    BY <2>1, CumType
  <2> QED
    BY <1>1, <1>3, <2>2 DEF PeerHolds
<1>5. SacksSound /\ NrKept
  BY <1>1, <1>3 DEF SacksSound, NrKept
<1> QED
  BY <1>2, <1>4, <1>5 DEF QueueInv

LEMMA QueueNext ==
  ASSUME QueueInv, ShutInv, [Next]_vars
  PROVE  QueueInv' /\ AckedStep
<1>0. Queued(a) /\ a \in SendSide
  BY DEF QueueInv, Queued
<1> DEFINE Keeps == QueueInv' /\ AckedStep
<1>1. ASSUME Shuffled(a, a'), UNCHANGED <<got, kept, sacks, wire>> PROVE Keeps
  BY <1>1, ShuffledStep, ShuffledAcks
<1>2. ASSUME a' = a PROVE AckedStep
  BY <1>2 DEF AckedStep
<1>3. CASE UserSend
  BY <1>3, UserSendQueue DEF AckedStep
<1>4. CASE ReceiveSack
  BY <1>4, SackKeepsQueue, SackAcks DEF ReceiveSack
<1>5. CASE ReceiveShutdown
  BY <1>5, ShutdownKeepsQueue DEF ReceiveShutdown
<1>6. ASSUME NEW n \in Nets, Expire(n) PROVE Keeps
  BY <1>0, <1>1, <1>6, ExpireShuffles
<1>7. ASSUME NEW n \in Nets, Service(n) PROVE Keeps
  <2>1. UNCHANGED <<got, kept, sacks, wire>>
    BY <1>7 DEF Service, peer
  <2> QED
    BY <1>0, <1>1, <1>7, <2>1, ServiceShuffled
<1>8. CASE ServiceDone
  <2>1. UNCHANGED <<got, kept, sacks, wire>>
    BY <1>8 DEF ServiceDone, peer
  <2> QED
    BY <1>0, <1>1, <1>8, <2>1, ServiceDoneSame, SameShuffled DEF Same
<1>9. CASE Outputs
  BY <1>9, OutputsKeepQueue
<1>10. CASE Return
  <2>1. UNCHANGED <<got, kept, sacks, wire>>
    BY <1>10 DEF Return, peer
  <2> QED
    BY <1>0, <1>1, <1>10, <2>1, ReturnTimed, SameShuffled
<1>11. ASSUME NEW t \in wire, Arrive(t) PROVE Keeps
  BY <1>2, <1>11, ArriveKeepsQueue DEF Arrive, sender
<1>12. CASE PeerSack
  BY <1>2, <1>12, PeerSackKeepsQueue DEF PeerSack, sender
<1>13. CASE PeerShutdown
  <2>1. UNCHANGED <<a, got, kept, sacks, wire>>
    BY <1>13 DEF PeerShutdown, sender
  <2>2. Shuffled(a, a')
    BY <1>0, <2>1 DEF Shuffled
  <2> QED
    BY <1>1, <2>1, <2>2
<1>14. CASE Renege
  BY <1>2, <1>14, RenegeKeepsQueue DEF Renege, sender
<1>15. CASE (\E t \in wire : LoseData(t)) \/ (\E s \in sacks : LoseSack(s)) \/ UNCHANGED vars
  BY <1>2, <1>15, LossKeepsQueue DEF LoseData, LoseSack, sender, vars
<1> QED
  BY <1>3, <1>4, <1>5, <1>6, <1>7, <1>8, <1>9, <1>10, <1>11, <1>12, <1>13, <1>14, <1>15
     DEF Next, Handler

\* The steps of the sender and of the network that bring nothing new from the
\* peer.
LEMMA ShutKept ==
  ASSUME QueueInv, QueueInv', ShutInv, AckedStep, got \subseteq got',
         sacks' \subseteq sacks, shuts' \subseteq shuts, reneges' = reneges
  PROVE  ShutInv'
<1>1. got \in SUBSET Tsns /\ got' \in SUBSET Tsns /\ Cum(got) \in Nat /\ Cum(got') \in Nat
  BY CumType, SenderAssumption DEF QueueInv, PeerHolds
<1>2. Cum(got) <= Cum(got')
  BY <1>1, CumGrows
<1>3. reneges = 0 => Reported'
  BY DEF ShutInv, Reported, AckedStep
<1>4. ShutsSound'
  <2> SUFFICES ASSUME NEW c \in shuts PROVE ShutSound(c)'
    BY DEF ShutsSound
  <2>1. ShutSound(c)
    BY DEF ShutInv, ShutsSound
  <2>2. c <= Cum(got')
    BY <1>1, <1>2, <2>1, SenderAssumption DEF ShutSound
  <2> QED
    BY <2>1, <2>2 DEF ShutSound, AckedStep
<1> QED
  BY <1>3, <1>4 DEF ShutInv

\* A new SACK reports nothing that follows a SHUTDOWN's cumulative TSN.
LEMMA PeerSackKeepsShut ==
  ASSUME QueueInv, ShutInv, PeerSack
  PROVE  ShutInv'
<1> DEFINE k == Cum(got)
           new == SackOf(got, kept)
<1>1. UNCHANGED <<a, got, shuts, reneges>> /\ sacks' = sacks \cup {new}
  BY DEF PeerSack, sender
<1>2. got \in SUBSET Tsns /\ k \in 0..MaxTsn /\ k + 1 \notin got
  BY CumType DEF QueueInv, PeerHolds
<1>3. \A t \in new.seg \cup new.nr : t \in got /\ t > k
  BY DEF SackOf
<1>4. ASSUME NEW c \in shuts PROVE ShutSound(c)'
  <2>1. ShutSound(c) /\ c \in 0..MaxTsn /\ c <= k
    BY DEF ShutInv, ShutsSound, ShutSound
  <2> HIDE DEF k, new
  <2>2. ASSUME NEW t \in new.seg \cup new.nr PROVE t # c + 1
    <3>1. t \in got /\ t > k
      BY <1>3, <2>2
    <3>2. t \in Tsns
      BY <1>2, <3>1
    <3>3. t \in Int
      BY <3>2, SenderAssumption DEF Tsns
    <3> QED
      BY <1>2, <2>1, <3>1, <3>3, SenderAssumption
  <2> QED
    BY <1>1, <2>1, <2>2 DEF ShutSound
<1>5. reneges = 0 => Reported'
  <2> HIDE DEF k, new
  <2> QED
    BY <1>1, <1>3 DEF ShutInv, Reported
<1> QED
  BY <1>1, <1>4, <1>5 DEF ShutInv, ShutsSound

\* The chunk after the cumulative TSN of a new SHUTDOWN is one that the peer does
\* not have, so it never reported it.
LEMMA PeerShutdownKeepsShut ==
  ASSUME ~FickleShuts, QueueInv, ShutInv, PeerShutdown
  PROVE  ShutInv'
<1> DEFINE k == Cum(got)
<1>1. UNCHANGED <<a, got, sacks, reneges>> /\ shuts' = shuts \cup {k} /\ reneges = 0
  BY DEF PeerShutdown, sender
<1>2. got \in SUBSET Tsns /\ k \in 0..MaxTsn /\ k + 1 \notin got /\ kept \subseteq got
  BY CumType DEF QueueInv, PeerHolds
<1>3. Reported
  BY <1>1 DEF ShutInv
<1>4. ASSUME NEW t \in Tsns, t = k + 1
      PROVE  /\ a.sent[t] \notin {"acked", "nracked"}
             /\ \A s \in sacks : t \notin s.seg \cup s.nr
  <2>1. t \notin got /\ t \notin kept
    BY <1>2, <1>4
  <2>2. \A s \in sacks : s.nr \subseteq kept
    BY DEF QueueInv, SacksSound, SackSound
  <2>3. a.sent[t] = "nracked" => t \in kept
    BY DEF QueueInv, NrKept
  <2> QED
    BY <1>3, <2>1, <2>2, <2>3 DEF Reported
<1>5. ASSUME NEW c, c = k PROVE ShutSound(c)'
  <2>1. k <= k
    BY <1>2
  <2> QED
    BY <1>1, <1>2, <1>4, <1>5, <2>1 DEF ShutSound
<1>6. ASSUME NEW c \in shuts PROVE ShutSound(c)'
  BY <1>1 DEF ShutInv, ShutsSound, ShutSound
<1>7. Reported'
  BY <1>1, <1>3 DEF Reported
<1> QED
  BY <1>1, <1>5, <1>6, <1>7 DEF ShutInv, ShutsSound

LEMMA RenegeKeepsShut ==
  ASSUME ~FickleShuts, QueueInv, QueueInv', ShutInv, Renege
  PROVE  ShutInv'
<1>1. reneges \in Nat /\ reneges < MaxReneges /\ reneges' = reneges + 1
  BY DEF ShutInv, Renege
<1>2. reneges' > 0
  BY <1>1
<1>3. shuts = {} /\ shuts' = {}
  BY DEF Renege
<1> QED
  BY <1>1, <1>2, <1>3 DEF ShutInv, ShutsSound

LEMMA ShutNext ==
  ASSUME ~FickleShuts, QueueInv, ShutInv, [Next]_vars
  PROVE  ShutInv'
<1>0. QueueInv' /\ AckedStep
  BY QueueNext
<1>1. CASE PeerSack
  BY <1>1, PeerSackKeepsShut
<1>2. CASE PeerShutdown
  BY <1>2, PeerShutdownKeepsShut
<1>3. CASE Renege
  BY <1>0, <1>3, RenegeKeepsShut
<1>4. ASSUME got \subseteq got', sacks' \subseteq sacks, shuts' \subseteq shuts, reneges' = reneges
      PROVE  ShutInv'
  BY <1>0, <1>4, ShutKept
<1>5. CASE UserSend \/ ReceiveSack \/ ReceiveShutdown \/ \E n \in Nets : Expire(n)
  BY <1>4, <1>5 DEF UserSend, ReceiveSack, Sack, ReceiveShutdown, Shutdown, Expire, T3Timeout, peer
<1>6. CASE Handler
  <2>1. UNCHANGED sacks /\ UNCHANGED peer
    BY <1>6 DEF Handler, Service, ServiceDone, Outputs, Retransmit, RetransmitFails,
                Transmit, TransmitFails, StopOutput, Return
  <2> QED
    BY <1>4, <2>1 DEF peer
<1>7. CASE (\E t \in wire : Arrive(t) \/ LoseData(t)) \/ \E s \in sacks : LoseSack(s)
  BY <1>4, <1>7 DEF Arrive, LoseData, LoseSack, peer
<1>8. CASE UNCHANGED vars
  BY <1>4, <1>8 DEF vars
<1> QED
  BY <1>1, <1>2, <1>3, <1>5, <1>6, <1>7, <1>8 DEF Next

LEMMA ShutInit == Init => ShutInv
  BY DEF Init, ShutInv, ShutsSound, Reported

\* Whatever is lost, delayed, reordered or reneged, and whether or not window
\* probes can be sent, the sent queue keeps its order and its open head, unless
\* the peer both reneges and shuts down.
LEMMA QueueInvariant ==
  ASSUME ~FickleShuts
  PROVE  Spec => []QueueInv
<1>1. Init => QueueInv /\ ShutInv
  BY QueueInit, ShutInit
<1>2. QueueInv /\ ShutInv /\ [Next]_vars => QueueInv' /\ ShutInv'
  BY QueueNext, ShutNext
<1> QED
  BY <1>1, <1>2, PTL DEF Spec

\* The first chunk of the sent queue follows the cumulative TSN, and is open.
LEMMA HeadOpen ==
  ASSUME QueueInv, NEW t, IsFirst(t, SentQueue(a))
  PROVE  t \in Tsns /\ a.sent[t] \in {"sent", "resend"}
<1> DEFINE h == a.last + 1
<1>1. /\ a \in SendSide /\ Unmarked(a) /\ Ordered(a) /\ HeadSent(a)
      /\ a.last \in 0..MaxTsn /\ MaxTsn \in Nat
  BY SenderAssumption DEF QueueInv, Queued, SendSide
<1>2. t \in SentQueue(a) /\ t \in Tsns /\ a.sent[t] \notin {"freed", "unsent"}
  BY DEF IsFirst, SentQueue
<1>3. ~(t <= a.last)
  BY <1>1, <1>2 DEF Ordered
<1>4. h \in Tsns /\ h <= t
  BY <1>1, <1>2, <1>3 DEF Tsns
<1>5. h \in SentQueue(a)
  <2>1. a.sent[h] # "freed"
    BY <1>1, <1>4 DEF Ordered
  <2>2. a.sent[h] # "unsent"
    BY <1>1, <1>2, <1>4 DEF Ordered
  <2>3. a.sent[h] \in AnyStatus
    BY <1>1, <1>4 DEF SendSide
  <2> QED
    BY <1>4, <2>1, <2>2, <2>3 DEF SentQueue, AnyStatus, Statuses
<1>6. t = h
  <2>1. t <= h
    BY <1>5 DEF IsFirst
  <2> QED
    BY <1>1, <1>2, <1>4, <2>1 DEF Tsns
<1>7. a.sent[t] \notin {"acked", "nracked"}
  BY <1>1, <1>2, <1>6 DEF HeadSent
<1>8. a.sent[t] # "marked"
  BY <1>1, <1>2 DEF Unmarked
<1> QED
  BY <1>2, <1>7, <1>8 DEF SentQueue

(***************************************************************************)
(* Between handlers the head of the sent queue can be retransmitted: a     *)
(* revoked acknowledgement is noticed by sctp_check_for_revoked before the *)
(* cumulative TSN reaches the chunk, however SACKs were lost, delayed or   *)
(* reordered, so that the T3 timer always finds a chunk to mark.  The      *)
(* cumulative TSN of a SHUTDOWN passes by sctp_check_for_revoked: a peer   *)
(* that shuts down has taken nothing back, which is the hypothesis (the    *)
(* README describes what happens otherwise).                               *)
(***************************************************************************)
THEOREM HeadCanBeResent ==
  ASSUME ~FickleShuts
  PROVE  Spec => []HeadOutstanding
<1>1. QueueInv => HeadOutstanding
  BY HeadOpen DEF HeadOutstanding
<1> QED
  BY <1>1, QueueInvariant, PTL

-----------------------------------------------------------------------------
(***************************************************************************)
(* T3 timers.  While a handler runs none may be up: a SACK handler stops   *)
(* them all and starts them again one destination after the other, and a   *)
(* timer that expired is started again by what is sent or, at the end, by  *)
(* the safeguard of sctp_timeout_handler, which looks at the count of      *)
(* timers only; hence that the count is never too large.                   *)
(***************************************************************************)
CtxType ==
    [t3 : Nets \cup {"none"}, todo : SUBSET Nets, express : BOOLEAN,
     recovery : BOOLEAN, recovered : BOOLEAN, j : BOOLEAN, done : BOOLEAN]

Waits(x) == SentQueue(x) \cup SendQueue(x) # {}

ServedTimed ==
    at = "service" => \A n \in Nets \ ctx.todo : a.flight[n] > 0 => n \in a.timer /\ ctx.j
OutputTimed ==
    at = "output" /\ ctx.t3 = "none" /\ InFlight(a) # {} => a.timer # {}
EndTimed ==
    at = "end" /\ Waits(a) => a.timer # {} \/ (ctx.t3 # "none" /\ SentQueue(a) # {})
IdleTimed ==
    at = "idle" /\ Waits(a) => a.timer # {}

TimerInv ==
    /\ ctx \in CtxType /\ TimerCount(a)
    /\ ServedTimed /\ OutputTimed /\ EndTimed /\ IdleTimed

\* Chunks in flight are waited for.
LEMMA FlightWaits ==
  ASSUME NEW x, InFlight(x) # {}
  PROVE  Waits(x) /\ SentQueue(x) # {}
  BY DEF Waits, InFlight, SentQueue

\* When data is in flight, its destination has a flight size, and total_flight
\* counts it.
LEMMA FlightSeen ==
  ASSUME SenderInv
  PROVE  /\ InFlight(a) # {} => \E n \in Nets : a.flight[n] > 0
         /\ a.total > 0 => InFlight(a) # {}
<1>1. /\ Counts(a, InFlight(a)) /\ Addressed(a) /\ InFlight(a) \in SUBSET Tsns
  BY QueueParts DEF SenderInv, Books, Accounted, Booked
<1>2. ASSUME NEW t \in InFlight(a) PROVE \E n \in Nets : a.flight[n] > 0
  <2> DEFINE n == a.whoTo[t]
             F == Of(a, InFlight(a), n)
  <2>1. n \in Nets
    BY <1>1, <1>2 DEF Addressed, InFlight, SentQueue
  <2>2. F \in SUBSET Tsns /\ F # {}
    BY <1>1 DEF Of
  <2>3. IsFiniteSet(F) /\ Cardinality(F) \in Nat
    BY <2>2, TsnsFinite, CardNat
  <2>4. Cardinality(F) # 0
    BY <2>2, <2>3, FS_EmptySet
  <2>5. a.flight[n] = Cardinality(F)
    BY <1>1, <2>1 DEF Counts
  <2> QED
    BY <2>1, <2>3, <2>4, <2>5
<1>3. a.total > 0 => InFlight(a) # {}
  BY <1>1, FS_EmptySet DEF Counts
<1> QED
  BY <1>2, <1>3

\* The sent queue has a chunk in flight or one to retransmit.
LEMMA QueueHead ==
  ASSUME QueueInv, SentQueue(a) # {}
  PROVE  InFlight(a) \cup Resend(a) # {}
<1> DEFINE t == CHOOSE u \in Tsns : IsFirst(u, SentQueue(a))
<1>1. IsFirst(t, SentQueue(a))
  BY QueueParts, FirstExists
<1> HIDE DEF t
<1>2. t \in Tsns /\ a.sent[t] \in {"sent", "resend"}
  BY <1>1, HeadOpen
<1> QED
  BY <1>2 DEF InFlight, Resend

LEMMA GoOutputTyped ==
  ASSUME NEW t3 \in Nets \cup {"none"}, GoOutput(t3)
  PROVE  ctx' \in CtxType /\ ctx'.t3 = t3 /\ at' = "output"
  BY DEF GoOutput, NoCtx, CtxType

LEMMA GoServiceTyped ==
  ASSUME NEW e \in BOOLEAN, NEW r \in BOOLEAN, GoService(e, r)
  PROVE  ctx' \in CtxType /\ ctx'.todo = Nets /\ at' = "service"
  BY DEF GoService, NoCtx, CtxType

\* A handler begins: it goes through the destinations, or to the output with
\* what waited before it.
LEMMA HandlerBegins ==
  ASSUME TimerInv, ctx' \in CtxType, TimerCount(a'),
         \/ at' = "service" /\ ctx'.todo = Nets
         \/ at' = "output" /\ (ctx'.t3 = "none" /\ InFlight(a') # {} => a'.timer # {})
  PROVE  TimerInv'
  BY DEF TimerInv, ServedTimed, OutputTimed, EndTimed, IdleTimed

\* Whatever ends or goes on with a timer running is fine.
LEMMA TimerUp ==
  ASSUME TimerInv, ctx' \in CtxType, TimerCount(a'), at' # "service", a'.timer # {}
  PROVE  TimerInv'
  BY DEF TimerInv, ServedTimed, OutputTimed, EndTimed, IdleTimed

LEMMA SackKeepsTimers ==
  ASSUME SenderInv, QueueInv, TimerInv, NEW s \in sacks, NEW grew \in BOOLEAN,
         Sack(s, grew)
  PROVE  TimerInv'
<1>1. at = "idle" /\ TimerCount(a) /\ (InFlight(a) # {} => a.timer # {})
  BY FlightWaits DEF Sack, TimerInv, IdleTimed
<1>2. a \in SendSide /\ Unmarked(a) /\ s \in SackType
  BY DEF QueueInv, Queued, SacksSound, SackSound
<1>3. ASSUME TimerCount(a'), NEW e \in BOOLEAN, NEW r \in BOOLEAN, GoService(e, r)
      PROVE  TimerInv'
  BY <1>3, GoServiceTyped, HandlerBegins
<1>4. ASSUME TimerCount(a'), GoOutput("none"), InFlight(a') # {} => a'.timer # {}
      PROVE  TimerInv'
  BY <1>4, GoOutputTyped, HandlerBegins
<1>5. CASE a' = a /\ (GoService(TRUE, FALSE) \/ GoOutput("none"))
  BY <1>1, <1>3, <1>4, <1>5
<1>6. CASE a' = ExpressAck(a, s.cum) /\ GoService(TRUE, grew)
  <2>1. TimerCount(a')
    BY <1>1, <1>2, <1>6, ExpressAckSent DEF Handled, SackType
  <2> QED
    BY <1>3, <1>6, <2>1
<1>7. CASE SentQueue(a) \cup SendQueue(a) = {} /\ a' = NothingQueued(a) /\ GoOutput("none")
  <2>1. SameQueue(a, a') /\ TimerCount(a')
    BY <1>1, <1>2, <1>7, NothingQueuedSame
  <2>2. InFlight(a') = {}
    BY <1>7, <2>1 DEF SameQueue, InFlight, SentQueue
  <2> QED
    BY <1>4, <1>7, <2>1, <2>2
<1>8. CASE /\ \E S \in SUBSET Strikable(a, SlowAck(a, s), s) : a' = Strike(SlowAck(a, s), S)
           /\ GoService(FALSE, grew)
  <2> DEFINE y == SlowAck(a, s)
  <2>1. Handled(a, y, s.cum, s.seg # {})
    BY <1>2, SlowAckSent
  <2>2. PICK S \in SUBSET Strikable(a, y, s) : a' = Strike(y, S)
    BY <1>8
  <2> HIDE DEF y
  <2>3. S \in SUBSET InFlight(y) /\ y \in SendSide
    BY <2>1 DEF Strikable, Handled
  <2>4. SameTimers(y, a')
    BY <2>2, <2>3, StrikeShuffled
  <2>5. TimerCount(a')
    BY <1>1, <2>1, <2>4 DEF Handled, SameTimers, TimerCount
  <2> QED
    BY <1>3, <1>8, <2>5
<1> QED
  BY <1>5, <1>6, <1>7, <1>8 DEF Sack

LEMMA ShutdownKeepsTimers ==
  ASSUME SenderInv, QueueInv, TimerInv, NEW c \in shuts, NEW grew \in BOOLEAN,
         Shutdown(c, grew)
  PROVE  TimerInv'
<1>1. at = "idle" /\ TimerCount(a) /\ (InFlight(a) # {} => a.timer # {})
  BY FlightWaits DEF Shutdown, TimerInv, IdleTimed
<1>2. a \in SendSide /\ c \in 0..MaxTsn
  BY DEF QueueInv, Queued, SenderInv, UnderWay
<1>3. CASE a' = ExpressAck(a, c) /\ GoService(TRUE, grew)
  <2>1. TimerCount(a')
    BY <1>1, <1>2, <1>3, ExpressAckSent DEF Handled
  <2> QED
    BY <1>3, <2>1, GoServiceTyped, HandlerBegins
<1>4. CASE a' = a /\ GoOutput("none")
  BY <1>1, <1>4, GoOutputTyped, HandlerBegins
<1> QED
  BY <1>3, <1>4 DEF Shutdown

\* The loop over the destinations leaves a timer wherever data is in flight.
LEMMA ServiceKeepsTimers ==
  ASSUME SenderInv, QueueInv, TimerInv, NEW n \in Nets, Service(n)
  PROVE  TimerInv'
<1> DEFINE recover == ctx.recovery /\ n \in a.window_probe
           x == IF recover THEN ProbeRecovery(a) ELSE a
           start == IF ctx.express THEN OsTimerStart(x, n) ELSE TimerStart(x, n)
           assured == IF n \in x.timer THEN x ELSE start
           N == {n}
           W == x.window_probe \ N
<1>0. a \in SendSide /\ ctx \in CtxType /\ TimerCount(a)
  BY DEF QueueInv, Queued, TimerInv
<1>1. /\ x \in SendSide /\ SameTimers(a, x)
      /\ \A m \in Nets : x.flight[m] <= a.flight[m]
  <2>1. CASE recover
    BY <1>0, <2>1, ProbeRecoveryShuffled DEF Shuffled
  <2>2. CASE ~recover
    BY <1>0, <2>2 DEF SameTimers, SendSide
  <2> QED
    BY <2>1, <2>2
<1>2. /\ at = "service" /\ at' = "service"
      /\ ctx' = [ctx EXCEPT !.todo = @ \ N, !.recovered = @ \/ recover,
                            !.j = @ \/ x.flight[n] > 0]
      /\ \/ x.flight[n] > 0 /\ a' = [start EXCEPT !.window_probe = @ \ N]
         \/ /\ x.flight[n] = 0
            /\ \/ a' = [assured EXCEPT !.window_probe = @ \ N]
               \/ a' = assured \/ a' = TimerStop(x, N) \/ a' = x
  BY DEF Service
<1> HIDE DEF recover, x
<1>3. ctx' \in CtxType /\ ctx'.todo = ctx.todo \ N /\ ctx'.j = (ctx.j \/ x.flight[n] > 0)
  BY <1>0, <1>2 DEF CtxType
<1>4. Timed(x, start, x.timer \cup N)
  BY <1>1, StartTimed
<1>5. Timed(x, assured, x.timer \cup N)
  <2>1. CASE n \in x.timer
    BY <1>1, <2>1 DEF Timed, SameQueue
  <2> QED
    BY <1>4, <2>1
<1>6. Timed(x, TimerStop(x, N), x.timer \ N) /\ Timed(x, x, x.timer)
  <2>1. N \in SUBSET Nets
    OBVIOUS
  <2> HIDE DEF N
  <2> QED
    BY <1>1, <2>1, StopTimed DEF Timed, SameQueue
<1> HIDE DEF start, assured
<1>7. ASSUME NEW y, NEW T, Timed(x, y, T)
      PROVE  Timed(x, [y EXCEPT !.window_probe = @ \ N], T)
  <2> DEFINE V == y.window_probe \ N
  <2>1. y \in SendSide /\ V \in SUBSET Nets /\ {} \in SUBSET Tsns
    BY <1>7 DEF Timed, SameQueue, SendSide
  <2> HIDE DEF V
  <2>2. /\ Same(y, [y EXCEPT !.window_probe = V])
        /\ [y EXCEPT !.window_probe = V].flight = y.flight
    BY <2>1, ProbeSame
  <2> QED
    BY <1>7, <2>2 DEF Timed, Same, SameQueue, SameTimers, TimerCount, V
<1>8. \/ x.flight[n] > 0 /\ Timed(x, a', x.timer \cup N)
      \/ x.flight[n] = 0 /\ (\E T : Timed(x, a', T) /\ x.timer \ N \subseteq T)
  <2>1. CASE x.flight[n] > 0 /\ a' = [start EXCEPT !.window_probe = @ \ N]
    BY <1>4, <1>7, <2>1
  <2>2. CASE x.flight[n] = 0 /\ a' = [assured EXCEPT !.window_probe = @ \ N]
    <3>1. Timed(x, a', x.timer \cup N)
      BY <1>5, <1>7, <2>2
    <3> QED
      BY <2>2, <3>1
  <2>3. CASE x.flight[n] = 0 /\ (a' = assured \/ a' = TimerStop(x, N) \/ a' = x)
    <3>1. Timed(x, a', x.timer \cup N) \/ Timed(x, a', x.timer \ N) \/ Timed(x, a', x.timer)
      BY <1>5, <1>6, <2>3
    <3> QED
      BY <2>3, <3>1
  <2> QED
    BY <1>2, <2>1, <2>2, <2>3
<1>9. /\ a'.flight = x.flight /\ x.timer \ N \subseteq a'.timer
      /\ x.flight[n] > 0 => n \in a'.timer
      /\ TimerCount(x) => TimerCount(a')
  BY <1>8 DEF Timed
<1>10. TimerCount(a')
  BY <1>0, <1>1, <1>9 DEF SameTimers, TimerCount
<1>11. ASSUME NEW m \in Nets \ ctx'.todo, a'.flight[m] > 0 PROVE m \in a'.timer /\ ctx'.j
  <2>1. CASE m = n
    BY <1>3, <1>9, <1>11, <2>1
  <2>2. CASE m # n
    <3>1. m \in Nets \ ctx.todo
      BY <1>3, <1>11, <2>2
    <3>2. a.flight[m] \in Nat /\ x.flight[m] \in Nat /\ x.flight[m] > 0
      BY <1>0, <1>1, <1>9, <1>11, <3>1 DEF SendSide
    <3>3. a.flight[m] > 0
      BY <1>1, <3>1, <3>2
    <3>4. m \in a.timer /\ ctx.j
      BY <1>2, <3>1, <3>3 DEF TimerInv, ServedTimed
    <3> QED
      BY <1>1, <1>3, <1>9, <2>2, <3>4 DEF SameTimers
  <2> QED
    BY <2>1, <2>2
<1> QED
  BY <1>2, <1>3, <1>10, <1>11 DEF TimerInv, ServedTimed, OutputTimed, EndTimed, IdleTimed

LEMMA ServiceDoneKeepsTimers ==
  ASSUME SenderInv, QueueInv, TimerInv, ServiceDone
  PROVE  TimerInv'
<1>1. a \in SendSide /\ ctx \in CtxType /\ TimerCount(a)
  BY DEF QueueInv, Queued, TimerInv
<1>2. TimerCount(a')
  BY <1>1, ServiceDoneSame DEF Same, SameTimers, TimerCount
<1>3. CASE at' = at /\ ctx' = [ctx EXCEPT !.todo = Nets, !.done = TRUE]
  <2>1. ctx' \in CtxType /\ ctx'.todo = Nets /\ at' = "service"
    BY <1>1, <1>3 DEF CtxType, ServiceDone
  <2> QED
    BY <1>2, <2>1, HandlerBegins
<1>4. CASE a' = a /\ GoOutput("none")
  <2>1. ASSUME InFlight(a) # {} PROVE a.timer # {}
    <3>1. PICK n \in Nets : a.flight[n] > 0
      BY <2>1, FlightSeen
    <3>2. at = "service" /\ ctx.todo = {}
      BY DEF ServiceDone
    <3> QED
      BY <3>1, <3>2 DEF TimerInv, ServedTimed
  <2> QED
    BY <1>2, <1>4, <2>1, GoOutputTyped, HandlerBegins
<1> QED
  BY <1>3, <1>4 DEF ServiceDone

LEMMA OutputsKeepTimers ==
  ASSUME SenderInv, QueueInv, TimerInv, Outputs
  PROVE  TimerInv'
<1> PICK n \in Nets, probe \in BOOLEAN :
        \/ \E S \in SUBSET Resend(a) : Retransmit(S, n, probe)
        \/ \E S \in SUBSET Resend(a), v \in Nets : RetransmitFails(S, n, probe, v)
        \/ \E t \in SendQueue(a) : Transmit(t, n, probe)
        \/ TransmitFails(n, probe)
        \/ StopOutput(n)
  BY DEF Outputs
<1>0. a \in SendSide /\ ctx \in CtxType /\ TimerCount(a)
  BY DEF QueueInv, Queued, TimerInv
<1>1. ctx' = ctx /\ at' # "service" /\ at = "output"
  BY DEF Retransmit, RetransmitFails, Transmit, TransmitFails, StopOutput, AfterPacket
<1>2. ASSUME a'.timer # {}, TimerCount(a') PROVE TimerInv'
  BY <1>0, <1>1, <1>2, TimerUp
<1>3. ASSUME NEW S \in SUBSET Resend(a), Retransmit(S, n, probe) PROVE TimerInv'
  BY <1>0, <1>2, <1>3, RetransmitShuffles
<1>4. ASSUME \/ \E S \in SUBSET Resend(a), v \in Nets : RetransmitFails(S, n, probe, v)
             \/ TransmitFails(n, probe)
      PROVE  TimerInv'
  BY <1>0, <1>2, <1>4, FailureTimed
<1>5. ASSUME NEW t \in SendQueue(a), Transmit(t, n, probe) PROVE TimerInv'
  BY <1>0, <1>2, <1>5, TransmitKeepsQueue
<1>6. ASSUME StopOutput(n) PROVE TimerInv'
  <2>1. CASE a' = TimerValidation(a, n)
    BY <1>0, <1>2, <2>1, ValidationTimed DEF Timed
  <2>2. CASE a' = a
    <3>1. a.total > 0 \/ Resend(a) \cup SendQueue(a) = {}
      BY <1>6 DEF StopOutput
    <3>2. Waits(a) => InFlight(a) # {}
      <4>1. CASE a.total > 0
        BY <4>1, FlightSeen
      <4>2. CASE Resend(a) \cup SendQueue(a) = {}
        BY <4>2, QueueHead DEF Waits
      <4> QED
        BY <3>1, <4>1, <4>2
    <3>3. Waits(a) => a.timer # {} \/ (ctx.t3 # "none" /\ SentQueue(a) # {})
      BY <1>1, <3>2, FlightWaits DEF TimerInv, OutputTimed
    <3>4. at' = "end"
      BY <1>6 DEF StopOutput
    <3> QED
      BY <1>0, <1>1, <2>2, <3>3, <3>4
         DEF TimerInv, ServedTimed, OutputTimed, EndTimed, IdleTimed
  <2> QED
    BY <1>6, <2>1, <2>2 DEF StopOutput
<1> QED
  BY <1>3, <1>4, <1>5, <1>6

LEMMA ReturnKeepsTimers ==
  ASSUME SenderInv, QueueInv, TimerInv, Return
  PROVE  TimerInv'
<1>0. a \in SendSide /\ Queued(a) /\ ctx \in CtxType /\ TimerCount(a)
  BY DEF QueueInv, Queued, TimerInv
<1>1. at = "end" /\ at' = "idle" /\ ctx' \in CtxType
  BY DEF Return, NoCtx, CtxType
<1>2. /\ TimerCount(a') /\ SameQueue(a, a') /\ (a'.timer # {} \/ a' = a)
      /\ ctx.t3 # "none" /\ a.timers_up = 0 /\ SentQueue(a) # {} => a'.timer # {}
  BY <1>0, ReturnTimed
<1>3. Waits(a') => a'.timer # {}
  <2> SUFFICES ASSUME Waits(a'), a'.timer = {} PROVE FALSE
    OBVIOUS
  <2>1. a' = a /\ Waits(a) /\ a.timer = {}
    BY <1>2
  <2>2. ctx.t3 # "none" /\ SentQueue(a) # {}
    BY <1>1, <2>1 DEF TimerInv, EndTimed
  <2>3. a.timers_up = 0
    BY <1>0, <2>1, FS_EmptySet DEF TimerCount, SendSide
  <2> QED
    BY <1>2, <2>2, <2>3
<1> QED
  BY <1>1, <1>2, <1>3 DEF TimerInv, ServedTimed, OutputTimed, EndTimed, IdleTimed

LEMMA ExpireKeepsTimers ==
  ASSUME SenderInv, QueueInv, TimerInv, NEW n \in Nets, Expire(n)
  PROVE  TimerInv'
<1>0. a \in SendSide /\ TimerCount(a)
  BY DEF QueueInv, Queued, TimerInv
<1>1. TimerCount(a') /\ at' = "output" /\ ctx'.t3 = n
  BY <1>0, ExpireShuffles
<1>2. ctx' \in CtxType
  BY GoOutputTyped DEF Expire, T3Timeout
<1>3. ctx'.t3 # "none"
  BY <1>1, SenderAssumption
<1> QED
  BY <1>1, <1>2, <1>3, HandlerBegins

LEMMA UserSendKeepsTimers ==
  ASSUME SenderInv, QueueInv, TimerInv, UserSend
  PROVE  TimerInv'
<1>1. SameTimers(a, a') /\ a'.sent = a.sent
  BY UserSendQueue
<1>2. at = "idle" /\ GoOutput("none")
  BY DEF UserSend
<1>3. InFlight(a') # {} => a'.timer # {}
  <2>1. InFlight(a') = InFlight(a)
    BY <1>1 DEF InFlight
  <2> QED
    BY <1>1, <1>2, <2>1, FlightWaits DEF TimerInv, IdleTimed, SameTimers
<1>4. TimerCount(a')
  BY <1>1 DEF TimerInv, TimerCount, SameTimers
<1> QED
  BY <1>2, <1>3, <1>4, GoOutputTyped, HandlerBegins

LEMMA TimerInit == Init => TimerInv
<1> SUFFICES ASSUME Init PROVE TimerInv
  OBVIOUS
<1>1. ctx \in CtxType /\ at = "idle"
  BY DEF Init, NoCtx, CtxType
<1>2. a.timer = {} /\ a.timers_up = 0
  BY DEF Init
<1>3. TimerCount(a)
  BY <1>2, FS_EmptySet DEF TimerCount
<1>4. ~Waits(a)
  BY DEF Init, Waits, SentQueue, SendQueue
<1> QED
  BY <1>1, <1>3, <1>4 DEF TimerInv, ServedTimed, OutputTimed, EndTimed, IdleTimed

LEMMA TimerNext ==
  ASSUME SenderInv, QueueInv, TimerInv, [Next]_vars
  PROVE  TimerInv'
<1>1. CASE UserSend
  BY <1>1, UserSendKeepsTimers
<1>2. CASE ReceiveSack
  BY <1>2, SackKeepsTimers DEF ReceiveSack
<1>2a. CASE ReceiveShutdown
  BY <1>2a, ShutdownKeepsTimers DEF ReceiveShutdown
<1>3. ASSUME NEW n \in Nets, Expire(n) PROVE TimerInv'
  BY <1>3, ExpireKeepsTimers
<1>4. ASSUME NEW n \in Nets, Service(n) PROVE TimerInv'
  BY <1>4, ServiceKeepsTimers
<1>5. CASE ServiceDone
  BY <1>5, ServiceDoneKeepsTimers
<1>6. CASE Outputs
  BY <1>6, OutputsKeepTimers
<1>7. CASE Return
  BY <1>7, ReturnKeepsTimers
<1>8. CASE \/ \E t \in wire : Arrive(t) \/ LoseData(t)
           \/ PeerSack \/ PeerShutdown \/ Renege
           \/ \E s \in sacks : LoseSack(s)
           \/ UNCHANGED vars
  <2>1. UNCHANGED <<a, at, ctx>>
    BY <1>8 DEF Arrive, LoseData, PeerSack, PeerShutdown, Renege, LoseSack, sender, vars
  <2> QED
    BY <2>1 DEF TimerInv, ServedTimed, OutputTimed, EndTimed, IdleTimed
<1> QED
  BY <1>1, <1>2, <1>2a, <1>3, <1>4, <1>5, <1>6, <1>7, <1>8 DEF Next, Handler

LEMMA TimerInvariant ==
  ASSUME ~ProbeFails, ~FickleShuts
  PROVE  Spec => [](SenderInv /\ QueueInv /\ TimerInv)
<1>1. Init => TimerInv
  BY TimerInit
<1>2. SenderInv /\ QueueInv /\ TimerInv /\ [Next]_vars => TimerInv'
  BY TimerNext
<1>3. Spec => []SenderInv
  BY SenderInvariant
<1>4. Spec => []QueueInv
  BY QueueInvariant
<1> QED
  BY <1>1, <1>2, <1>3, <1>4, PTL DEF Spec

(***************************************************************************)
(* Between handlers a T3 timer runs while a chunk waits to be sent or to   *)
(* be acknowledged, so that no association hangs with data queued: through *)
(* the stops and starts of both SACK handlers, sends that fail and the     *)
(* safeguard of sctp_timeout_handler.  Window probes that can be sent are  *)
(* a hypothesis, as they are for the books on which the argument rests,    *)
(* and so is that a peer that shuts down reneges nothing.                  *)
(***************************************************************************)
THEOREM TimerAlwaysRuns ==
  ASSUME ~ProbeFails, ~FickleShuts
  PROVE  Spec => []SomeTimer
<1>1. TimerInv => SomeTimer
  BY DEF TimerInv, IdleTimed, Waits, SomeTimer
<1> QED
  BY <1>1, TimerInvariant, PTL

(***************************************************************************)
(* Under the same hypotheses the loop over the destinations in both SACK   *)
(* handlers finds data in flight or a retransmission is due, so that the   *)
(* branch that the code marks with "huh, this should not happen" is not    *)
(* reached and T3 is never stopped over a queue that still waits.          *)
(***************************************************************************)
THEOREM LoopAlwaysFindsData ==
  ASSUME ~ProbeFails, ~FickleShuts
  PROVE  Spec => []LoopFindsData
<1>1. SenderInv /\ QueueInv /\ TimerInv => LoopFindsData
  <2> SUFFICES ASSUME SenderInv, QueueInv, TimerInv,
                      at = "service", ctx.todo = {}, SentQueue(a) # {}
               PROVE  ctx.j \/ a.retran > 0
    BY DEF LoopFindsData
  <2>1. CASE InFlight(a) # {}
    <3>1. PICK n \in Nets : a.flight[n] > 0
      BY <2>1, FlightSeen
    <3> QED
      BY <3>1 DEF TimerInv, ServedTimed
  <2>2. CASE Resend(a) # {}
    <3>1. a.retran = Cardinality(Resend(a)) /\ Resend(a) \in SUBSET Tsns
      BY QueueParts DEF SenderInv, Books, Accounted, Booked
    <3>2. IsFiniteSet(Resend(a)) /\ Cardinality(Resend(a)) \in Nat
      BY <3>1, TsnsFinite, CardNat
    <3>3. Cardinality(Resend(a)) # 0
      BY <2>2, <3>2, FS_EmptySet
    <3> QED
      BY <3>1, <3>2, <3>3
  <2> QED
    BY <2>1, <2>2, QueueHead
<1> QED
  BY <1>1, TimerInvariant, PTL
=============================================================================

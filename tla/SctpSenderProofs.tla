-------------------------- MODULE SctpSenderProofs --------------------------
(***************************************************************************)
(* Theorems about SctpSender for every number of destinations, chunks,     *)
(* SACKs and faults: the books of the send side are exact.  The lemmas     *)
(* first say what each operator does to the books (flight sizes, the       *)
(* retransmission count, the probes) for arbitrary sets of chunks, then    *)
(* that each part of a handler keeps them, then that each action does.     *)
(***************************************************************************)
EXTENDS SctpSender, FiniteSetTheorems, WellFoundedInduction, TLAPS

-----------------------------------------------------------------------------
(* The invariant. *)

AnyStatus == Statuses \cup {"marked"}

SendSide ==
    [sent : [Tsns -> AnyStatus], whoTo : [Tsns -> Nets \cup {"none"}],
     queued : 0..MaxTsn, last : 0..MaxTsn,
     flight : [Nets -> Nat], total : Nat, retran : Nat,
     timer : SUBSET Nets, timers_up : Nat, young : SUBSET Tsns,
     revoked : SUBSET Tsns, probe : SUBSET Tsns, window_probe : SUBSET Nets,
     saw_frags : BOOLEAN, saw_nr_frags : BOOLEAN]

SackType == [cum : 0..MaxTsn, seg : SUBSET Tsns, nr : SUBSET Tsns]

\* The books of x say that F is in flight and R is marked for retransmission; a
\* window probe is in flight.
Booked(x, F, R) ==
    /\ Counts(x, F)
    /\ x.retran = Cardinality(R)
    /\ x.probe \subseteq F

\* Whatever is on the sent queue has a destination.
Addressed(x) == \A t \in SentQueue(x) : x.whoTo[t] \in Nets

Accounted(x) ==
    /\ x \in SendSide
    /\ Booked(x, InFlight(x), Resend(x))
    /\ Addressed(x)

Unmarked(x) == \A t \in Tsns : x.sent[t] # "marked"

Books == Accounted(a) /\ Unmarked(a)

\* What the peer has, and what is under way to it and from it.
UnderWay ==
    /\ got \subseteq Tsns /\ kept \subseteq got
    /\ wire \subseteq Tsns
    /\ sacks \subseteq SackType /\ shuts \subseteq 0..MaxTsn

SenderInv == Books /\ UnderWay

-----------------------------------------------------------------------------
(* Sets of chunks. *)

LEMMA TsnsFinite == IsFiniteSet(Tsns) /\ \A S \in SUBSET Tsns : IsFiniteSet(S)
<1>1. MaxTsn \in Nat
  BY SenderAssumption
<1>2. IsFiniteSet(Tsns)
  BY <1>1, FS_Interval DEF Tsns
<1> QED
  BY <1>2, FS_Subset

LEMMA CardNat == ASSUME NEW S \in SUBSET Tsns PROVE Cardinality(S) \in Nat
  BY TsnsFinite, FS_CardinalityType

LEMMA CardRemove ==
  ASSUME NEW F \in SUBSET Tsns, NEW S \in SUBSET F
  PROVE  /\ Cardinality(F \ S) = Cardinality(F) - Cardinality(S)
         /\ Cardinality(F \ S) \in Nat
<1>1. F \cap S = S /\ S \in SUBSET Tsns /\ F \ S \in SUBSET Tsns
  OBVIOUS
<1>2. IsFiniteSet(F)
  BY TsnsFinite
<1> QED
  BY <1>1, <1>2, FS_Difference, CardNat

LEMMA CardAdd ==
  ASSUME NEW F \in SUBSET Tsns, NEW S \in SUBSET Tsns, F \cap S = {}
  PROVE  /\ Cardinality(F \cup S) = Cardinality(F) + Cardinality(S)
         /\ Cardinality(F \cup S) \in Nat
<1>1. IsFiniteSet(F) /\ IsFiniteSet(S)
  BY TsnsFinite
<1>2. Cardinality({}) = 0
  BY FS_EmptySet
<1>3. F \cup S \in SUBSET Tsns
  OBVIOUS
<1>4. Cardinality(F) \in Nat /\ Cardinality(S) \in Nat /\ Cardinality(F \cup S) \in Nat
  BY <1>3, CardNat
<1>5. Cardinality(F \cup S) = Cardinality(F) + Cardinality(S) - Cardinality(F \cap S)
  BY <1>1, FS_Union
<1> QED
  BY <1>2, <1>4, <1>5

LEMMA FirstExists ==
  ASSUME NEW S \in SUBSET Tsns, S # {}
  PROVE  LET first == CHOOSE t \in Tsns : IsFirst(t, S) IN
         first \in S /\ IsFirst(first, S)
<1>1. S \subseteq Nat
  BY SenderAssumption DEF Tsns
<1>2. PICK t \in S : \A u \in S : ~(<<u, t>> \in OpToRel(<, Nat))
  BY <1>1, NatLessThanWellFounded, WFMin
<1>3. \A u \in S : ~(u < t)
  BY <1>1, <1>2 DEF OpToRel
<1>4. IsFirst(t, S) /\ t \in Tsns
  BY <1>1, <1>3 DEF IsFirst
<1> QED
  BY <1>4 DEF IsFirst

(* The peer's cumulative TSN is one. *)
LEMMA CumType ==
  ASSUME NEW S \in SUBSET Tsns
  PROVE  Cum(S) \in 0..MaxTsn /\ 1..Cum(S) \subseteq S /\ Cum(S) + 1 \notin S
<1> DEFINE Gaps == {k \in Nat : k + 1 \notin S}
<1>1. MaxTsn \in Nat
  BY SenderAssumption
<1>2. MaxTsn \in Gaps
  BY <1>1 DEF Tsns
<1>3. PICK k \in Gaps : \A j \in Gaps : ~(<<j, k>> \in OpToRel(<, Nat))
  BY <1>2, NatLessThanWellFounded, WFMin
<1>4. \A j \in Gaps : ~(j < k)
  BY <1>3 DEF OpToRel
<1>5. k \in 0..MaxTsn
  BY <1>1, <1>2, <1>4
<1>6. 1..k \subseteq S
  <2> SUFFICES ASSUME NEW i \in 1..k PROVE i \in S
    OBVIOUS
  <2>1. i - 1 \in Nat /\ i - 1 < k /\ (i - 1) + 1 = i
    BY <1>5, <1>1
  <2>2. i - 1 \notin Gaps
    BY <2>1, <1>4
  <2> QED
    BY <2>1, <2>2
<1>7. k + 1 \notin S
  OBVIOUS
<1> HIDE DEF Gaps
<1> QED
  BY <1>5, <1>6, <1>7 DEF Cum

-----------------------------------------------------------------------------
(* What each operator does to the books. *)

(* Operators that touch no book. *)
SameBooks(x, y) ==
    /\ y.sent = x.sent /\ y.whoTo = x.whoTo /\ y.flight = x.flight
    /\ y.total = x.total /\ y.retran = x.retran /\ y.probe = x.probe

LEMMA SameBooked ==
  ASSUME NEW x, NEW y, SameBooks(x, y), NEW F, NEW R
  PROVE  /\ Booked(x, F, R) => Booked(y, F, R)
         /\ InFlight(y) = InFlight(x) /\ Resend(y) = Resend(x)
         /\ SentQueue(y) = SentQueue(x)
         /\ Addressed(x) => Addressed(y)
         /\ Unmarked(x) => Unmarked(y)
<1> USE DEF SameBooks
<1>1. Booked(x, F, R) => Booked(y, F, R)
  BY DEF Booked, Counts, Of
<1>2. /\ InFlight(y) = InFlight(x) /\ Resend(y) = Resend(x)
      /\ SentQueue(y) = SentQueue(x)
  BY DEF InFlight, Resend, SentQueue
<1>3. Addressed(x) => Addressed(y)
  BY <1>2 DEF Addressed
<1> QED
  BY <1>1, <1>2, <1>3 DEF Unmarked

LEMMA SameAccounted ==
  ASSUME NEW x, NEW y \in SendSide, SameBooks(x, y), Accounted(x)
  PROVE  Accounted(y) /\ (Unmarked(x) => Unmarked(y))
  BY SameBooked DEF Accounted

LEMMA AgedBooks ==
  ASSUME NEW x \in SendSide, NEW N
  PROVE  Aged(x, N) \in SendSide /\ SameBooks(x, Aged(x, N))
<1>1. {t \in x.young : x.whoTo[t] \notin N} \in SUBSET Tsns
  BY DEF SendSide
<1> QED
  BY <1>1 DEF Aged, SendSide, SameBooks

LEMMA TimerFields ==
  ASSUME NEW x \in SendSide, NEW N \in SUBSET Nets, NEW k \in Nat
  PROVE  /\ [x EXCEPT !.timer = N, !.timers_up = k] \in SendSide
         /\ SameBooks(x, [x EXCEPT !.timer = N, !.timers_up = k])
         /\ [x EXCEPT !.timer = N] \in SendSide /\ SameBooks(x, [x EXCEPT !.timer = N])
  BY DEF SendSide, SameBooks

LEMMA TimerBooks ==
  ASSUME NEW x \in SendSide
  PROVE  /\ \A n \in Nets :
              /\ TimerStart(x, n) \in SendSide /\ SameBooks(x, TimerStart(x, n))
              /\ OsTimerStart(x, n) \in SendSide /\ SameBooks(x, OsTimerStart(x, n))
              /\ TimerValidation(x, n) \in SendSide /\ SameBooks(x, TimerValidation(x, n))
         /\ \A N \in SUBSET Nets :
              TimerStop(x, N) \in SendSide /\ SameBooks(x, TimerStop(x, N))
<1>1. ASSUME NEW n \in Nets
      PROVE  /\ TimerStart(x, n) \in SendSide /\ SameBooks(x, TimerStart(x, n))
             /\ OsTimerStart(x, n) \in SendSide /\ SameBooks(x, OsTimerStart(x, n))
  <2> DEFINE y == [x EXCEPT !.timer = @ \cup {n}, !.timers_up = @ + 1]
             z == [x EXCEPT !.timer = @ \cup {n}]
  <2>1. y \in SendSide /\ SameBooks(x, y) /\ z \in SendSide /\ SameBooks(x, z)
    <3>1. x.timer \cup {n} \in SUBSET Nets /\ x.timers_up + 1 \in Nat
      BY DEF SendSide
    <3> QED
      BY <3>1, TimerFields
  <2>2. /\ TimerStart(x, n) = IF n \in x.timer THEN x ELSE Aged(y, {n})
        /\ OsTimerStart(x, n) = Aged(z, {n})
    BY DEF TimerStart, OsTimerStart
  <2> HIDE DEF y, z
  <2> QED
    BY <2>1, <2>2, AgedBooks DEF SameBooks
<1>2. ASSUME NEW n \in Nets
      PROVE  TimerValidation(x, n) \in SendSide /\ SameBooks(x, TimerValidation(x, n))
  BY <1>1 DEF TimerValidation, SameBooks
<1>3. ASSUME NEW N \in SUBSET Nets
      PROVE  TimerStop(x, N) \in SendSide /\ SameBooks(x, TimerStop(x, N))
  <2>1. Cardinality(N) \in Nat
    BY SenderAssumption, FS_Subset, FS_CardinalityType
  <2>2. Floor(x.timers_up - Cardinality(N)) \in Nat
    BY <2>1 DEF Floor, SendSide
  <2> QED
    <3>1. x.timer \ N \in SUBSET Nets
      BY DEF SendSide
    <3> QED
      BY <2>2, <3>1, TimerFields DEF TimerStop
<1> QED
  BY <1>1, <1>2, <1>3

LEMMA DeflateBooks ==
  ASSUME NEW x \in SendSide, NEW S \in SUBSET Tsns
  PROVE  /\ Deflate(x, S) \in SendSide /\ SameBooks(x, Deflate(x, S))
         /\ Inflate(x, S) \in SendSide /\ SameBooks(x, Inflate(x, S))
  BY DEF Deflate, Inflate, SendSide, SameBooks

LEMMA OfSubset ==
  ASSUME NEW x, NEW F \in SUBSET Tsns, NEW S \in SUBSET Tsns, NEW n
  PROVE  /\ Of(x, F, n) \in SUBSET Tsns /\ Of(x, S, n) \in SUBSET Tsns
         /\ Of(x, F \ S, n) = Of(x, F, n) \ Of(x, S, n)
         /\ Of(x, F \cup S, n) = Of(x, F, n) \cup Of(x, S, n)
         /\ S \subseteq F => Of(x, S, n) \subseteq Of(x, F, n)
         /\ F \cap S = {} => Of(x, F, n) \cap Of(x, S, n) = {}
  BY DEF Of

LEMMA FlightDecreaseBooks ==
  ASSUME NEW x \in SendSide, NEW F \in SUBSET Tsns, NEW R, NEW S \in SUBSET F,
         Booked(x, F, R)
  PROVE  LET y == FlightDecrease(x, S) IN
         /\ y \in SendSide /\ y.sent = x.sent /\ y.whoTo = x.whoTo
         /\ Booked(y, F \ S, R)
<1> DEFINE y == FlightDecrease(x, S)
<1>1. S \in SUBSET Tsns /\ F \ S \in SUBSET Tsns
  OBVIOUS
<1>2. x.total - Cardinality(S) = Cardinality(F \ S) /\ Cardinality(F \ S) \in Nat
  BY CardRemove DEF Booked, Counts
<1>3. ASSUME NEW n \in Nets
      PROVE  /\ x.flight[n] - Cardinality(Of(x, S, n)) = Cardinality(Of(x, F \ S, n))
             /\ Cardinality(Of(x, F \ S, n)) \in Nat
  <2>1. x.flight[n] = Cardinality(Of(x, F, n))
    BY DEF Booked, Counts
  <2>2. Of(x, F, n) \in SUBSET Tsns /\ Of(x, S, n) \in SUBSET Of(x, F, n)
    BY <1>1, OfSubset
  <2>3. Of(x, F \ S, n) = Of(x, F, n) \ Of(x, S, n)
    BY <1>1, OfSubset
  <2> QED
    BY <2>1, <2>2, <2>3, CardRemove
<1>4. /\ \A n \in Nets : Floor(x.flight[n] - Cardinality(Of(x, S, n)))
                          = Cardinality(Of(x, F \ S, n))
      /\ Floor(x.total - Cardinality(S)) = Cardinality(F \ S)
  <2>1. \A k \in Nat : Floor(k) = k
    BY DEF Floor
  <2> QED
    BY <1>2, <1>3, <2>1
<1>5. /\ [n \in Nets |-> Floor(x.flight[n] - Cardinality(Of(x, S, n)))]
            = [n \in Nets |-> Cardinality(Of(x, F \ S, n))]
      /\ y = [x EXCEPT !.flight = [n \in Nets |-> Floor(x.flight[n] - Cardinality(Of(x, S, n)))],
                       !.total = Floor(x.total - Cardinality(S)),
                       !.probe = x.probe \ S]
  BY <1>4 DEF FlightDecrease
<1>6. /\ y \in SendSide /\ y.sent = x.sent /\ y.whoTo = x.whoTo
      /\ y.flight = [n \in Nets |-> Cardinality(Of(x, F \ S, n))]
      /\ y.total = Cardinality(F \ S)
      /\ y.probe = x.probe \ S /\ y.retran = x.retran
  <2> DEFINE f == [n \in Nets |-> Cardinality(Of(x, F \ S, n))]
             k == Cardinality(F \ S)
             P == x.probe \ S
  <2>1. f \in [Nets -> Nat] /\ k \in Nat /\ P \in SUBSET Tsns
    BY <1>2, <1>3 DEF SendSide
  <2>2. y = [x EXCEPT !.flight = f, !.total = k, !.probe = P]
    BY <1>4, <1>5
  <2> HIDE DEF f, k, P, y
  <2>3. /\ y \in SendSide /\ y.sent = x.sent /\ y.whoTo = x.whoTo
        /\ y.flight = f /\ y.total = k /\ y.probe = P /\ y.retran = x.retran
    BY <2>1, <2>2 DEF SendSide
  <2> QED
    BY <2>3 DEF f, k, P
<1> HIDE DEF y
<1>7. Booked(y, F \ S, R)
  BY <1>6 DEF Booked, Counts, Of
<1> QED
  BY <1>6, <1>7 DEF y

LEMMA FlightIncreaseBooks ==
  ASSUME NEW x \in SendSide, NEW F \in SUBSET Tsns, NEW R, NEW S \in SUBSET Tsns,
         F \cap S = {}, Counts(x, F), x.retran = Cardinality(R), x.probe \subseteq F \cup S
  PROVE  LET y == FlightIncrease(x, S) IN
         /\ y \in SendSide /\ y.sent = x.sent /\ y.whoTo = x.whoTo
         /\ Booked(y, F \cup S, R)
<1> DEFINE y == FlightIncrease(x, S)
<1>2. x.total + Cardinality(S) = Cardinality(F \cup S) /\ Cardinality(F \cup S) \in Nat
  BY CardAdd DEF Counts
<1>3. ASSUME NEW n \in Nets
      PROVE  /\ x.flight[n] + Cardinality(Of(x, S, n)) = Cardinality(Of(x, F \cup S, n))
             /\ Cardinality(Of(x, F \cup S, n)) \in Nat
  <2>1. x.flight[n] = Cardinality(Of(x, F, n))
    BY DEF Counts
  <2>2. /\ Of(x, F, n) \in SUBSET Tsns /\ Of(x, S, n) \in SUBSET Tsns
        /\ Of(x, F, n) \cap Of(x, S, n) = {}
    BY OfSubset
  <2>3. Of(x, F \cup S, n) = Of(x, F, n) \cup Of(x, S, n)
    BY OfSubset
  <2> QED
    BY <2>1, <2>2, <2>3, CardAdd
<1>5. /\ [n \in Nets |-> x.flight[n] + Cardinality(Of(x, S, n))]
            = [n \in Nets |-> Cardinality(Of(x, F \cup S, n))]
      /\ y = [x EXCEPT !.flight = [n \in Nets |-> x.flight[n] + Cardinality(Of(x, S, n))],
                       !.total = x.total + Cardinality(S)]
  BY <1>2, <1>3 DEF FlightIncrease
<1>6. /\ y \in SendSide /\ y.sent = x.sent /\ y.whoTo = x.whoTo
      /\ y.flight = [n \in Nets |-> Cardinality(Of(x, F \cup S, n))]
      /\ y.total = Cardinality(F \cup S)
      /\ y.probe = x.probe /\ y.retran = x.retran
  <2> DEFINE f == [n \in Nets |-> Cardinality(Of(x, F \cup S, n))]
             k == Cardinality(F \cup S)
  <2>1. f \in [Nets -> Nat] /\ k \in Nat
    BY <1>2, <1>3
  <2>2. y = [x EXCEPT !.flight = f, !.total = k]
    BY <1>2, <1>5
  <2> HIDE DEF f, k, y
  <2>3. /\ y \in SendSide /\ y.sent = x.sent /\ y.whoTo = x.whoTo
        /\ y.flight = f /\ y.total = k /\ y.probe = x.probe /\ y.retran = x.retran
    BY <2>1, <2>2 DEF SendSide
  <2> QED
    BY <2>3 DEF f, k
<1> HIDE DEF y
<1>7. Booked(y, F \cup S, R)
  BY <1>6 DEF Booked, Counts, Of
<1> QED
  BY <1>6, <1>7 DEF y

LEMMA RetranFields ==
  ASSUME NEW x \in SendSide, NEW k \in Nat
  PROVE  LET y == [x EXCEPT !.retran = k] IN
         /\ y \in SendSide /\ y.sent = x.sent /\ y.whoTo = x.whoTo
         /\ y.flight = x.flight /\ y.total = x.total /\ y.probe = x.probe /\ y.retran = k
  BY DEF SendSide

LEMMA RetranSet ==
  ASSUME NEW x \in SendSide, NEW F, NEW R, NEW Q, Cardinality(Q) \in Nat,
         Booked(x, F, R), NEW y, y = [x EXCEPT !.retran = Cardinality(Q)]
  PROVE  /\ y \in SendSide /\ y.sent = x.sent /\ y.whoTo = x.whoTo
         /\ Booked(y, F, Q)
<1>1. /\ y \in SendSide /\ y.sent = x.sent /\ y.whoTo = x.whoTo
      /\ y.flight = x.flight /\ y.total = x.total /\ y.probe = x.probe
      /\ y.retran = Cardinality(Q)
  BY RetranFields
<1> QED
  BY <1>1 DEF Booked, Counts, Of

LEMMA RetranDecreaseBooks ==
  ASSUME NEW x \in SendSide, NEW F, NEW R \in SUBSET Tsns, NEW Q \in SUBSET R,
         Booked(x, F, R)
  PROVE  LET y == RetranDecrease(x, Cardinality(Q)) IN
         /\ y \in SendSide /\ y.sent = x.sent /\ y.whoTo = x.whoTo
         /\ Booked(y, F, R \ Q)
<1>1. x.retran - Cardinality(Q) = Cardinality(R \ Q) /\ Cardinality(R \ Q) \in Nat
  BY CardRemove DEF Booked
<1>2. Floor(x.retran - Cardinality(Q)) = Cardinality(R \ Q)
  BY <1>1 DEF Floor
<1>3. RetranDecrease(x, Cardinality(Q)) = [x EXCEPT !.retran = Cardinality(R \ Q)]
  BY <1>2 DEF RetranDecrease
<1> QED
  BY <1>1, <1>3, RetranSet

LEMMA RetranIncreaseBooks ==
  ASSUME NEW x \in SendSide, NEW F, NEW R \in SUBSET Tsns, NEW Q \in SUBSET Tsns,
         R \cap Q = {}, Booked(x, F, R)
  PROVE  LET y == RetranIncrease(x, Cardinality(Q)) IN
         /\ y \in SendSide /\ y.sent = x.sent /\ y.whoTo = x.whoTo
         /\ Booked(y, F, R \cup Q)
<1>1. x.retran + Cardinality(Q) = Cardinality(R \cup Q) /\ Cardinality(R \cup Q) \in Nat
  BY CardAdd DEF Booked
<1>2. RetranIncrease(x, Cardinality(Q)) = [x EXCEPT !.retran = Cardinality(R \cup Q)]
  BY <1>1 DEF RetranIncrease
<1> QED
  BY <1>1, <1>2, RetranSet

(* y is x with the chunks of S marked st. *)
Remarked(x, y, S, st) ==
    /\ y \in SendSide /\ y.whoTo = x.whoTo /\ y.probe = x.probe /\ y.retran = x.retran
    /\ \A t \in Tsns : y.sent[t] = IF t \in S THEN st ELSE x.sent[t]
    /\ InFlight(y) = IF st = "sent" THEN InFlight(x) \cup S ELSE InFlight(x) \ S
    /\ Resend(y) = IF st = "resend" THEN Resend(x) \cup S ELSE Resend(x) \ S
    /\ \A F : Counts(x, F) => Counts(y, F)
    /\ \A F, R : Booked(x, F, R) => Booked(y, F, R)

LEMMA MarkBooks ==
  ASSUME NEW x \in SendSide, NEW S \in SUBSET Tsns, NEW st \in AnyStatus
  PROVE  Remarked(x, Mark(x, S, st), S, st)
<1> DEFINE y == Mark(x, S, st)
<1>1. /\ y \in SendSide /\ y.whoTo = x.whoTo
      /\ \A t \in Tsns : y.sent[t] = IF t \in S THEN st ELSE x.sent[t]
      /\ y.flight = x.flight /\ y.total = x.total /\ y.retran = x.retran
      /\ y.probe = x.probe
  BY DEF Mark, SendSide
<1> HIDE DEF y
<1>2. InFlight(y) = IF st = "sent" THEN InFlight(x) \cup S ELSE InFlight(x) \ S
  BY <1>1 DEF InFlight
<1>3. Resend(y) = IF st = "resend" THEN Resend(x) \cup S ELSE Resend(x) \ S
  BY <1>1 DEF Resend
<1>4. ASSUME NEW F PROVE Counts(x, F) => Counts(y, F)
  BY <1>1 DEF Counts, Of
<1> QED
  BY <1>1, <1>2, <1>3, <1>4 DEF y, Booked, Remarked

LEMMA FreeBooks ==
  ASSUME NEW x \in SendSide, NEW S \in SUBSET Tsns, NEW F \in SUBSET Tsns, NEW R,
         F \cap S = {}, Booked(x, F, R)
  PROVE  LET y == Free(x, S) IN
         /\ y \in SendSide
         /\ \A t \in Tsns : y.sent[t] = IF t \in S THEN "freed" ELSE x.sent[t]
         /\ \A t \in Tsns : t \notin S => y.whoTo[t] = x.whoTo[t]
         /\ Booked(y, F, R)
<1> DEFINE z == Mark(x, S, "freed")
           w == [t \in Tsns |-> IF t \in S THEN "none" ELSE z.whoTo[t]]
           P == z.probe \ S
           Y == z.young \ S
           y == Free(x, S)
<1>1. /\ z \in SendSide /\ z.whoTo = x.whoTo
      /\ \A t \in Tsns : z.sent[t] = IF t \in S THEN "freed" ELSE x.sent[t]
      /\ Booked(z, F, R)
  BY MarkBooks DEF Remarked, AnyStatus, Statuses
<1>2. y = [z EXCEPT !.whoTo = w, !.probe = P, !.young = Y]
  BY DEF Free
<1> HIDE DEF z
<1>3. /\ w \in [Tsns -> Nets \cup {"none"}] /\ P \in SUBSET Tsns /\ Y \in SUBSET Tsns
      /\ P \subseteq F
      /\ \A t \in Tsns : t \notin S => w[t] = z.whoTo[t]
  BY <1>1 DEF SendSide, Booked
<1> HIDE DEF w, P, Y, y
<1>4. /\ y \in SendSide /\ y.sent = z.sent /\ y.whoTo = w /\ y.probe = P
      /\ y.flight = z.flight /\ y.total = z.total /\ y.retran = z.retran
  BY <1>1, <1>2, <1>3 DEF SendSide
<1>5. \A n \in Nets : Of(y, F, n) = Of(z, F, n)
  BY <1>3, <1>4 DEF Of
<1>6. Booked(y, F, R)
  BY <1>1, <1>3, <1>4, <1>5 DEF Booked, Counts
<1> QED
  BY <1>1, <1>3, <1>4, <1>6 DEF y

LEMMA QueueParts ==
  ASSUME NEW x
  PROVE  /\ InFlight(x) \in SUBSET Tsns /\ Resend(x) \in SUBSET Tsns
         /\ SentQueue(x) \in SUBSET Tsns
         /\ InFlight(x) \cap Resend(x) = {}
         /\ InFlight(x) \subseteq SentQueue(x) /\ Resend(x) \subseteq SentQueue(x)
  BY DEF InFlight, Resend, SentQueue

LEMMA LeaveBooks ==
  ASSUME NEW x \in SendSide, NEW S \in SUBSET Tsns, Booked(x, InFlight(x), Resend(x))
  PROVE  LET y == Leave(x, S) IN
         /\ y \in SendSide /\ y.sent = x.sent /\ y.whoTo = x.whoTo
         /\ Booked(y, InFlight(x) \ S, Resend(x) \ S)
<1> DEFINE F == InFlight(x)
           R == Resend(x)
           u == FlightDecrease(x, S \cap F)
           v == RetranDecrease(u, Cardinality(S \cap R))
<1>1. F \in SUBSET Tsns /\ R \in SUBSET Tsns
  BY QueueParts
<1> HIDE DEF F, R
<1>2. Booked(x, F, R)
  BY DEF F, R
<1>3. /\ S \cap F \in SUBSET F /\ F \ (S \cap F) = F \ S
      /\ S \cap R \in SUBSET R /\ R \ (S \cap R) = R \ S
  OBVIOUS
<1>4. u \in SendSide /\ u.sent = x.sent /\ u.whoTo = x.whoTo /\ Booked(u, F \ S, R)
  <2>1. /\ u \in SendSide /\ u.sent = x.sent /\ u.whoTo = x.whoTo
        /\ Booked(u, F \ (S \cap F), R)
    BY <1>1, <1>2, <1>3, FlightDecreaseBooks
  <2> QED
    BY <2>1, <1>3
<1> HIDE DEF u
<1>5. v \in SendSide /\ v.sent = x.sent /\ v.whoTo = x.whoTo /\ Booked(v, F \ S, R \ S)
  <2>1. /\ v \in SendSide /\ v.sent = u.sent /\ v.whoTo = u.whoTo
        /\ Booked(v, F \ S, R \ (S \cap R))
    BY <1>1, <1>3, <1>4, RetranDecreaseBooks
  <2> QED
    BY <2>1, <1>3, <1>4
<1>6. Leave(x, S) = Deflate(v, S)
  BY DEF Leave, u, v, F, R
<1> HIDE DEF v
<1>7. Deflate(v, S) \in SendSide /\ SameBooks(v, Deflate(v, S))
  BY <1>5, DeflateBooks
<1>8. Booked(Deflate(v, S), F \ S, R \ S)
  BY <1>5, <1>7, SameBooked
<1> QED
  BY <1>5, <1>6, <1>7, <1>8 DEF SameBooks, F, R

-----------------------------------------------------------------------------
(* The parts of a handler. *)

(* Chunks S of an accounted x leave the books, and become what S says. *)
LEMMA LeaveAccounted ==
  ASSUME NEW x, Accounted(x), NEW S \in SUBSET SentQueue(x),
         NEW y \in SendSide,
         Booked(y, InFlight(x) \ S, Resend(x) \ S),
         \A t \in Tsns : t \notin S => y.sent[t] = x.sent[t] /\ y.whoTo[t] = x.whoTo[t],
         \A t \in S : y.sent[t] \notin {"sent", "resend"},
         \A t \in S : y.sent[t] # "freed" => y.whoTo[t] = x.whoTo[t]
  PROVE  Accounted(y) /\ InFlight(y) = InFlight(x) \ S /\ Resend(y) = Resend(x) \ S
<1>1. InFlight(y) = InFlight(x) \ S
  BY DEF InFlight, SentQueue
<1>2. Resend(y) = Resend(x) \ S
  BY DEF Resend, SentQueue
<1>3. Addressed(y)
  BY DEF Addressed, SentQueue, Accounted
<1> QED
  BY <1>1, <1>2, <1>3 DEF Accounted

LEMMA LastBooks ==
  ASSUME NEW x \in SendSide, NEW k \in 0..MaxTsn
  PROVE  [x EXCEPT !.last = k] \in SendSide /\ SameBooks(x, [x EXCEPT !.last = k])
  BY DEF SendSide, SameBooks

LEMMA NoneInFlight ==
  ASSUME NEW x, Accounted(x), InFlight(x) = {}
  PROVE  /\ NothingInFlight(x) \in SendSide /\ SameBooks(x, NothingInFlight(x))
         /\ [x EXCEPT !.total = 0] \in SendSide /\ SameBooks(x, [x EXCEPT !.total = 0])
<1>1. x \in SendSide
  BY DEF Accounted
<1>2. x.total = 0 /\ \A n \in Nets : x.flight[n] = 0
  <2>1. Cardinality({}) = 0
    BY FS_EmptySet
  <2>2. \A n \in Nets : Of(x, {}, n) = {}
    BY DEF Of
  <2> QED
    BY <2>1, <2>2 DEF Accounted, Booked, Counts
<1> DEFINE f == [n \in Nets |-> 0]
<1>3. f = x.flight /\ f \in [Nets -> Nat]
  BY <1>1, <1>2 DEF SendSide
<1>4. NothingInFlight(x) = [x EXCEPT !.flight = f, !.total = 0]
  BY DEF NothingInFlight
<1> HIDE DEF f
<1>5. NothingInFlight(x) \in SendSide /\ SameBooks(x, NothingInFlight(x))
  <2> DEFINE y == NothingInFlight(x)
  <2>1. y = [x EXCEPT !.flight = f, !.total = 0]
    BY <1>4
  <2> HIDE DEF y
  <2>2. /\ y \in SendSide /\ y.sent = x.sent /\ y.whoTo = x.whoTo /\ y.flight = f
        /\ y.total = 0 /\ y.retran = x.retran /\ y.probe = x.probe
    BY <1>1, <1>3, <2>1 DEF SendSide
  <2> QED
    BY <1>2, <1>3, <2>2 DEF y, SameBooks
<1>6. [x EXCEPT !.total = 0] \in SendSide /\ SameBooks(x, [x EXCEPT !.total = 0])
  BY <1>1, <1>2 DEF SendSide, SameBooks
<1> QED
  BY <1>5, <1>6

LEMMA RecountSame ==
  ASSUME NEW x, Accounted(x)
  PROVE  Recount(x) \in SendSide /\ SameBooks(x, Recount(x))
<1> DEFINE f0 == [n \in Nets |-> 0]
           y == NothingInFlight(x)
           F == InFlight(x)
           f == [n \in Nets |-> y.flight[n] + Cardinality(Of(y, F, n))]
           k == y.total + Cardinality(F)
           z == Recount(x)
<1>1. x \in SendSide /\ Counts(x, F)
  BY DEF Accounted, Booked
<1>2. y = [x EXCEPT !.flight = f0, !.total = 0]
  BY DEF NothingInFlight
<1>3. z = [y EXCEPT !.flight = f, !.total = k]
  BY DEF Recount, FlightIncrease
<1>4. f0 \in [Nets -> Nat] /\ \A n \in Nets : f0[n] = 0
  OBVIOUS
<1> HIDE DEF f0, y
<1>5. /\ y \in SendSide /\ y.sent = x.sent /\ y.whoTo = x.whoTo /\ y.flight = f0
      /\ y.total = 0 /\ y.retran = x.retran /\ y.probe = x.probe
  BY <1>1, <1>2, <1>4 DEF SendSide
<1>6. F \in SUBSET Tsns /\ Cardinality(F) \in Nat
  BY QueueParts, CardNat
<1>7. \A n \in Nets : Of(y, F, n) = Of(x, F, n) /\ Of(x, F, n) \in SUBSET Tsns
  BY <1>5, <1>6 DEF Of
<1> HIDE DEF F
<1>8. k = x.total /\ k \in Nat
  BY <1>1, <1>5, <1>6 DEF Counts
<1>9. \A n \in Nets : y.flight[n] + Cardinality(Of(y, F, n)) = x.flight[n]
  <2> SUFFICES ASSUME NEW n \in Nets
               PROVE  y.flight[n] + Cardinality(Of(y, F, n)) = x.flight[n]
    OBVIOUS
  <2>1. Cardinality(Of(x, F, n)) \in Nat
    BY <1>7, CardNat
  <2>2. x.flight[n] = Cardinality(Of(x, F, n))
    BY <1>1 DEF Counts
  <2> QED
    BY <1>4, <1>5, <1>7, <2>1, <2>2
<1>10. f = x.flight /\ f \in [Nets -> Nat]
  BY <1>1, <1>9 DEF SendSide
<1> HIDE DEF f, k, z
<1>11. /\ z \in SendSide /\ z.sent = y.sent /\ z.whoTo = y.whoTo /\ z.flight = f
       /\ z.total = k /\ z.retran = y.retran /\ z.probe = y.probe
  BY <1>3, <1>5, <1>8, <1>10 DEF SendSide
<1> QED
  BY <1>5, <1>8, <1>10, <1>11 DEF SameBooks, z

LEMMA ExpressAckKeeps ==
  ASSUME NEW x, Accounted(x), Unmarked(x), NEW k \in 0..MaxTsn
  PROVE  Accounted(ExpressAck(x, k)) /\ Unmarked(ExpressAck(x, k))
<1> DEFINE S == {t \in SentQueue(x) : t <= k}
           u == Leave(x, S)
           v == Free(u, S)
           w == [v EXCEPT !.last = k]
<1>1. S \in SUBSET SentQueue(x) /\ S \in SUBSET Tsns
  BY QueueParts
<1> HIDE DEF S
<1>2. x \in SendSide /\ Booked(x, InFlight(x), Resend(x))
  BY DEF Accounted
<1>3. /\ u \in SendSide /\ u.sent = x.sent /\ u.whoTo = x.whoTo
      /\ Booked(u, InFlight(x) \ S, Resend(x) \ S)
  BY <1>1, <1>2, LeaveBooks
<1> HIDE DEF u
<1>4. /\ v \in SendSide
      /\ \A t \in Tsns : v.sent[t] = IF t \in S THEN "freed" ELSE u.sent[t]
      /\ \A t \in Tsns : t \notin S => v.whoTo[t] = u.whoTo[t]
      /\ Booked(v, InFlight(x) \ S, Resend(x) \ S)
  <2>1. InFlight(x) \ S \in SUBSET Tsns /\ (InFlight(x) \ S) \cap S = {}
    BY QueueParts
  <2> QED
    BY <1>1, <1>3, <2>1, FreeBooks
<1> HIDE DEF v
<1>5. Accounted(v) /\ Unmarked(v)
  <2>1. /\ \A t \in Tsns : t \notin S => v.sent[t] = x.sent[t] /\ v.whoTo[t] = x.whoTo[t]
        /\ \A t \in S : v.sent[t] = "freed"
    BY <1>1, <1>3, <1>4
  <2>2. Unmarked(v)
    BY <2>1 DEF Unmarked
  <2> QED
    BY <1>1, <1>4, <2>1, <2>2, LeaveAccounted
<1>6. Accounted(w) /\ Unmarked(w)
  BY <1>1, <1>4, <1>5, LastBooks, SameAccounted
<1>7. ExpressAck(x, k) = IF SentQueue(w) = {} THEN NothingInFlight(w) ELSE w
  BY DEF ExpressAck, S, u, v
<1> HIDE DEF w
<1>8. SentQueue(w) = {} => InFlight(w) = {}
  BY QueueParts
<1> QED
  BY <1>6, <1>7, <1>8, NoneInFlight, SameAccounted

(* Nothing that the cumulative TSN covers is outstanding any more. *)
Settled(x, s) == \A t \in Tsns : t <= s.cum => x.sent[t] \notin {"sent", "resend"}

LEMMA CumAckKeeps ==
  ASSUME NEW x, Accounted(x), Unmarked(x), NEW s \in SackType
  PROVE  Accounted(CumAck(x, s)) /\ Unmarked(CumAck(x, s)) /\ Settled(CumAck(x, s), s)
<1> DEFINE S == {t \in SentQueue(x) : t <= s.cum}
           M == {t \in S : x.sent[t] # "nracked"}
           u == Leave(x, S)
           v == Mark(u, M, "acked")
<1>1. S \in SUBSET SentQueue(x) /\ S \in SUBSET Tsns /\ M \in SUBSET Tsns
  BY QueueParts
<1>2. x \in SendSide /\ Booked(x, InFlight(x), Resend(x))
  BY DEF Accounted
<1>3. /\ u \in SendSide /\ u.sent = x.sent /\ u.whoTo = x.whoTo
      /\ Booked(u, InFlight(x) \ S, Resend(x) \ S)
  BY <1>1, <1>2, LeaveBooks
<1> HIDE DEF u
<1>4. /\ v \in SendSide /\ v.whoTo = u.whoTo
      /\ \A t \in Tsns : v.sent[t] = IF t \in M THEN "acked" ELSE u.sent[t]
      /\ Booked(v, InFlight(x) \ S, Resend(x) \ S)
  BY <1>1, <1>3, MarkBooks DEF Remarked, AnyStatus, Statuses
<1>5. CumAck(x, s) = v
  BY DEF CumAck, u
<1> HIDE DEF v
<1>6. /\ \A t \in Tsns : t \notin S => v.sent[t] = x.sent[t] /\ v.whoTo[t] = x.whoTo[t]
      /\ \A t \in S : v.sent[t] \in {"acked", "nracked"} /\ v.whoTo[t] = x.whoTo[t]
  BY <1>1, <1>3, <1>4
<1>7. Unmarked(v)
  BY <1>6 DEF Unmarked
<1>8. Settled(v, s)
  BY <1>6 DEF Settled, SentQueue
<1> HIDE DEF S
<1> QED
  BY <1>1, <1>4, <1>5, <1>6, <1>7, <1>8, LeaveAccounted

(* Chunks are marked only while a SACK with gap-ack blocks is handled. *)
LEMMA SegmentsKeeps ==
  ASSUME NEW x, Accounted(x), Unmarked(x), NEW s \in SackType, Settled(x, s)
  PROVE  LET y == Segments(x, s) IN
         Accounted(y) /\ (s.seg = {} => Unmarked(y)) /\ Settled(y, s)
<1> DEFINE seg == s.seg \cap SentQueue(x)
           nr == s.nr \cap SentQueue(x)
           S == seg \cup nr
           M == {t \in seg : x.sent[t] # "nracked"}
           u == Leave(x, S)
           v == Mark(u, M, "marked")
           w == Mark(v, nr, "nracked")
<1>1. /\ S \in SUBSET SentQueue(x) /\ S \in SUBSET Tsns /\ M \in SUBSET Tsns
      /\ nr \in SUBSET Tsns
  BY QueueParts
<1>2. x \in SendSide /\ Booked(x, InFlight(x), Resend(x))
  BY DEF Accounted
<1> DEFINE F == InFlight(x) \ S
           R == Resend(x) \ S
<1>3. /\ u \in SendSide /\ u.sent = x.sent /\ u.whoTo = x.whoTo /\ Booked(u, F, R)
  BY <1>1, <1>2, LeaveBooks
<1> HIDE DEF u, F, R
<1>4. /\ v \in SendSide /\ v.whoTo = u.whoTo /\ Booked(v, F, R)
      /\ \A t \in Tsns : v.sent[t] = IF t \in M THEN "marked" ELSE u.sent[t]
  <2>1. "marked" \in AnyStatus
    BY DEF AnyStatus
  <2> HIDE DEF M
  <2> QED
    <3>1. Remarked(u, v, M, "marked")
      BY <1>1, <1>3, <2>1, MarkBooks
    <3> HIDE DEF v
    <3> QED
      BY <1>3, <3>1 DEF Remarked
<1> HIDE DEF v
<1>5. /\ w \in SendSide /\ w.whoTo = v.whoTo /\ Booked(w, F, R)
      /\ \A t \in Tsns : w.sent[t] = IF t \in nr THEN "nracked" ELSE v.sent[t]
  BY <1>1, <1>4, MarkBooks DEF Remarked, AnyStatus, Statuses
<1>6. Segments(x, s) = w
  BY DEF Segments, u, v
<1> HIDE DEF w
<1>7. /\ \A t \in Tsns : t \notin S => w.sent[t] = x.sent[t] /\ w.whoTo[t] = x.whoTo[t]
      /\ \A t \in S : w.sent[t] \in {"marked", "nracked"} /\ w.whoTo[t] = x.whoTo[t]
  BY <1>1, <1>3, <1>4, <1>5
<1>8. s.seg = {} => Unmarked(w)
  <2> SUFFICES ASSUME s.seg = {}, NEW t \in Tsns PROVE w.sent[t] # "marked"
    BY DEF Unmarked
  <2>1. M = {}
    OBVIOUS
  <2> QED
    BY <1>3, <1>4, <1>5, <2>1 DEF Unmarked
<1>9. Settled(w, s)
  BY <1>7 DEF Settled
<1> HIDE DEF S
<1>10. Accounted(w)
  BY <1>1, <1>5, <1>7, LeaveAccounted DEF F, R
<1> QED
  BY <1>6, <1>8, <1>9, <1>10

LEMMA FreeAckedKeeps ==
  ASSUME NEW x, Accounted(x), NEW s \in SackType, Settled(x, s)
  PROVE  LET y == FreeAcked(x, s) IN Accounted(y) /\ (Unmarked(x) => Unmarked(y))
<1> DEFINE y == IF \E t \in SentQueue(x) : t <= s.cum THEN TimerStop(x, Nets) ELSE x
           S == {t \in SentQueue(y) : t <= s.cum}
           v == Free(y, S)
           z == [v EXCEPT !.last = s.cum]
<1>1. Accounted(y) /\ SameBooks(x, y)
  <2>1. x \in SendSide /\ SameBooks(x, x)
    BY DEF Accounted, SameBooks
  <2>2. TimerStop(x, Nets) \in SendSide /\ SameBooks(x, TimerStop(x, Nets))
    BY <2>1, TimerBooks
  <2> QED
    BY <2>1, <2>2, SameAccounted
<1>2. FreeAcked(x, s) = IF SentQueue(z) = {} THEN [z EXCEPT !.total = 0] ELSE z
  BY DEF FreeAcked
<1> HIDE DEF y
<1>3. /\ S \in SUBSET SentQueue(y) /\ S \in SUBSET Tsns /\ s.cum \in 0..MaxTsn
  BY QueueParts DEF SackType
<1>4. InFlight(y) \cap S = {} /\ Resend(y) \cap S = {}
  BY <1>1 DEF Settled, SameBooks, InFlight, Resend
<1> HIDE DEF S
<1>5. /\ v \in SendSide
      /\ \A t \in Tsns : v.sent[t] = IF t \in S THEN "freed" ELSE y.sent[t]
      /\ \A t \in Tsns : t \notin S => v.whoTo[t] = y.whoTo[t]
      /\ Booked(v, InFlight(y), Resend(y))
  <2>1. y \in SendSide /\ Booked(y, InFlight(y), Resend(y)) /\ InFlight(y) \in SUBSET Tsns
    BY <1>1, QueueParts DEF Accounted
  <2> QED
    BY <1>3, <1>4, <2>1, FreeBooks
<1> HIDE DEF v
<1>6. Accounted(v)
  <2>1. InFlight(y) \ S = InFlight(y) /\ Resend(y) \ S = Resend(y)
    BY <1>4
  <2>2. /\ \A t \in S : v.sent[t] = "freed"
    BY <1>3, <1>5
  <2>3. \A t \in Tsns : t \notin S => v.sent[t] = y.sent[t] /\ v.whoTo[t] = y.whoTo[t]
    BY <1>5
  <2>4. Booked(v, InFlight(y) \ S, Resend(y) \ S)
    BY <1>5, <2>1
  <2> QED
    BY <1>1, <1>3, <1>5, <2>2, <2>3, <2>4, LeaveAccounted
<1>7. Unmarked(x) => Unmarked(v)
  BY <1>1, <1>5 DEF Unmarked, SameBooks
<1>8. Accounted(z) /\ (Unmarked(v) => Unmarked(z))
  BY <1>3, <1>5, <1>6, LastBooks, SameAccounted
<1> HIDE DEF z
<1>9. SentQueue(z) = {} => InFlight(z) = {}
  BY QueueParts
<1> QED
  BY <1>2, <1>7, <1>8, <1>9, NoneInFlight, SameAccounted

(* A revoked chunk is in flight again. *)
LEMMA RevokeKeeps ==
  ASSUME NEW x, Accounted(x), NEW S \in SUBSET Tsns, \A t \in S : x.sent[t] = "acked"
  PROVE  LET y == Revoke(x, S) IN
         Accounted(y) /\ \A t \in Tsns : y.sent[t] = IF t \in S THEN "sent" ELSE x.sent[t]
<1> DEFINE u == Mark(x, S, "sent")
           v == FlightIncrease(u, S)
           F == InFlight(x)
           R == Resend(x)
<1>1. /\ x \in SendSide /\ Counts(x, F) /\ x.retran = Cardinality(R) /\ x.probe \subseteq F
  BY DEF Accounted, Booked
<1>2. F \in SUBSET Tsns /\ F \cap S = {} /\ R \ S = R
  BY DEF InFlight, Resend
<1> HIDE DEF F, R
<1>3. /\ u \in SendSide /\ u.whoTo = x.whoTo /\ u.probe = x.probe /\ u.retran = x.retran
      /\ \A t \in Tsns : u.sent[t] = IF t \in S THEN "sent" ELSE x.sent[t]
      /\ InFlight(u) = F \cup S /\ Resend(u) = R /\ Counts(u, F)
  <2>1. "sent" \in AnyStatus
    BY DEF AnyStatus, Statuses
  <2>2. /\ u \in SendSide /\ u.whoTo = x.whoTo /\ u.probe = x.probe /\ u.retran = x.retran
        /\ \A t \in Tsns : u.sent[t] = IF t \in S THEN "sent" ELSE x.sent[t]
        /\ InFlight(u) = InFlight(x) \cup S /\ Resend(u) = Resend(x) \ S
        /\ Counts(x, F) => Counts(u, F)
    <3>1. Remarked(x, u, S, "sent")
      BY <1>1, <2>1, MarkBooks
    <3> HIDE DEF u
    <3> QED
      BY <3>1 DEF Remarked
  <2> QED
    BY <1>1, <1>2, <2>2 DEF F, R
<1> HIDE DEF u
<1>4. /\ v \in SendSide /\ v.sent = u.sent /\ v.whoTo = u.whoTo
      /\ Booked(v, F \cup S, R)
  <2>1. /\ u.retran = Cardinality(R) /\ u.probe \subseteq F \cup S
    BY <1>1, <1>3
  <2> QED
    BY <1>2, <1>3, <2>1, FlightIncreaseBooks
<1> HIDE DEF v
<1>5. InFlight(v) = F \cup S /\ Resend(v) = R
  BY <1>3, <1>4 DEF InFlight, Resend
<1>6. Addressed(v)
  BY <1>3, <1>4 DEF Addressed, Accounted, SentQueue
<1>7. Accounted(v)
  BY <1>4, <1>5, <1>6 DEF Accounted
<1>8. Inflate(v, S) \in SendSide /\ SameBooks(v, Inflate(v, S)) /\ Revoke(x, S) = Inflate(v, S)
  BY <1>4, DeflateBooks DEF Revoke, u, v
<1>9. Accounted(Revoke(x, S))
  BY <1>7, <1>8, SameAccounted
<1> QED
  BY <1>3, <1>4, <1>8, <1>9 DEF SameBooks

LEMMA FragsBooks ==
  ASSUME NEW x \in SendSide, NEW p \in BOOLEAN, NEW q \in BOOLEAN
  PROVE  LET y == [x EXCEPT !.saw_frags = p, !.saw_nr_frags = q] IN
         y \in SendSide /\ SameBooks(x, y)
  BY DEF SendSide, SameBooks

LEMMA CheckForRevokedKeeps ==
  ASSUME NEW x, Accounted(x), NEW s \in SackType, s.seg = {} => Unmarked(x)
  PROVE  Accounted(CheckForRevoked(x, s)) /\ Unmarked(CheckForRevoked(x, s))
<1> DEFINE gone == {t \in Tsns : x.sent[t] = "acked" /\ (s.seg = {} \/ Reaches(s, t))}
           y == IF s.seg # {} \/ x.saw_frags THEN Revoke(x, gone) ELSE x
           M == {t \in Tsns : s.seg # {} /\ y.sent[t] = "marked"}
           z == Mark(y, M, "acked")
           w == [z EXCEPT !.saw_frags = s.seg # {}, !.saw_nr_frags = s.nr # {}]
<1>1. /\ Accounted(y)
      /\ s.seg = {} => Unmarked(y)
  <2>1. gone \in SUBSET Tsns /\ \A t \in gone : x.sent[t] = "acked"
    OBVIOUS
  <2> HIDE DEF gone
  <2>2. /\ Accounted(Revoke(x, gone))
        /\ \A t \in Tsns : Revoke(x, gone).sent[t] = IF t \in gone THEN "sent" ELSE x.sent[t]
    BY <2>1, RevokeKeeps
  <2>3. Unmarked(x) => Unmarked(Revoke(x, gone))
    BY <2>2 DEF Unmarked
  <2> QED
    BY <2>2, <2>3
<1>2. CheckForRevoked(x, s) =
        IF SentQueue(w) = {} THEN NothingInFlight(TimerStop(w, Nets)) ELSE w
  BY DEF CheckForRevoked
<1> HIDE DEF y
<1>3. M \in SUBSET Tsns /\ InFlight(y) \ M = InFlight(y) /\ Resend(y) \ M = Resend(y)
  BY DEF InFlight, Resend
<1>4. /\ z \in SendSide /\ z.whoTo = y.whoTo
      /\ \A t \in Tsns : z.sent[t] = IF t \in M THEN "acked" ELSE y.sent[t]
      /\ Booked(z, InFlight(y), Resend(y))
      /\ InFlight(z) = InFlight(y) /\ Resend(z) = Resend(y)
  <2>1. y \in SendSide /\ Booked(y, InFlight(y), Resend(y))
    BY <1>1 DEF Accounted
  <2>2. "acked" \in AnyStatus
    BY DEF AnyStatus, Statuses
  <2> HIDE DEF M
  <2>3. /\ z \in SendSide /\ z.whoTo = y.whoTo
        /\ \A t \in Tsns : z.sent[t] = IF t \in M THEN "acked" ELSE y.sent[t]
        /\ Booked(z, InFlight(y), Resend(y))
        /\ InFlight(z) = InFlight(y) \ M /\ Resend(z) = Resend(y) \ M
    <3>1. Remarked(y, z, M, "acked")
      BY <1>3, <2>1, <2>2, MarkBooks
    <3> HIDE DEF z
    <3> QED
      BY <2>1, <3>1 DEF Remarked
  <2> QED
    BY <1>3, <2>3
<1>5. Unmarked(z)
  BY <1>1, <1>4 DEF Unmarked
<1>6. Accounted(z)
  <2>1. Addressed(z)
    BY <1>1, <1>4 DEF Addressed, Accounted, SentQueue
  <2> QED
    BY <1>4, <2>1 DEF Accounted
<1> HIDE DEF z
<1>7. Accounted(w) /\ Unmarked(w)
  BY <1>4, <1>5, <1>6, FragsBooks, SameAccounted
<1> HIDE DEF w
<1>8. Accounted(TimerStop(w, Nets)) /\ Unmarked(TimerStop(w, Nets))
      /\ (SentQueue(w) = {} => InFlight(TimerStop(w, Nets)) = {})
  <2>1. w \in SendSide
    BY <1>7 DEF Accounted
  <2>2. TimerStop(w, Nets) \in SendSide /\ SameBooks(w, TimerStop(w, Nets))
    BY <2>1, TimerBooks
  <2>3. InFlight(TimerStop(w, Nets)) = InFlight(w)
    BY <2>2, SameBooked
  <2> QED
    BY <1>7, <2>2, <2>3, SameAccounted, QueueParts
<1> QED
  BY <1>2, <1>7, <1>8, NoneInFlight, SameAccounted

LEMMA SlowAckKeeps ==
  ASSUME NEW x, Accounted(x), Unmarked(x), NEW s \in SackType
  PROVE  Accounted(SlowAck(x, s)) /\ Unmarked(SlowAck(x, s))
<1> DEFINE u == CumAck(x, s)
           v == Segments(u, s)
           w == FreeAcked(v, s)
<1>1. Accounted(u) /\ Unmarked(u) /\ Settled(u, s)
  BY CumAckKeeps
<1>2. SlowAck(x, s) = CheckForRevoked(w, s)
  BY DEF SlowAck
<1> HIDE DEF u
<1>3. Accounted(v) /\ (s.seg = {} => Unmarked(v)) /\ Settled(v, s)
  BY <1>1, SegmentsKeeps
<1> HIDE DEF v
<1>4. Accounted(w) /\ (s.seg = {} => Unmarked(w))
  BY <1>3, FreeAckedKeeps
<1> HIDE DEF w
<1> QED
  BY <1>2, <1>4, CheckForRevokedKeeps

LEMMA StrikeKeeps ==
  ASSUME NEW x, Accounted(x), Unmarked(x), NEW S \in SUBSET InFlight(x)
  PROVE  Accounted(Strike(x, S)) /\ Unmarked(Strike(x, S))
<1> DEFINE u == Mark(x, S, "resend")
           v == FlightDecrease(u, S)
           w == RetranIncrease(v, Cardinality(S))
           F == InFlight(x)
           R == Resend(x)
<1>1. /\ x \in SendSide /\ Booked(x, F, R)
  BY DEF Accounted
<1>2. F \in SUBSET Tsns /\ R \in SUBSET Tsns /\ R \cap S = {} /\ S \in SUBSET Tsns /\ S \in SUBSET F
  BY QueueParts
<1>3. /\ u \in SendSide /\ u.whoTo = x.whoTo /\ Booked(u, F, R)
      /\ \A t \in Tsns : u.sent[t] = IF t \in S THEN "resend" ELSE x.sent[t]
      /\ InFlight(u) = F \ S /\ Resend(u) = R \cup S
  BY <1>1, <1>2, MarkBooks DEF Remarked, AnyStatus, Statuses
<1> HIDE DEF u, F, R
<1>4. v \in SendSide /\ v.sent = u.sent /\ v.whoTo = u.whoTo /\ Booked(v, F \ S, R)
  BY <1>2, <1>3, FlightDecreaseBooks
<1> HIDE DEF v
<1>5. w \in SendSide /\ w.sent = u.sent /\ w.whoTo = u.whoTo /\ Booked(w, F \ S, R \cup S)
  BY <1>2, <1>4, RetranIncreaseBooks
<1>6. Strike(x, S) = w
  BY DEF Strike, u, v
<1> HIDE DEF w
<1>7. InFlight(w) = F \ S /\ Resend(w) = R \cup S
  BY <1>3, <1>5 DEF InFlight, Resend
<1>8. Addressed(w)
  BY <1>2, <1>3, <1>5 DEF Addressed, Accounted, SentQueue, F, InFlight
<1>9. Unmarked(w)
  BY <1>3, <1>5 DEF Unmarked
<1> QED
  BY <1>5, <1>6, <1>7, <1>8, <1>9 DEF Accounted

LEMMA NothingQueuedKeeps ==
  ASSUME NEW x, Accounted(x), Unmarked(x), SentQueue(x) = {}
  PROVE  Accounted(NothingQueued(x)) /\ Unmarked(NothingQueued(x))
<1> DEFINE u == TimerStop(x, Nets)
           v == NothingInFlight(u)
           w == [v EXCEPT !.retran = 0]
<1>1. Accounted(u) /\ Unmarked(u) /\ InFlight(u) = {} /\ Resend(u) = {}
  <2>1. x \in SendSide
    BY DEF Accounted
  <2>2. u \in SendSide /\ SameBooks(x, u)
    BY <2>1, TimerBooks
  <2> HIDE DEF u
  <2>3. InFlight(u) = InFlight(x) /\ Resend(u) = Resend(x)
    BY <2>2, SameBooked
  <2> QED
    BY <2>2, <2>3, SameAccounted, QueueParts
<1>2. NothingQueued(x) = w
  BY DEF NothingQueued
<1> HIDE DEF u
<1>3. Accounted(v) /\ Unmarked(v) /\ Resend(v) = {}
  <2>1. v \in SendSide /\ SameBooks(u, v)
    BY <1>1, NoneInFlight
  <2> HIDE DEF v
  <2>2. Resend(v) = Resend(u)
    BY <2>1, SameBooked
  <2> QED
    BY <1>1, <2>1, <2>2, SameAccounted
<1> HIDE DEF v
<1>4. v \in SendSide /\ v.retran = 0
  BY <1>3, FS_EmptySet DEF Accounted, Booked
<1>5. w \in SendSide /\ SameBooks(v, w)
  BY <1>4 DEF SendSide, SameBooks
<1> QED
  BY <1>2, <1>3, <1>5, SameAccounted

(* A probe that is recovered is in flight, so the books stay exact. *)
LEMMA ProbeRecoveryKeeps ==
  ASSUME NEW x, Accounted(x), Unmarked(x)
  PROVE  Accounted(ProbeRecovery(x)) /\ Unmarked(ProbeRecovery(x))
<1> DEFINE P == x.probe \cap SentQueue(x)
           t == CHOOSE u \in Tsns : IsFirst(u, P)
           y == [x EXCEPT !.probe = @ \ {t}]
           F == InFlight(x)
           R == Resend(x)
<1>1. CASE P = {}
  BY <1>1 DEF ProbeRecovery
<1>2. CASE P # {}
  <2>1. x \in SendSide /\ Counts(x, F) /\ x.retran = Cardinality(R) /\ x.probe \subseteq F
    BY DEF Accounted, Booked
  <2>2. F \in SUBSET Tsns /\ R \in SUBSET Tsns
    BY QueueParts
  <2>3. t \in P
    <3>1. P \in SUBSET Tsns
      BY QueueParts
    <3> QED
      BY <1>2, <3>1, FirstExists
  <2>4. t \in F /\ t \in Tsns /\ t \notin R /\ x.sent[t] = "sent" /\ t \in SentQueue(x)
    BY <2>1, <2>2, <2>3 DEF InFlight, Resend
  <2>5. ProbeRecovery(x) = RetranIncrease(Mark(FlightDecrease(y, {t}), {t}, "resend"), 1)
    BY <1>2, <2>4 DEF ProbeRecovery
  <2> HIDE DEF t
  <2>6. /\ y \in SendSide /\ y.sent = x.sent /\ y.whoTo = x.whoTo /\ y.flight = x.flight
        /\ y.total = x.total /\ y.retran = x.retran /\ y.probe \subseteq x.probe
    <3>1. x.probe \ {t} \in SUBSET Tsns
      BY <2>1 DEF SendSide
    <3> QED
      BY <2>1, <3>1 DEF SendSide
  <2> HIDE DEF y, F, R
  <2>7. Booked(y, F, R)
    BY <2>1, <2>6 DEF Booked, Counts, Of
  <2> DEFINE u == FlightDecrease(y, {t})
             v == Mark(u, {t}, "resend")
             w == RetranIncrease(v, Cardinality({t}))
  <2>8. /\ u \in SendSide /\ u.sent = x.sent /\ u.whoTo = x.whoTo
        /\ Booked(u, F \ {t}, R)
    <3>1. {t} \in SUBSET F
      BY <2>4
    <3> QED
      BY <2>2, <2>6, <2>7, <3>1, FlightDecreaseBooks
  <2> HIDE DEF u
  <2>9. /\ v \in SendSide /\ v.whoTo = x.whoTo /\ Booked(v, F \ {t}, R)
        /\ \A i \in Tsns : v.sent[i] = IF i \in {t} THEN "resend" ELSE x.sent[i]
    <3>1. {t} \in SUBSET Tsns /\ "resend" \in AnyStatus
      BY <2>4 DEF AnyStatus, Statuses
    <3>2. Remarked(u, v, {t}, "resend")
      BY <2>8, <3>1, MarkBooks
    <3> HIDE DEF v
    <3> QED
      BY <2>8, <3>2 DEF Remarked
  <2> HIDE DEF v
  <2>10. /\ w \in SendSide /\ w.sent = v.sent /\ w.whoTo = v.whoTo
         /\ Booked(w, F \ {t}, R \cup {t})
    <3>1. {t} \in SUBSET Tsns /\ R \cap {t} = {}
      BY <2>4
    <3> QED
      BY <2>2, <2>9, <3>1, RetranIncreaseBooks
  <2>11. ProbeRecovery(x) = w
    BY <2>5, FS_Singleton DEF u, v
  <2> HIDE DEF w
  <2>12. InFlight(w) = F \ {t} /\ Resend(w) = R \cup {t}
    BY <2>4, <2>9, <2>10 DEF InFlight, Resend, F, R
  <2>13. Addressed(w)
    BY <2>4, <2>9, <2>10 DEF Addressed, Accounted, SentQueue
  <2>14. Unmarked(w)
    BY <2>9, <2>10 DEF Unmarked
  <2> QED
    BY <2>10, <2>11, <2>12, <2>13, <2>14 DEF Accounted
<1> QED
  BY <1>1, <1>2

(* Chunks that are not in flight are sent; a probe among them is marked first. *)
LEMMA SentBooks ==
  ASSUME NEW x \in SendSide, NEW S \in SUBSET Tsns, NEW n, NEW R,
         InFlight(x) \cap S = {}, Counts(x, InFlight(x)), x.retran = Cardinality(R),
         x.probe \subseteq InFlight(x) \cup S
  PROVE  LET y == Sent(x, S, n) IN
         /\ y \in SendSide /\ y.whoTo = x.whoTo
         /\ \A t \in Tsns : y.sent[t] = IF t \in S THEN "sent" ELSE x.sent[t]
         /\ Booked(y, InFlight(x) \cup S, R)
<1> DEFINE u == Mark(x, S, "sent")
           v == FlightIncrease(u, S)
           Y == IF n \in x.timer THEN v.young \cup S ELSE v.young \ S
           w == [v EXCEPT !.young = Y]
           F == InFlight(x)
<1>1. "sent" \in AnyStatus /\ F \in SUBSET Tsns
  BY QueueParts DEF AnyStatus, Statuses
<1>2. Remarked(x, u, S, "sent")
  BY <1>1, MarkBooks
<1>3. Sent(x, S, n) = w
  BY DEF Sent
<1> HIDE DEF u, F
<1>4. /\ u \in SendSide /\ u.whoTo = x.whoTo /\ u.probe \subseteq F \cup S
      /\ u.retran = Cardinality(R) /\ Counts(u, F)
      /\ \A t \in Tsns : u.sent[t] = IF t \in S THEN "sent" ELSE x.sent[t]
  BY <1>2 DEF Remarked, F
<1>5. v \in SendSide /\ v.sent = u.sent /\ v.whoTo = u.whoTo /\ Booked(v, F \cup S, R)
  <2>1. F \cap S = {}
    BY DEF F
  <2> QED
    BY <1>1, <1>4, <2>1, FlightIncreaseBooks
<1> HIDE DEF v
<1>6. Y \in SUBSET Tsns
  BY <1>5 DEF SendSide
<1> HIDE DEF Y
<1>7. w \in SendSide /\ SameBooks(v, w)
  BY <1>5, <1>6 DEF SendSide, SameBooks
<1> HIDE DEF w
<1>8. Booked(w, F \cup S, R)
  BY <1>5, <1>7, SameBooked
<1> QED
  BY <1>3, <1>4, <1>5, <1>7, <1>8 DEF SameBooks, F

LEMMA ProbedFields ==
  ASSUME NEW x \in SendSide, NEW S \in SUBSET Tsns, NEW n \in Nets
  PROVE  LET y == Probed(x, S, n) IN
         /\ y \in SendSide /\ y.sent = x.sent /\ y.whoTo = x.whoTo /\ y.flight = x.flight
         /\ y.total = x.total /\ y.retran = x.retran /\ y.probe = x.probe \cup S
<1> DEFINE P == x.probe \cup S
           W == x.window_probe \cup {n}
           y == [x EXCEPT !.probe = P, !.window_probe = W]
<1>1. P \in SUBSET Tsns /\ W \in SUBSET Nets
  BY DEF SendSide
<1>2. Probed(x, S, n) = y
  BY DEF Probed
<1> HIDE DEF P, W
<1>3. /\ y \in SendSide /\ y.sent = x.sent /\ y.whoTo = x.whoTo /\ y.flight = x.flight
      /\ y.total = x.total /\ y.retran = x.retran /\ y.probe = P
  BY <1>1 DEF SendSide
<1> QED
  BY <1>2, <1>3 DEF P

(* Whether or not it is a probe: all the sending of S asks of x. *)
LEMMA MayProbeFields ==
  ASSUME NEW x \in SendSide, NEW S \in SUBSET Tsns, NEW n \in Nets, NEW probe \in BOOLEAN,
         Counts(x, InFlight(x)), x.probe \subseteq InFlight(x)
  PROVE  LET y == IF probe THEN Probed(x, S, n) ELSE x IN
         /\ y \in SendSide /\ y.sent = x.sent /\ y.whoTo = x.whoTo /\ y.retran = x.retran
         /\ InFlight(y) = InFlight(x) /\ Counts(y, InFlight(y))
         /\ y.probe \subseteq InFlight(y) \cup S
<1> DEFINE y == IF probe THEN Probed(x, S, n) ELSE x
<1>1. /\ y \in SendSide /\ y.sent = x.sent /\ y.whoTo = x.whoTo /\ y.flight = x.flight
      /\ y.total = x.total /\ y.retran = x.retran
      /\ y.probe \subseteq x.probe \cup S
  BY ProbedFields
<1> HIDE DEF y
<1>2. InFlight(y) = InFlight(x)
  BY <1>1 DEF InFlight
<1>3. Counts(y, InFlight(y))
  BY <1>1, <1>2 DEF Counts, Of
<1> QED
  BY <1>1, <1>2, <1>3 DEF y

LEMMA ResentKeeps ==
  ASSUME NEW x, Accounted(x), Unmarked(x), NEW S \in SUBSET Resend(x), NEW n \in Nets,
         NEW probe \in BOOLEAN
  PROVE  LET y == Resent(IF probe THEN Probed(x, S, n) ELSE x, S, n) IN
         Accounted(y) /\ Unmarked(y)
<1> DEFINE p == IF probe THEN Probed(x, S, n) ELSE x
           u == Sent(p, S, n)
           v == Deflate(u, S)
           w == RetranDecrease(v, Cardinality(S))
           y == TimerStart(w, n)
           F == InFlight(x)
           R == Resend(x)
<1>1. /\ x \in SendSide /\ Counts(x, F) /\ x.retran = Cardinality(R) /\ x.probe \subseteq F
  BY DEF Accounted, Booked
<1>2. /\ S \in SUBSET Tsns /\ F \cap S = {} /\ F \in SUBSET Tsns /\ R \in SUBSET Tsns
      /\ S \in SUBSET R
  BY QueueParts
<1>3. /\ p \in SendSide /\ p.sent = x.sent /\ p.whoTo = x.whoTo /\ p.retran = x.retran
      /\ InFlight(p) = F /\ Counts(p, InFlight(p)) /\ p.probe \subseteq InFlight(p) \cup S
  BY <1>1, <1>2, MayProbeFields
<1>4. Resent(p, S, n) = y
  BY DEF Resent
<1> HIDE DEF p, F, R
<1>5. /\ u \in SendSide /\ u.whoTo = x.whoTo
      /\ \A t \in Tsns : u.sent[t] = IF t \in S THEN "sent" ELSE x.sent[t]
      /\ Booked(u, F \cup S, R)
  <2>1. InFlight(p) \cap S = {} /\ p.retran = Cardinality(R)
    BY <1>1, <1>2, <1>3
  <2>2. /\ u \in SendSide /\ u.whoTo = p.whoTo
        /\ \A t \in Tsns : u.sent[t] = IF t \in S THEN "sent" ELSE p.sent[t]
        /\ Booked(u, InFlight(p) \cup S, R)
    BY <1>2, <1>3, <2>1, SentBooks
  <2> QED
    BY <1>3, <2>2
<1> HIDE DEF u
<1>6. v \in SendSide /\ v.sent = u.sent /\ v.whoTo = u.whoTo /\ Booked(v, F \cup S, R)
  <2>1. v \in SendSide /\ SameBooks(u, v)
    BY <1>2, <1>5, DeflateBooks
  <2> HIDE DEF v
  <2>2. Booked(v, F \cup S, R)
    BY <1>5, <2>1, SameBooked
  <2> QED
    BY <2>1, <2>2 DEF SameBooks
<1> HIDE DEF v
<1>7. w \in SendSide /\ w.sent = v.sent /\ w.whoTo = v.whoTo /\ Booked(w, F \cup S, R \ S)
  BY <1>2, <1>6, RetranDecreaseBooks
<1> HIDE DEF w
<1>8. InFlight(w) = F \cup S /\ Resend(w) = R \ S
  BY <1>2, <1>5, <1>6, <1>7 DEF InFlight, Resend, F, R
<1>9. Addressed(w)
  BY <1>2, <1>5, <1>6, <1>7 DEF Addressed, Accounted, SentQueue, R, Resend
<1>10. Accounted(w) /\ Unmarked(w)
  BY <1>5, <1>6, <1>7, <1>8, <1>9 DEF Accounted, Unmarked
<1>11. y \in SendSide /\ SameBooks(w, y)
  BY <1>7, TimerBooks
<1> HIDE DEF y
<1> QED
  BY <1>4, <1>10, <1>11, SameAccounted DEF p

(* A chunk of the send queue gets its destination and is sent. *)
LEMMA FirstSendKeeps ==
  ASSUME NEW b, Accounted(b), Unmarked(b), NEW t \in Tsns, b.sent[t] = "unsent",
         NEW n \in Nets, NEW probe \in BOOLEAN,
         NEW x, x = [b EXCEPT !.whoTo[t] = n, !.probe = @ \ {t}, !.revoked = @ \ {t}]
  PROVE  LET y == TimerStart(Sent(IF probe THEN Probed(x, {t}, n) ELSE x, {t}, n), n) IN
         Accounted(y) /\ Unmarked(y)
<1> DEFINE p == IF probe THEN Probed(x, {t}, n) ELSE x
           u == Sent(p, {t}, n)
           y == TimerStart(u, n)
           F == InFlight(b)
           R == Resend(b)
           W == [b.whoTo EXCEPT ![t] = n]
           P == b.probe \ {t}
           V == b.revoked \ {t}
<1>1. /\ b \in SendSide /\ Counts(b, F) /\ b.retran = Cardinality(R) /\ b.probe \subseteq F
  BY DEF Accounted, Booked
<1>2. F \in SUBSET Tsns /\ F \cap {t} = {} /\ {t} \in SUBSET Tsns /\ t \notin R
  BY DEF InFlight, Resend
<1>3. /\ W \in [Tsns -> Nets \cup {"none"}] /\ P \in SUBSET Tsns /\ V \in SUBSET Tsns
      /\ \A i \in Tsns : W[i] = IF i = t THEN n ELSE b.whoTo[i]
      /\ P \subseteq F
  BY <1>1 DEF SendSide
<1>4. x = [b EXCEPT !.whoTo = W, !.probe = P, !.revoked = V]
  OBVIOUS
<1> HIDE DEF W, P, V
<1>5. /\ x \in SendSide /\ x.sent = b.sent /\ x.whoTo = W /\ x.flight = b.flight
      /\ x.total = b.total /\ x.retran = b.retran /\ x.probe = P
  BY <1>1, <1>3, <1>4 DEF SendSide
<1>6. InFlight(x) = F
  BY <1>5 DEF InFlight
<1> HIDE DEF F, R
<1>7. Counts(x, InFlight(x)) /\ x.probe \subseteq InFlight(x)
  <2>1. \A m \in Nets : Of(x, F, m) = Of(b, F, m)
    BY <1>2, <1>3, <1>5 DEF Of
  <2> QED
    BY <1>1, <1>3, <1>5, <1>6, <2>1 DEF Counts
<1>8. /\ p \in SendSide /\ p.sent = x.sent /\ p.whoTo = x.whoTo /\ p.retran = x.retran
      /\ InFlight(p) = F /\ Counts(p, InFlight(p)) /\ p.probe \subseteq InFlight(p) \cup {t}
  <2>1. x \in SendSide /\ {t} \in SUBSET Tsns /\ n \in Nets /\ probe \in BOOLEAN
    BY <1>2, <1>5
  <2>2. /\ p \in SendSide /\ p.sent = x.sent /\ p.whoTo = x.whoTo /\ p.retran = x.retran
        /\ InFlight(p) = InFlight(x) /\ Counts(p, InFlight(p))
        /\ p.probe \subseteq InFlight(p) \cup {t}
    BY ONLY <1>7, <2>1, MayProbeFields
  <2> QED
    BY <1>6, <2>2
<1> HIDE DEF p
<1>9. /\ u \in SendSide /\ u.whoTo = W
      /\ \A i \in Tsns : u.sent[i] = IF i \in {t} THEN "sent" ELSE b.sent[i]
      /\ Booked(u, F \cup {t}, R)
  <2>1. InFlight(p) \cap {t} = {} /\ p.retran = Cardinality(R)
    BY <1>1, <1>2, <1>5, <1>8
  <2>2. /\ u \in SendSide /\ u.whoTo = p.whoTo
        /\ \A i \in Tsns : u.sent[i] = IF i \in {t} THEN "sent" ELSE p.sent[i]
        /\ Booked(u, InFlight(p) \cup {t}, R)
    BY <1>2, <1>8, <2>1, SentBooks
  <2> QED
    BY <1>5, <1>8, <2>2
<1> HIDE DEF u
<1>10. InFlight(u) = F \cup {t} /\ Resend(u) = R
  BY <1>2, <1>9 DEF InFlight, Resend, F, R
<1>11. Addressed(u)
  BY <1>3, <1>9 DEF Addressed, Accounted, SentQueue
<1>12. Accounted(u) /\ Unmarked(u)
  BY <1>9, <1>10, <1>11 DEF Accounted, Unmarked
<1>13. y \in SendSide /\ SameBooks(u, y)
  BY <1>9, TimerBooks
<1> HIDE DEF y
<1>14. Accounted(y) /\ Unmarked(y)
  BY <1>12, <1>13, SameAccounted
<1> QED
  BY <1>14 DEF y, u, p

LEMMA RetranCountKeeps ==
  ASSUME NEW x \in SendSide, NEW F, Counts(x, F), x.probe \subseteq F, F = InFlight(x),
         Addressed(x)
  PROVE  LET y == [x EXCEPT !.retran = Cardinality(Resend(x))] IN
         Accounted(y) /\ (Unmarked(x) => Unmarked(y))
<1> DEFINE k == Cardinality(Resend(x))
           y == [x EXCEPT !.retran = k]
<1>1. k \in Nat
  BY QueueParts, CardNat
<1> HIDE DEF k
<1>2. /\ y \in SendSide /\ y.sent = x.sent /\ y.whoTo = x.whoTo /\ y.flight = x.flight
      /\ y.total = x.total /\ y.probe = x.probe /\ y.retran = k
  BY <1>1 DEF SendSide
<1> HIDE DEF y
<1>3. InFlight(y) = F /\ Resend(y) = Resend(x) /\ SentQueue(y) = SentQueue(x)
  BY <1>2 DEF InFlight, Resend, SentQueue
<1>4. Counts(y, F)
  BY <1>2 DEF Counts, Of
<1>5. Accounted(y)
  BY <1>2, <1>3, <1>4 DEF Accounted, Booked, Addressed, k
<1> QED
  BY <1>2, <1>5 DEF Unmarked, y, k

(* sctp_mark_all_for_resend takes what it marks out of the books. *)
LEMMA MarkForResendKeeps ==
  ASSUME NEW x, Accounted(x), Unmarked(x), NEW n \in Nets, NEW alt \in Nets,
         NEW M \in SUBSET (InFlight(x) \cup Resend(x))
  PROVE  Accounted(MarkForResend(x, M, n, alt)) /\ Unmarked(MarkForResend(x, M, n, alt))
<1> DEFINE F == InFlight(x)
           R == Resend(x)
           out == M \cap F
           d == Deflate(x, out)
           y == FlightDecrease(d, out)
           m == Mark(y, M, "resend")
           W == [t \in Tsns |-> IF t \in M THEN alt ELSE m.whoTo[t]]
           z == [m EXCEPT !.whoTo = W]
           w == [z EXCEPT !.retran = Cardinality(Resend(z))]
<1>1. /\ M \in SUBSET Tsns /\ out \in SUBSET F /\ F \in SUBSET Tsns /\ out \in SUBSET Tsns
      /\ M \in SUBSET SentQueue(x) /\ F \ out = F \ M
  BY QueueParts
<1>2. x \in SendSide /\ Booked(x, F, R)
  BY DEF Accounted
<1>3. MarkForResend(x, M, n, alt) =
        IF x.flight[n] - y.flight[n] = x.total - y.total THEN w ELSE Recount(w)
  BY DEF MarkForResend
<1>4. d \in SendSide /\ d.sent = x.sent /\ d.whoTo = x.whoTo /\ Booked(d, F, R)
  <2>1. d \in SendSide /\ SameBooks(x, d)
    BY <1>1, <1>2, DeflateBooks
  <2> HIDE DEF d, F, R
  <2>2. Booked(d, F, R)
    BY <1>2, <2>1, SameBooked
  <2> QED
    BY <2>1, <2>2 DEF SameBooks
<1> HIDE DEF d, F, R, out
<1>5. y \in SendSide /\ y.sent = x.sent /\ y.whoTo = x.whoTo /\ Booked(y, F \ M, R)
  <2>1. y \in SendSide /\ y.sent = d.sent /\ y.whoTo = d.whoTo /\ Booked(y, F \ out, R)
    BY <1>1, <1>4, FlightDecreaseBooks
  <2> QED
    BY <1>1, <1>4, <2>1
<1> HIDE DEF y
<1>6. /\ m \in SendSide /\ m.whoTo = x.whoTo /\ Booked(m, F \ M, R)
      /\ \A t \in Tsns : m.sent[t] = IF t \in M THEN "resend" ELSE x.sent[t]
  <2>1. "resend" \in AnyStatus
    BY DEF AnyStatus, Statuses
  <2>2. Remarked(y, m, M, "resend")
    BY <1>1, <1>5, <2>1, MarkBooks
  <2> HIDE DEF m
  <2> QED
    BY <1>5, <2>2 DEF Remarked
<1> HIDE DEF m
<1>7. /\ W \in [Tsns -> Nets \cup {"none"}]
      /\ \A t \in Tsns : W[t] = IF t \in M THEN alt ELSE x.whoTo[t]
  BY <1>6 DEF SendSide
<1> HIDE DEF W
<1>8. /\ z \in SendSide /\ z.sent = m.sent /\ z.whoTo = W /\ z.flight = m.flight
      /\ z.total = m.total /\ z.probe = m.probe
  BY <1>6, <1>7 DEF SendSide
<1> HIDE DEF z
<1>9. InFlight(z) = F \ M
  BY <1>6, <1>8 DEF InFlight, F
<1>10. Counts(z, F \ M) /\ z.probe \subseteq F \ M
  <2>1. \A i \in Nets : Of(z, F \ M, i) = Of(m, F \ M, i)
    BY <1>1, <1>6, <1>7, <1>8 DEF Of
  <2> QED
    BY <1>6, <1>8, <2>1 DEF Booked, Counts
<1>11. Addressed(z) /\ Unmarked(z)
  <2>1. Addressed(x)
    BY DEF Accounted
  <2> QED
    BY <1>1, <1>6, <1>7, <1>8, <2>1 DEF Addressed, SentQueue, Unmarked
<1>12. Accounted(w) /\ Unmarked(w)
  BY <1>8, <1>9, <1>10, <1>11, RetranCountKeeps
<1> HIDE DEF w
<1>13. Accounted(Recount(w)) /\ Unmarked(Recount(w))
  BY <1>12, RecountSame, SameAccounted
<1> QED
  BY <1>3, <1>12, <1>13

-----------------------------------------------------------------------------
(* The actions.  The ones of the sender keep the books, the ones of the peer *)
(* and the network the types of what is under way.                           *)

LEMMA TimersKeep ==
  ASSUME NEW x, Accounted(x), Unmarked(x), NEW n \in Nets
  PROVE  /\ Accounted(TimerStart(x, n)) /\ Unmarked(TimerStart(x, n))
         /\ Accounted(OsTimerStart(x, n)) /\ Unmarked(OsTimerStart(x, n))
         /\ Accounted(TimerValidation(x, n)) /\ Unmarked(TimerValidation(x, n))
         /\ Accounted(TimerStop(x, {n})) /\ Unmarked(TimerStop(x, {n}))
<1>1. x \in SendSide /\ {n} \in SUBSET Nets
  BY DEF Accounted
<1>2. /\ TimerStart(x, n) \in SendSide /\ SameBooks(x, TimerStart(x, n))
      /\ OsTimerStart(x, n) \in SendSide /\ SameBooks(x, OsTimerStart(x, n))
      /\ TimerValidation(x, n) \in SendSide /\ SameBooks(x, TimerValidation(x, n))
      /\ TimerStop(x, {n}) \in SendSide /\ SameBooks(x, TimerStop(x, {n}))
  BY <1>1, TimerBooks
<1> QED
  BY <1>2, SameAccounted

LEMMA WindowProbeKeeps ==
  ASSUME NEW x, Accounted(x), Unmarked(x), NEW W \in SUBSET Nets
  PROVE  LET y == [x EXCEPT !.window_probe = W] IN Accounted(y) /\ Unmarked(y)
<1>1. x \in SendSide
  BY DEF Accounted
<1>2. [x EXCEPT !.window_probe = W] \in SendSide /\ SameBooks(x, [x EXCEPT !.window_probe = W])
  BY <1>1 DEF SendSide, SameBooks
<1> QED
  BY <1>2, SameAccounted

LEMMA SackStep ==
  ASSUME Books, NEW s \in SackType, NEW grew \in BOOLEAN, Sack(s, grew)
  PROVE  Books'
<1>1. CASE a' = a
  BY <1>1 DEF Books
<1>2. CASE a' = ExpressAck(a, s.cum)
  <2>1. s.cum \in 0..MaxTsn
    BY DEF SackType
  <2> QED
    BY <1>2, <2>1, ExpressAckKeeps DEF Books
<1>3. CASE SentQueue(a) \cup SendQueue(a) = {} /\ a' = NothingQueued(a)
  BY <1>3, NothingQueuedKeeps DEF Books
<1>4. CASE \E S \in SUBSET Strikable(a, SlowAck(a, s), s) : a' = Strike(SlowAck(a, s), S)
  <2> DEFINE y == SlowAck(a, s)
  <2>1. Accounted(y) /\ Unmarked(y)
    BY SlowAckKeeps DEF Books
  <2> HIDE DEF y
  <2>2. PICK S \in SUBSET Strikable(a, y, s) : a' = Strike(y, S)
    BY <1>4 DEF y
  <2>3. S \in SUBSET InFlight(y)
    BY DEF Strikable
  <2> QED
    BY <2>1, <2>2, <2>3, StrikeKeeps DEF Books
<1> QED
  BY <1>1, <1>2, <1>3, <1>4 DEF Sack

LEMMA ShutdownStep ==
  ASSUME Books, NEW c \in 0..MaxTsn, NEW grew \in BOOLEAN, Shutdown(c, grew)
  PROVE  Books'
<1>1. CASE a' = a
  BY <1>1 DEF Books
<1>2. CASE a' = ExpressAck(a, c)
  BY <1>2, ExpressAckKeeps DEF Books
<1> QED
  BY <1>1, <1>2 DEF Shutdown

LEMMA ServiceStep ==
  ASSUME Books, NEW n \in Nets, Service(n)
  PROVE  Books'
<1> DEFINE recover == ctx.recovery /\ n \in a.window_probe
           x == IF recover THEN ProbeRecovery(a) ELSE a
           start == IF ctx.express THEN OsTimerStart(x, n) ELSE TimerStart(x, n)
           assured == IF n \in x.timer THEN x ELSE start
<1>1. Accounted(x) /\ Unmarked(x)
  BY ProbeRecoveryKeeps DEF Books
<1>2. \/ a' = [start EXCEPT !.window_probe = @ \ {n}]
      \/ a' = [assured EXCEPT !.window_probe = @ \ {n}]
      \/ a' = assured \/ a' = TimerStop(x, {n}) \/ a' = x
  BY DEF Service
<1> HIDE DEF x
<1>3. Accounted(start) /\ Unmarked(start) /\ Accounted(TimerStop(x, {n})) /\ Unmarked(TimerStop(x, {n}))
  BY <1>1, TimersKeep
<1>4. Accounted(assured) /\ Unmarked(assured)
  BY <1>1, <1>3
<1> HIDE DEF start, assured
<1>5. start.window_probe \ {n} \in SUBSET Nets /\ assured.window_probe \ {n} \in SUBSET Nets
  BY <1>3, <1>4 DEF Accounted, SendSide
<1> QED
  BY <1>1, <1>2, <1>3, <1>4, <1>5, WindowProbeKeeps DEF Books

LEMMA ServiceDoneStep ==
  ASSUME Books, ServiceDone
  PROVE  Books'
<1>1. CASE a' = a
  BY <1>1 DEF Books
<1>2. CASE a' = [Recount(a) EXCEPT !.retran = Cardinality(Resend(a))]
  <2> DEFINE x == Recount(a)
  <2>1. x \in SendSide /\ SameBooks(a, x)
    BY RecountSame DEF Books
  <2> HIDE DEF x
  <2>2. Accounted(x) /\ Unmarked(x)
    BY <2>1, SameAccounted DEF Books
  <2>3. Resend(a) = Resend(x)
    BY <2>1, SameBooked
  <2>4. Counts(x, InFlight(x)) /\ x.probe \subseteq InFlight(x) /\ Addressed(x)
    BY <2>2 DEF Accounted, Booked
  <2> QED
    BY <1>2, <2>1, <2>2, <2>3, <2>4, RetranCountKeeps DEF Books, x
<1> QED
  BY <1>1, <1>2 DEF ServiceDone

LEMMA OutputsStep ==
  ASSUME Books, ~ProbeFails, Outputs
  PROVE  Books'
<1> PICK n \in Nets, probe \in BOOLEAN :
        \/ \E S \in SUBSET Resend(a) : Retransmit(S, n, probe)
        \/ \E S \in SUBSET Resend(a), v \in Nets : RetransmitFails(S, n, probe, v)
        \/ \E t \in SendQueue(a) : Transmit(t, n, probe)
        \/ TransmitFails(n, probe)
        \/ StopOutput(n)
  BY DEF Outputs
<1>1. ASSUME NEW S \in SUBSET Resend(a), Retransmit(S, n, probe) PROVE Books'
  BY <1>1, ResentKeeps DEF Retransmit, Books
<1>2. ASSUME NEW S \in SUBSET Resend(a), NEW v \in Nets, RetransmitFails(S, n, probe, v)
      PROVE Books'
  <2>1. a' = TimerStart(a, n) \/ a' = TimerValidation(a, v)
    BY <1>2 DEF RetransmitFails
  <2> QED
    BY <2>1, TimersKeep DEF Books
<1>3. ASSUME NEW t \in SendQueue(a), Transmit(t, n, probe) PROVE Books'
  <2> DEFINE x == [a EXCEPT !.whoTo[t] = n, !.probe = @ \ {t}, !.revoked = @ \ {t}]
  <2>1. t \in Tsns /\ a.sent[t] = "unsent"
    BY SenderAssumption DEF SendQueue, Tsns, Books, Accounted, SendSide
  <2>2. a' = TimerStart(Sent(IF probe THEN Probed(x, {t}, n) ELSE x, {t}, n), n)
    BY <1>3 DEF Transmit
  <2>3. \A y : y = x => Accounted(TimerStart(Sent(IF probe THEN Probed(y, {t}, n) ELSE y, {t}, n), n))
                     /\ Unmarked(TimerStart(Sent(IF probe THEN Probed(y, {t}, n) ELSE y, {t}, n), n))
    BY <2>1, FirstSendKeeps DEF Books
  <2> HIDE DEF x
  <2> QED
    BY <2>2, <2>3 DEF Books
<1>4. ASSUME TransmitFails(n, probe) PROVE Books'
  <2> DEFINE W == a.window_probe \cup {n}
             x == [a EXCEPT !.window_probe = W]
  <2>1. a' = TimerStart(IF probe THEN x ELSE a, n)
    BY <1>4 DEF TransmitFails
  <2>2. W \in SUBSET Nets
    BY DEF Books, Accounted, SendSide
  <2> HIDE DEF W
  <2>3. Accounted(x) /\ Unmarked(x)
    BY <2>2, WindowProbeKeeps DEF Books
  <2> HIDE DEF x
  <2> QED
    BY <2>1, <2>3, TimersKeep DEF Books
<1>5. ASSUME StopOutput(n) PROVE Books'
  BY <1>5, TimersKeep DEF StopOutput, Books
<1> QED
  BY <1>1, <1>2, <1>3, <1>4, <1>5

LEMMA ReturnStep ==
  ASSUME Books, Return
  PROVE  Books'
<1> DEFINE t == CHOOSE u \in Tsns : IsFirst(u, SentQueue(a))
<1>1. CASE a' = a
  BY <1>1 DEF Books
<1>2. CASE SentQueue(a) # {} /\ a' = TimerStart(a, a.whoTo[t])
  <2>1. t \in SentQueue(a)
    BY <1>2, QueueParts, FirstExists
  <2>2. a.whoTo[t] \in Nets
    BY <2>1 DEF Books, Accounted, Addressed
  <2> HIDE DEF t
  <2> QED
    BY <1>2, <2>2, TimersKeep DEF Books
<1> QED
  BY <1>1, <1>2 DEF Return

LEMMA UserSendStep ==
  ASSUME Books, UserSend
  PROVE  Books'
<1> DEFINE k == a.queued + 1
<1>1. a \in SendSide /\ k \in 0..MaxTsn /\ a' = [a EXCEPT !.queued = k]
  BY SenderAssumption DEF UserSend, Books, Accounted, SendSide
<1> HIDE DEF k
<1>2. a' \in SendSide /\ SameBooks(a, a')
  BY <1>1 DEF SendSide, SameBooks
<1> QED
  BY <1>2, SameAccounted DEF Books

LEMMA ExpireStep ==
  ASSUME Books, NEW n \in Nets, Expire(n)
  PROVE  Books'
<1> PICK M \in SUBSET Tsns, alt \in Nets : T3Timeout(n, M, alt)
  BY DEF Expire
<1> DEFINE N == a.timer \ {n}
           k == Floor(a.timers_up - 1)
           x == [a EXCEPT !.timer = N, !.timers_up = k]
<1>1. a \in SendSide /\ N \in SUBSET Nets /\ k \in Nat
  BY DEF Books, Accounted, SendSide, Floor
<1>2. a' = MarkForResend(x, M, n, alt) /\ M \subseteq InFlight(a) \cup Resend(a)
  BY DEF T3Timeout, Of
<1> HIDE DEF N, k
<1>3. x \in SendSide /\ SameBooks(a, x)
  BY <1>1, TimerFields
<1> HIDE DEF x
<1>4. /\ Accounted(x) /\ Unmarked(x)
      /\ InFlight(x) = InFlight(a) /\ Resend(x) = Resend(a)
  BY <1>3, SameAccounted, SameBooked DEF Books
<1>5. M \in SUBSET (InFlight(x) \cup Resend(x))
  BY <1>2, <1>4
<1> QED
  BY <1>2, <1>4, <1>5, MarkForResendKeeps DEF Books

LEMMA ArriveStep ==
  ASSUME UnderWay, NEW t \in wire, Arrive(t)
  PROVE  UnderWay'
<1>1. got' = got \cup {t} /\ got' \in SUBSET Tsns /\ wire' \subseteq wire
      /\ UNCHANGED <<sacks, shuts>>
  BY DEF UnderWay, Arrive
<1>2. PICK D \in SUBSET got' : kept' = kept \cup 1..Cum(got') \cup D
  BY DEF Arrive
<1>3. 1..Cum(got') \subseteq got'
  BY <1>1, CumType
<1> QED
  BY <1>1, <1>2, <1>3 DEF UnderWay

LEMMA PeerSackStep ==
  ASSUME UnderWay, PeerSack
  PROVE  UnderWay'
<1>1. SackOf(got, kept) \in SackType
  <2>1. Cum(got) \in 0..MaxTsn
    BY CumType DEF UnderWay
  <2> QED
    BY <2>1 DEF SackOf, SackType, UnderWay
<1> QED
  BY <1>1 DEF PeerSack, UnderWay

LEMMA OutputsUnderWay ==
  ASSUME Books, UnderWay, Outputs
  PROVE  UnderWay'
<1>0. SendQueue(a) \in SUBSET Tsns
  BY SenderAssumption DEF SendQueue, Tsns, Books, Accounted, SendSide
<1>1. ASSUME NEW n \in Nets, NEW probe \in BOOLEAN, NEW S \in SUBSET Resend(a),
             Retransmit(S, n, probe)
      PROVE  UnderWay'
  <2>1. S \in SUBSET Tsns
    BY QueueParts
  <2> QED
    BY <1>1, <2>1 DEF Retransmit, UnderWay, peer
<1>2. ASSUME NEW n \in Nets, NEW probe \in BOOLEAN, NEW S \in SUBSET Resend(a),
             NEW v \in Nets, RetransmitFails(S, n, probe, v)
      PROVE  UnderWay'
  BY <1>2 DEF RetransmitFails, UnderWay, peer
<1>3. ASSUME NEW n \in Nets, NEW probe \in BOOLEAN, NEW t \in SendQueue(a),
             Transmit(t, n, probe), t \in Tsns
      PROVE  UnderWay'
  BY <1>3 DEF Transmit, UnderWay, peer
<1>4. ASSUME NEW n \in Nets, NEW probe \in BOOLEAN, TransmitFails(n, probe) PROVE UnderWay'
  BY <1>4 DEF TransmitFails, UnderWay, peer
<1>5. ASSUME NEW n \in Nets, StopOutput(n) PROVE UnderWay'
  BY <1>5 DEF StopOutput, UnderWay, peer
<1> QED
  BY <1>0, <1>1, <1>2, <1>3, <1>4, <1>5 DEF Outputs

LEMMA SenderInit == Init => SenderInv
<1> SUFFICES ASSUME Init PROVE SenderInv
  OBVIOUS
<1>1. a \in SendSide
  BY SenderAssumption DEF Init, SendSide, AnyStatus, Statuses
<1>2. /\ InFlight(a) = {} /\ Resend(a) = {} /\ SentQueue(a) = {} /\ Unmarked(a)
  BY DEF Init, InFlight, Resend, SentQueue, Unmarked
<1>3. Booked(a, {}, {})
  <2>1. \A n \in Nets : Of(a, {}, n) = {}
    BY DEF Of
  <2>2. Cardinality({}) = 0
    BY FS_EmptySet
  <2> QED
    BY <2>1, <2>2 DEF Init, Booked, Counts
<1>4. Accounted(a)
  BY <1>1, <1>2, <1>3 DEF Accounted, Addressed
<1> QED
  BY <1>2, <1>4 DEF Init, SenderInv, Books, UnderWay

LEMMA SenderNext ==
  ASSUME ~ProbeFails, SenderInv, [Next]_vars
  PROVE  SenderInv'
<1> USE DEF SenderInv
<1>1. CASE UserSend
  <2>1. UnderWay'
    BY <1>1 DEF UserSend, UnderWay, peer
  <2> QED
    BY <1>1, <2>1, UserSendStep
<1>2. CASE ReceiveSack
  <2>1. PICK s \in sacks, grew \in BOOLEAN : Sack(s, grew)
    BY <1>2 DEF ReceiveSack
  <2>2. s \in SackType
    BY DEF UnderWay
  <2>3. UnderWay'
    BY <2>1 DEF Sack, UnderWay, peer
  <2> QED
    BY <2>1, <2>2, <2>3, SackStep
<1>2a. CASE ReceiveShutdown
  <2>1. PICK c \in shuts, grew \in BOOLEAN : Shutdown(c, grew)
    BY <1>2a DEF ReceiveShutdown
  <2>2. c \in 0..MaxTsn
    BY DEF UnderWay
  <2>3. UnderWay'
    BY <2>1 DEF Shutdown, UnderWay
  <2> QED
    BY <2>1, <2>2, <2>3, ShutdownStep
<1>3. ASSUME NEW n \in Nets, Expire(n) PROVE SenderInv'
  <2>1. UnderWay'
    BY <1>3 DEF Expire, T3Timeout, UnderWay, peer
  <2> QED
    BY <1>3, <2>1, ExpireStep
<1>4. CASE Handler
  <2>1. ASSUME NEW n \in Nets, Service(n) PROVE SenderInv'
    <3>1. UnderWay'
      BY <2>1 DEF Service, UnderWay, peer
    <3> QED
      BY <2>1, <3>1, ServiceStep
  <2>2. CASE ServiceDone
    <3>1. UnderWay'
      BY <2>2 DEF ServiceDone, UnderWay, peer
    <3> QED
      BY <2>2, <3>1, ServiceDoneStep
  <2>3. CASE Outputs
    BY <2>3, OutputsStep, OutputsUnderWay
  <2>4. CASE Return
    <3>1. UnderWay'
      BY <2>4 DEF Return, UnderWay, peer
    <3> QED
      BY <2>4, <3>1, ReturnStep
  <2> QED
    BY <1>4, <2>1, <2>2, <2>3, <2>4 DEF Handler
<1>5. ASSUME NEW t \in wire, Arrive(t) PROVE SenderInv'
  <2>1. a' = a
    BY <1>5 DEF Arrive, sender
  <2> QED
    BY <1>5, <2>1, ArriveStep DEF Books
<1>6. ASSUME NEW t \in wire, LoseData(t) PROVE SenderInv'
  BY <1>6 DEF LoseData, sender, peer, Books, UnderWay
<1>7. CASE PeerSack
  <2>1. a' = a
    BY <1>7 DEF PeerSack, sender
  <2> QED
    BY <1>7, <2>1, PeerSackStep DEF Books
<1>7a. CASE PeerShutdown
  <2>1. Cum(got) \in 0..MaxTsn
    BY CumType DEF UnderWay
  <2>2. a' = a /\ UnderWay'
    BY <1>7a, <2>1 DEF PeerShutdown, sender, UnderWay
  <2> QED
    BY <2>2 DEF Books
<1>8. CASE Renege
  <2>1. a' = a /\ UnderWay'
    BY <1>8 DEF Renege, sender, UnderWay
  <2> QED
    BY <2>1 DEF Books
<1>9. ASSUME NEW s \in sacks, LoseSack(s) PROVE SenderInv'
  BY <1>9 DEF LoseSack, sender, peer, Books, UnderWay
<1>10. CASE UNCHANGED vars
  BY <1>10 DEF vars, Books, UnderWay
<1> QED
  BY <1>1, <1>2, <1>2a, <1>3, <1>4, <1>5, <1>6, <1>7, <1>7a, <1>8, <1>9, <1>10 DEF Next

(***************************************************************************)
(* Unless the send of a window probe fails, the invariant holds for every  *)
(* number of destinations and chunks, with any losses, reneging and        *)
(* reordering of SACKs, and whether or not the peer shuts down.            *)
(***************************************************************************)
LEMMA SenderInvariant ==
  ASSUME ~ProbeFails
  PROVE  Spec => []SenderInv
<1>1. Init => SenderInv
  BY SenderInit
<1>2. SenderInv /\ [Next]_vars => SenderInv'
  BY SenderNext
<1> QED
  BY <1>1, <1>2, PTL DEF Spec

(* The send side keeps its type, and no chunk stays SCTP_DATAGRAM_MARKED once *)
(* a SACK has been handled.                                                   *)
THEOREM SendSideTyped ==
  ASSUME ~ProbeFails
  PROVE  Spec => []TypeOK
<1>1. SenderInv => TypeOK
  <2> SUFFICES ASSUME SenderInv PROVE TypeOK
    OBVIOUS
  <2>1. a \in SendSide /\ Unmarked(a) /\ UnderWay
    BY DEF SenderInv, Books, Accounted
  <2>2. a.sent \in [Tsns -> Statuses]
    BY <2>1 DEF SendSide, Unmarked, AnyStatus
  <2> QED
    BY <2>1, <2>2 DEF SendSide, UnderWay, TypeOK
<1> QED
  BY <1>1, SenderInvariant, PTL

(* flight_size of every destination and total_flight are exactly what is in *)
(* flight, after whatever SACKs, strikes, revocations, timeouts and probes.  *)
THEOREM FlightSizeExact ==
  ASSUME ~ProbeFails
  PROVE  Spec => []FlightExact
<1>1. SenderInv => FlightExact
  BY DEF SenderInv, Books, Accounted, Booked, FlightExact
<1> QED
  BY <1>1, SenderInvariant, PTL

(* sent_queue_retran_cnt is exactly the number of chunks that are marked for *)
(* retransmission.                                                            *)
THEOREM RetranCountExact ==
  ASSUME ~ProbeFails
  PROVE  Spec => []RetranExact
<1>1. SenderInv => RetranExact
  BY DEF SenderInv, Books, Accounted, Booked, RetranExact
<1> QED
  BY <1>1, SenderInvariant, PTL
=============================================================================

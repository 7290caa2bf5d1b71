-------------------------- MODULE SctpTsnMapProofs --------------------------
(***************************************************************************)
(* Theorems about SctpTsnMap for every width of the TSN space, every size  *)
(* of the arrays and every initial TSN: the state keeps its type, the      *)
(* assertions of sctp_slide_mapping_arrays hold, SACKs are complete and    *)
(* are not forgotten, and the arrays implement ReceivedSet.                *)
(***************************************************************************)
EXTENDS SctpTsnMap, FiniteSetTheorems, WellFoundedInduction, TLAPS

-----------------------------------------------------------------------------
(***************************************************************************)
(* Serial arithmetic.  Nth unwraps TSNs; as long as the numbers are less   *)
(* than half of the TSN space apart, the macros on TSNs do on them what    *)
(* they say.                                                               *)
(***************************************************************************)
LEMMA NthType ==
  ASSUME NEW t \in Tsns
  PROVE  Nth(t) \in 0..(TsnSpace - 1)
  BY WidthAssumption DEF Nth, Gap, Add, TsnSpace, Tsns

LEMMA NthTsnType ==
  ASSUME NEW n \in 0..(MaxSent + 1)
  PROVE  NthTsn(n) \in Tsns /\ Nth(NthTsn(n)) = n
  BY WidthAssumption DEF Nth, NthTsn, Gap, Add, TsnSpace, Tsns

LEMMA AddNth ==
  ASSUME NEW t \in Tsns, NEW k \in Int, Nth(t) + k \in 0..(TsnSpace - 1)
  PROVE  Add(t, k) \in Tsns /\ Nth(Add(t, k)) = Nth(t) + k
  BY WidthAssumption DEF Nth, Gap, Add, TsnSpace, Tsns

LEMMA EqNth ==
  ASSUME NEW t \in Tsns, NEW u \in Tsns
  PROVE  t = u <=> Nth(t) = Nth(u)
  BY WidthAssumption DEF Nth, Gap, Add, TsnSpace, Tsns

LEMMA GtNth ==
  ASSUME NEW t \in Tsns, NEW u \in Tsns,
         Nth(t) - Nth(u) < HalfTsn, Nth(u) - Nth(t) < HalfTsn
  PROVE  /\ TsnGt(t, u) <=> Nth(t) > Nth(u)
         /\ TsnGe(t, u) <=> Nth(t) >= Nth(u)
  BY WidthAssumption DEF Nth, Gap, Add, TsnGt, TsnGe, TsnSpace, Tsns

LEMMA GapNth ==
  ASSUME NEW t \in Tsns, NEW u \in Tsns, Nth(t) >= Nth(u)
  PROVE  Gap(t, u) = Nth(t) - Nth(u)
  BY WidthAssumption DEF Nth, Gap, Add, TsnSpace, Tsns

\* Sets of numbers that are bounded have a largest one, if any.
LEMMA LargestExists ==
  ASSUME NEW k \in Nat, NEW S \in SUBSET (0..k), S # {}
  PROVE  \E g \in S : \A h \in S : h <= g
<1> DEFINE R == {k - g : g \in S}
<1>1. R \subseteq Nat /\ R # {}
  <2>1. PICK g \in S : TRUE
    OBVIOUS
  <2>2. k - g \in R
    OBVIOUS
  <2>3. \A h \in S : k - h \in Nat
    OBVIOUS
  <2> QED
    BY <2>2, <2>3
<1>2. PICK d \in R : \A e \in R : ~(<<e, d>> \in OpToRel(<, Nat))
  BY <1>1, NatLessThanWellFounded, WFMin
<1>3. \A e \in R : ~(e < d)
  BY <1>1, <1>2 DEF OpToRel
<1>4. PICK g \in S : d = k - g
  OBVIOUS
<1>5. ASSUME NEW h \in S PROVE h <= g
  <2>1. k - h \in R /\ h \in 0..k /\ g \in 0..k
    OBVIOUS
  <2> QED
    BY <1>3, <1>4, <2>1
<1> QED
  BY <1>5

\* The first number that is not in a set, up to a limit.
LEMMA FirstExists ==
  ASSUME NEW k \in Nat, NEW S
  PROVE  \E g \in 0..k : (g = k \/ g \notin S) /\ 0..(g - 1) \subseteq S
<1> DEFINE R == {g \in 0..k : g = k \/ g \notin S}
<1>1. R \subseteq Nat /\ k \in R
  OBVIOUS
<1>2. PICK g \in R : \A e \in R : ~(<<e, g>> \in OpToRel(<, Nat))
  BY <1>1, NatLessThanWellFounded, WFMin
<1>3. \A e \in R : ~(e < g)
  BY <1>1, <1>2 DEF OpToRel
<1>4. ASSUME NEW e \in 0..(g - 1) PROVE e \in S
  <2>1. e \in 0..k /\ e < g
    OBVIOUS
  <2> QED
    BY <1>3, <2>1
<1> QED
  BY <1>4

-----------------------------------------------------------------------------
(***************************************************************************)
(* The invariant of the arrays, in numbers: b, c, h and n are the base,    *)
(* cumulative and highest TSNs, R and N the two arrays of k bits.  The     *)
(* cumulative TSN is at the base or in an unbroken run after it, it need   *)
(* not be at the end of the run.  The highest TSNs bound the bits, are in  *)
(* the arrays, and one of them is not far behind the base.                 *)
(***************************************************************************)
Good(b, c, h, n, R, N, k) ==
    /\ b \in 1..(MaxSent + 1) /\ c \in 0..MaxSent /\ h \in 0..MaxSent /\ n \in 0..MaxSent
    /\ R \in SUBSET Nat /\ N \in SUBSET Nat /\ R \cap N = {}
    /\ k \in Nat \ {0}
    /\ c >= b - 1 /\ 0..(c - b) \subseteq R \cup N
    /\ \A g \in R : b + g <= h /\ g < k
    /\ \A g \in N : b + g <= n /\ g < k
    /\ h >= b - 1 \/ n >= b - 1
    /\ h < b + k /\ n < b + k

MapType == [base : Tsns, cum : Tsns, hi : Tsns, nhi : Tsns,
            r : SUBSET Nat, nr : SUBSET Nat, size : Nat]

Base(x) == Nth(x.base)
Cum(x) == Nth(x.cum)
Hi(x) == Nth(x.hi)
Nhi(x) == Nth(x.nhi)
Room(x) == x.size * ByteBits

MapInv(x) ==
    /\ x \in MapType
    /\ Good(Base(x), Cum(x), Hi(x), Nhi(x), x.r, x.nr, Room(x))

\* x in numbers.
Fields(x, b, c, h, n, R, N, k) ==
    /\ x \in MapType
    /\ Base(x) = b /\ Cum(x) = c /\ Hi(x) = h /\ Nhi(x) = n
    /\ x.r = R /\ x.nr = N /\ Room(x) = k

LEMMA FieldsGood ==
  ASSUME NEW x, NEW b, NEW c, NEW h, NEW n, NEW R, NEW N, NEW k,
         Fields(x, b, c, h, n, R, N, k), Good(b, c, h, n, R, N, k)
  PROVE  MapInv(x)
  BY DEF Fields, MapInv

LEMMA Widths ==
  /\ HalfTsn \in Nat /\ TsnSpace \in Nat /\ TsnSpace = 2 * HalfTsn
  /\ MaxSent \in Nat /\ MaxSent < HalfTsn
  BY WidthAssumption DEF TsnSpace

\* The numbers of an array, all of them within half of the TSN space.
LEMMA MapNumbers ==
  ASSUME NEW x, MapInv(x)
  PROVE  /\ x.base \in Tsns /\ x.cum \in Tsns /\ x.hi \in Tsns /\ x.nhi \in Tsns
         /\ Base(x) \in 1..(MaxSent + 1) /\ Cum(x) \in 0..MaxSent
         /\ Hi(x) \in 0..MaxSent /\ Nhi(x) \in 0..MaxSent
         /\ x.r \in SUBSET Nat /\ x.nr \in SUBSET Nat /\ x.size \in Nat
         /\ Room(x) \in Nat \ {0}
  BY DEF MapInv, MapType, Good

\* The TSN of a bit.
LEMMA BitTsn ==
  ASSUME NEW x, MapInv(x), NEW g \in Nat, Base(x) + g <= MaxSent + 1
  PROVE  /\ Add(x.base, g) \in Tsns /\ Nth(Add(x.base, g)) = Base(x) + g
         /\ Gap(Add(x.base, g), x.base) = g
<1>1. x.base \in Tsns /\ Nth(x.base) = Base(x) /\ Base(x) \in 1..(MaxSent + 1)
  BY MapNumbers DEF Base
<1>2. Nth(x.base) + g \in 0..(TsnSpace - 1)
  BY <1>1, Widths
<1>3. Add(x.base, g) \in Tsns /\ Nth(Add(x.base, g)) = Base(x) + g
  BY <1>1, <1>2, AddNth
<1> QED
  BY <1>1, <1>3, GapNth

\* Comparisons of two TSNs of the association.
LEMMA Compare ==
  ASSUME NEW t \in Tsns, NEW u \in Tsns, Nth(t) \in 0..(MaxSent + 1), Nth(u) \in 0..(MaxSent + 1),
         Nth(t) <= MaxSent \/ Nth(u) > 0, Nth(u) <= MaxSent \/ Nth(t) > 0
  PROVE  /\ TsnGt(t, u) <=> Nth(t) > Nth(u)
         /\ TsnGe(t, u) <=> Nth(t) >= Nth(u)
<1>1. Nth(t) - Nth(u) < HalfTsn /\ Nth(u) - Nth(t) < HalfTsn
  BY Widths
<1> QED
  BY <1>1, GtNth

LEMMA HighestNth ==
  ASSUME NEW x, MapInv(x)
  PROVE  /\ Highest(x) \in Tsns
         /\ Nth(Highest(x)) = IF Nhi(x) > Hi(x) THEN Nhi(x) ELSE Hi(x)
<1>1. x.hi \in Tsns /\ x.nhi \in Tsns /\ Nth(x.hi) \in 0..MaxSent /\ Nth(x.nhi) \in 0..MaxSent
  BY MapNumbers DEF Hi, Nhi
<1>2. TsnGt(x.nhi, x.hi) <=> Nth(x.nhi) > Nth(x.hi)
  BY <1>1, Compare, Widths
<1> QED
  BY <1>1, <1>2 DEF Highest, Hi, Nhi

-----------------------------------------------------------------------------
(***************************************************************************)
(* Growing the arrays, and setting a bit.                                  *)
(***************************************************************************)

\* t is not a duplicate and not beyond the arrays.
Fits(x, t) ==
    /\ t \in Tsns /\ Nth(t) \in 1..MaxSent /\ Nth(t) > Cum(x)
    /\ Nth(t) - Base(x) < Room(x) /\ Nth(t) - Base(x) \notin Bits(x)

\* y has the numbers of x in larger arrays.
Grown(x, y) ==
    /\ Fields(y, Base(x), Cum(x), Hi(x), Nhi(x), x.r, x.nr, Room(y))
    /\ Room(y) \in Nat /\ Room(y) >= Room(x)

LEMMA GrownGood ==
  ASSUME NEW x, MapInv(x), NEW y, Grown(x, y)
  PROVE  MapInv(y)
<1> DEFINE b == Base(x) c == Cum(x) h == Hi(x) n == Nhi(x) k == Room(x) j == Room(y)
<1>1. Good(b, c, h, n, x.r, x.nr, k)
  BY DEF MapInv
<1>2. j \in Nat /\ j >= k
  BY DEF Grown
<1> HIDE DEF b, c, h, n, k, j
<1>3. Good(b, c, h, n, x.r, x.nr, j)
  BY <1>1, <1>2, Widths DEF Good
<1> QED
  BY <1>3, FieldsGood DEF Grown, b, c, h, n, j

LEMMA GrowRoom ==
  ASSUME NEW x, MapInv(x), NEW gap \in Nat
  PROVE  Grown(x, Grow(x, gap)) /\ gap < Room(Grow(x, gap))
<1> DEFINE y == Grow(x, gap)
           q == (gap + ByteBits - 1) \div ByteBits
           s == x.size + q + IncrBytes
<1>1. x \in MapType /\ x.size \in Nat /\ Room(x) \in Nat \ {0}
  BY MapNumbers DEF MapInv
<1>2. ByteBits \in Nat \ {0} /\ IncrBytes \in Nat
  BY WidthAssumption
<1>3. q \in Nat /\ gap + ByteBits - 1 < q * ByteBits + ByteBits
  <2> DEFINE z == gap + ByteBits - 1
  <2>1. z \in Nat
    BY <1>2
  <2>2. z \div ByteBits \in Nat
    BY <1>2, <2>1
  <2>3. z < (z \div ByteBits) * ByteBits + ByteBits
    BY <1>2, <2>1
  <2> QED
    BY <2>2, <2>3
<1>4. y = [x EXCEPT !.size = s]
  BY DEF Grow
<1> HIDE DEF q
<1>5. s \in Nat /\ q * ByteBits \in Nat /\ IncrBytes * ByteBits \in Nat
      /\ s * ByteBits = x.size * ByteBits + q * ByteBits + IncrBytes * ByteBits
  BY <1>1, <1>2, <1>3
<1> HIDE DEF s, y
<1>6. y \in MapType /\ y.base = x.base /\ y.cum = x.cum /\ y.hi = x.hi /\ y.nhi = x.nhi
      /\ y.r = x.r /\ y.nr = x.nr /\ y.size = s
  BY <1>1, <1>4, <1>5 DEF MapType
<1>7. Room(y) \in Nat /\ Room(y) >= Room(x) /\ gap < Room(y)
  BY <1>1, <1>2, <1>3, <1>5, <1>6 DEF Room
<1> QED
  BY <1>6, <1>7 DEF Grown, Fields, Base, Cum, Hi, Nhi, y

LEMMA SetBits ==
  ASSUME NEW x, MapInv(x), NEW t, Fits(x, t)
  PROVE  LET g == Nth(t) - Base(x)
             top(u) == IF Nth(t) > u THEN Nth(t) ELSE u
         IN
         /\ Fields(SetNr(x, t), Base(x), Cum(x), Hi(x), top(Nhi(x)), x.r, x.nr \cup {g}, Room(x))
         /\ Fields(SetR(x, t), Base(x), Cum(x), top(Hi(x)), Nhi(x), x.r \cup {g}, x.nr, Room(x))
         /\ MapInv(SetNr(x, t)) /\ MapInv(SetR(x, t))
<1> DEFINE b == Base(x) c == Cum(x) h == Hi(x) n == Nhi(x) k == Room(x)
           g == Nth(t) - b
           top(u) == IF Nth(t) > u THEN Nth(t) ELSE u
           nh == IF TsnGt(t, x.nhi) THEN t ELSE x.nhi
           hh == IF TsnGt(t, x.hi) THEN t ELSE x.hi
           S == x.nr \cup {g}
           T == x.r \cup {g}
<1>1. Good(b, c, h, n, x.r, x.nr, k) /\ x \in MapType
  BY DEF MapInv
<1>2. /\ t \in Tsns /\ Nth(t) \in 1..MaxSent /\ Nth(t) > c /\ Nth(t) - b < k
      /\ g \notin x.r /\ g \notin x.nr /\ g \in Nat /\ Nth(t) >= b
  BY <1>1, Widths DEF Fits, Good, Bits
<1>3. Gap(t, x.base) = g
  BY <1>1, <1>2, MapNumbers, GapNth DEF Base
<1>4. nh \in Tsns /\ hh \in Tsns /\ Nth(nh) = top(n) /\ Nth(hh) = top(h)
  <2>1. x.hi \in Tsns /\ x.nhi \in Tsns /\ Nth(x.hi) \in 0..MaxSent /\ Nth(x.nhi) \in 0..MaxSent
    BY MapNumbers DEF Hi, Nhi
  <2>2. TsnGt(t, x.nhi) <=> Nth(t) > Nth(x.nhi)
    BY <1>2, <2>1, Compare, Widths
  <2>3. TsnGt(t, x.hi) <=> Nth(t) > Nth(x.hi)
    BY <1>2, <2>1, Compare, Widths
  <2> QED
    BY <1>2, <2>1, <2>2, <2>3 DEF Hi, Nhi
<1>5. S \in SUBSET Nat /\ T \in SUBSET Nat
  BY <1>1, <1>2 DEF MapType
<1>6. SetNr(x, t) = [x EXCEPT !.nr = S, !.nhi = nh] /\ SetR(x, t) = [x EXCEPT !.r = T, !.hi = hh]
  BY <1>1, <1>3 DEF SetNr, SetR, MapType
<1> HIDE DEF nh, hh, S, T
<1>7. ASSUME NEW y, y = [x EXCEPT !.nr = S, !.nhi = nh]
      PROVE  Fields(y, b, c, h, top(n), x.r, S, k)
  BY <1>1, <1>4, <1>5, <1>7 DEF MapType, Fields, Base, Cum, Hi, Nhi, Room
<1>8. ASSUME NEW y, y = [x EXCEPT !.r = T, !.hi = hh]
      PROVE  Fields(y, b, c, top(h), n, T, x.nr, k)
  BY <1>1, <1>4, <1>5, <1>8 DEF MapType, Fields, Base, Cum, Hi, Nhi, Room
<1>9. Fields(SetNr(x, t), b, c, h, top(n), x.r, S, k) /\ Fields(SetR(x, t), b, c, top(h), n, T, x.nr, k)
  BY <1>6, <1>7, <1>8
<1> HIDE DEF b, c, h, n, k
<1>10. b + g = Nth(t)
  BY <1>1, <1>2 DEF Good
<1> HIDE DEF g
<1>11. Good(b, c, h, top(n), x.r, S, k)
  BY <1>1, <1>2, <1>10, Widths DEF Good, S
<1>12. Good(b, c, top(h), n, T, x.nr, k)
  BY <1>1, <1>2, <1>10, Widths DEF Good, T
<1>13. MapInv(SetNr(x, t)) /\ MapInv(SetR(x, t))
  BY <1>9, <1>11, <1>12, FieldsGood
<1> QED
  BY <1>9, <1>13 DEF b, c, h, n, k, g, S, T

LEMMA FollowGood ==
  ASSUME NEW x, MapInv(x), NEW t \in Tsns, Nth(t) \in 1..MaxSent,
         Nth(t) >= Base(x), Nth(t) - Base(x) \in Bits(x)
  PROVE  LET c == IF Nth(t) = Cum(x) + 1 THEN Nth(t) ELSE Cum(x) IN
         /\ Fields(Follow(x, t), Base(x), c, Hi(x), Nhi(x), x.r, x.nr, Room(x))
         /\ MapInv(Follow(x, t))
<1> DEFINE b == Base(x) c == Cum(x) h == Hi(x) n == Nhi(x) k == Room(x)
           d == IF Nth(t) = c + 1 THEN Nth(t) ELSE c
           u == IF t = Add(x.cum, 1) THEN t ELSE x.cum
           y == Follow(x, t)
<1>1. Good(b, c, h, n, x.r, x.nr, k) /\ x \in MapType
  BY DEF MapInv
<1>2. u \in Tsns /\ Nth(u) = d
  <2>1. x.cum \in Tsns /\ Nth(x.cum) = c /\ c \in 0..MaxSent
    BY MapNumbers DEF Cum
  <2>2. Nth(x.cum) + 1 \in 0..(TsnSpace - 1)
    BY <2>1, Widths
  <2>3. Add(x.cum, 1) \in Tsns /\ Nth(Add(x.cum, 1)) = c + 1
    BY <2>1, <2>2, AddNth
  <2> QED
    BY <2>1, <2>3, EqNth
<1>3. y = [x EXCEPT !.cum = u]
  BY DEF Follow
<1> HIDE DEF u, y
<1>4. Fields(y, b, d, h, n, x.r, x.nr, k)
  BY <1>1, <1>2, <1>3 DEF MapType, Fields, Base, Cum, Hi, Nhi, Room
<1>5. Nth(t) >= b /\ Nth(t) - b \in x.r \cup x.nr
  BY DEF Bits
<1> HIDE DEF b, c, h, n, k
<1>6. Good(b, d, h, n, x.r, x.nr, k)
  <2>1. b \in Int /\ c \in Int /\ c >= b - 1 /\ 0..(c - b) \subseteq x.r \cup x.nr
    BY <1>1 DEF Good
  <2>2. 0..(d - b) \subseteq x.r \cup x.nr
    <3>1. CASE Nth(t) = c + 1
      <4>1. \A g \in 0..(d - b) : g \in 0..(c - b) \/ g = Nth(t) - b
        BY <2>1, <3>1
      <4> QED
        BY <1>5, <2>1, <4>1
    <3>2. CASE Nth(t) # c + 1
      BY <2>1, <3>2
    <3> QED
      BY <3>1, <3>2
  <2>3. d \in 0..MaxSent /\ d >= b - 1
    BY <1>1, <2>1, Widths DEF Good
  <2> QED
    BY <1>1, <2>2, <2>3 DEF Good
<1>7. MapInv(y)
  BY <1>4, <1>6, FieldsGood
<1> QED
  BY <1>4, <1>7 DEF b, c, h, n, k, y

-----------------------------------------------------------------------------
(***************************************************************************)
(* The highest revokable TSN backs down to what is left.                   *)
(***************************************************************************)
LEMMA BackDownGood ==
  ASSUME NEW x, MapInv(x), NEW from \in Tsns, Nth(from) \in 0..MaxSent,
         \A g \in x.r : Base(x) + g <= Nth(from)
  PROVE  \E h \in Nat :
           /\ Fields(BackDown(x, from), Base(x), Cum(x), h, Nhi(x), x.r, x.nr, Room(x))
           /\ MapInv(BackDown(x, from))
<1> DEFINE b == Base(x) c == Cum(x) n == Nhi(x) k == Room(x)
           left == {g \in x.r : TsnGe(from, Add(x.base, g))}
           G == CHOOSE g \in left : \A h \in left : h <= g
           u == IF left = {} THEN Add(x.base, -1) ELSE Add(x.base, G)
           y == BackDown(x, from)
<1>1. Good(b, c, Hi(x), n, x.r, x.nr, k) /\ x \in MapType
  BY DEF MapInv
<1>2. \A g \in x.r : g \in Nat /\ b + g <= MaxSent
  BY <1>1, Widths DEF Good
<1>3. left = x.r
  <2> SUFFICES ASSUME NEW g \in x.r PROVE TsnGe(from, Add(x.base, g))
    OBVIOUS
  <2>1. Add(x.base, g) \in Tsns /\ Nth(Add(x.base, g)) = b + g
    BY <1>2, BitTsn, Widths, MapNumbers
  <2>2. Nth(Add(x.base, g)) \in 0..MaxSent /\ Nth(from) >= Nth(Add(x.base, g))
    BY <1>2, <2>1, MapNumbers, Widths
  <2> QED
    BY <2>1, <2>2, Compare, Widths
<1>4. ASSUME left # {} PROVE G \in x.r /\ \A h \in x.r : h <= G
  <2>1. x.r \in SUBSET (0..MaxSent) /\ MaxSent \in Nat
    BY <1>2, MapNumbers, Widths
  <2>2. \E g \in left : \A h \in left : h <= g
    BY <1>3, <1>4, <2>1, LargestExists
  <2> QED
    BY <1>3, <2>2
<1>5. /\ u \in Tsns
      /\ Nth(u) = IF left = {} THEN b - 1 ELSE b + G
  <2>1. CASE left = {}
    <3>1. x.base \in Tsns /\ Nth(x.base) = b /\ b \in 1..(MaxSent + 1)
      BY MapNumbers DEF Base
    <3>2. Nth(x.base) + (-1) \in 0..(TsnSpace - 1) /\ -1 \in Int
      BY <3>1, Widths
    <3>3. Add(x.base, -1) \in Tsns /\ Nth(Add(x.base, -1)) = Nth(x.base) + (-1)
      BY <3>1, <3>2, AddNth
    <3> QED
      BY <2>1, <3>1, <3>3
  <2>2. CASE left # {}
    <3>1. G \in Nat /\ b + G <= MaxSent
      BY <1>2, <1>4, <2>2
    <3>2. Add(x.base, G) \in Tsns /\ Nth(Add(x.base, G)) = b + G
      BY <3>1, BitTsn, Widths, MapNumbers
    <3> QED
      BY <2>2, <3>2
  <2> QED
    BY <2>1, <2>2
<1>6. y = [x EXCEPT !.hi = u]
  BY DEF BackDown
<1> HIDE DEF u, y, G
<1>7. Fields(y, b, c, Nth(u), n, x.r, x.nr, k)
  BY <1>1, <1>5, <1>6 DEF MapType, Fields, Base, Cum, Hi, Nhi, Room
<1> HIDE DEF b, c, n, k, left
<1>8. Good(b, c, Nth(u), n, x.r, x.nr, k)
  <2>1. CASE left = {}
    BY <1>1, <1>3, <1>5, <2>1, Widths DEF Good
  <2>2. CASE left # {}
    <3>1. G \in x.r /\ \A h \in x.r : h <= G
      BY <1>4, <2>2
    <3>2. Nth(u) = b + G /\ b + G <= MaxSent /\ b \in Nat \ {0} /\ G \in Nat /\ G < k
      BY <1>1, <1>2, <1>5, <2>2, <3>1, Widths DEF Good
    <3> QED
      BY <1>1, <3>1, <3>2, Widths DEF Good
  <2> QED
    BY <2>1, <2>2
<1>9. MapInv(y) /\ Nth(u) \in Nat
  BY <1>7, <1>8, FieldsGood DEF Good
<1> QED
  BY <1>7, <1>9 DEF b, c, n, k, y

-----------------------------------------------------------------------------
(***************************************************************************)
(* Chunks that become non-revokable, and chunks that are dropped.          *)
(***************************************************************************)

\* y is x with some revokable bits turned into non-revokable ones.
Moved(x, y) ==
    /\ MapInv(y)
    /\ \E G \in SUBSET x.r, h \in Nat, n \in Nat :
         Fields(y, Base(x), Cum(x), h, n, x.r \ G, x.nr \cup G, Room(x))

\* Chunks that wait have their TSN and its bit.
LEMMA WaitingTsns ==
  ASSUME NEW x, MapInv(x), NEW D \in SUBSET Waiting(x)
  PROVE  /\ {Gap(t, x.base) : t \in D} \in SUBSET x.r
         /\ \A t \in D : /\ t \in Tsns /\ Nth(t) \in 1..MaxSent
                         /\ Gap(t, x.base) \in x.r
                         /\ Nth(t) = Base(x) + Gap(t, x.base)
<1>1. ASSUME NEW t \in D
      PROVE  /\ t \in Tsns /\ Nth(t) \in 1..MaxSent
             /\ Gap(t, x.base) \in x.r /\ Nth(t) = Base(x) + Gap(t, x.base)
  <2>1. PICK g \in x.r : t = Add(x.base, g)
    BY DEF Waiting
  <2>2. g \in Nat /\ Base(x) + g <= MaxSent /\ Base(x) \in Nat \ {0}
    BY Widths DEF MapInv, Good
  <2>3. t \in Tsns /\ Nth(t) = Base(x) + g /\ Gap(t, x.base) = g
    BY <2>1, <2>2, BitTsn, Widths
  <2> QED
    BY <2>2, <2>3, Widths
<1> QED
  BY <1>1

LEMMA MarkGood ==
  ASSUME NEW x, MapInv(x), NEW D \in SUBSET Waiting(x)
  PROVE  Moved(x, MarkNonRevokable(x, D))
<1> DEFINE b == Base(x) c == Cum(x) h == Hi(x) n == Nhi(x) k == Room(x)
           above == {t \in D : do_drain /\ ~TsnGt(Add(x.cum, 1), t)}
           G == {Gap(t, x.base) : t \in above}
           top == {t \in above : \A u \in above : TsnGe(t, u)}
           nh == IF \E t \in top : TsnGt(t, x.nhi) THEN CHOOSE t \in top : TRUE ELSE x.nhi
           R == x.r \ G
           N == x.nr \cup G
           y == [x EXCEPT !.r = R, !.nr = N, !.nhi = nh]
           z == MarkNonRevokable(x, D)
<1>1. Good(b, c, h, n, x.r, x.nr, k) /\ x \in MapType
  BY DEF MapInv
<1>2. above \in SUBSET Waiting(x)
  OBVIOUS
<1>3. z = IF x.hi \in above THEN BackDown(y, Add(x.hi, -1)) ELSE y
  BY DEF MarkNonRevokable
<1> HIDE DEF above, z
<1>4. /\ G \in SUBSET x.r
      /\ \A t \in above : /\ t \in Tsns /\ Nth(t) \in 1..MaxSent
                          /\ Gap(t, x.base) \in x.r
                          /\ Nth(t) = b + Gap(t, x.base)
  BY <1>2, WaitingTsns
<1>5. x.nhi \in Tsns /\ Nth(x.nhi) = n /\ n \in 0..MaxSent
  BY MapNumbers DEF Nhi
<1>6. \A t, u \in above : TsnGe(t, u) <=> Nth(t) >= Nth(u)
  BY <1>4, Compare, Widths
<1>7. \A t \in above : TsnGt(t, x.nhi) <=> Nth(t) > n
  BY <1>4, <1>5, Compare, Widths
<1>8. above # {} => top # {}
  <2> SUFFICES ASSUME above # {} PROVE top # {}
    OBVIOUS
  <2> DEFINE S == {Nth(t) : t \in above}
  <2>1. S \in SUBSET (0..MaxSent) /\ S # {} /\ MaxSent \in Nat
    BY <1>4, Widths
  <2> HIDE DEF S
  <2>2. PICK s \in S : \A q \in S : q <= s
    BY <2>1, LargestExists
  <2>3. PICK t \in above : Nth(t) = s
    BY DEF S
  <2>4. \A u \in above : Nth(u) <= Nth(t) /\ Nth(u) \in Int /\ Nth(t) \in Int
    BY <1>4, <2>2, <2>3 DEF S
  <2>5. \A u \in above : TsnGe(t, u)
    BY <1>6, <2>3, <2>4
  <2> QED
    BY <2>3, <2>5
<1>9. /\ nh \in Tsns /\ Nth(nh) \in 0..MaxSent /\ Nth(nh) >= n
      /\ \A t \in above : Nth(t) <= Nth(nh)
      /\ nh = x.nhi \/ nh \in above
  <2>1. CASE \E t \in top : TsnGt(t, x.nhi)
    <3>1. nh \in top
      BY <2>1
    <3>2. PICK t \in top : TsnGt(t, x.nhi)
      BY <2>1
    <3>3. nh \in above /\ t \in above /\ Nth(t) > n
      BY <1>7, <3>1, <3>2
    <3>4. \A u \in above : TsnGe(nh, u)
      BY <3>1
    <3>5. \A u \in above : Nth(nh) >= Nth(u)
      BY <1>6, <3>3, <3>4
    <3> HIDE DEF nh
    <3>6. Nth(nh) >= Nth(t) /\ Nth(nh) \in 1..MaxSent /\ nh \in Tsns
      BY <1>4, <3>3, <3>5
    <3> QED
      BY <1>4, <1>5, <3>3, <3>5, <3>6
  <2>2. CASE ~ \E t \in top : TsnGt(t, x.nhi)
    <3>1. nh = x.nhi
      BY <2>2
    <3>2. ASSUME NEW u \in above PROVE Nth(u) <= n
      <4>1. PICK t \in top : TRUE
        BY <1>8
      <4>2. t \in above /\ TsnGe(t, u) /\ ~TsnGt(t, x.nhi)
        BY <2>2, <4>1
      <4>3. Nth(t) >= Nth(u) /\ ~(Nth(t) > n)
        BY <1>6, <1>7, <4>2
      <4> QED
        BY <1>4, <1>5, <4>2, <4>3
    <3> HIDE DEF nh
    <3>3. nh \in Tsns /\ Nth(nh) = n
      BY <1>5, <3>1
    <3> QED
      BY <1>5, <3>1, <3>2, <3>3
  <2> QED
    BY <2>1, <2>2
<1> HIDE DEF nh, top
<1>10. R \in SUBSET Nat /\ N \in SUBSET Nat
  BY <1>1, <1>4 DEF MapType
<1>10a. \A g \in G : \E t \in above : g = Nth(t) - b
  BY <1>1, <1>4 DEF Good
<1> HIDE DEF G, R, N
<1>11. Fields(y, b, c, h, Nth(nh), R, N, k)
  BY <1>1, <1>9, <1>10 DEF MapType, Fields, Base, Cum, Hi, Nhi, Room
<1>12. Good(b, c, h, Nth(nh), R, N, k)
  <2> HIDE DEF b, c, h, n, k
  <2>1. R \cup N = x.r \cup x.nr /\ R \cap N = {}
    BY <1>1, <1>4 DEF R, N, Good
  <2>2. \A g \in R : b + g <= h /\ g < k
    BY <1>1 DEF Good, R
  <2>3. \A g \in G : b + g <= Nth(nh) /\ g < k
    <3> SUFFICES ASSUME NEW g \in G PROVE b + g <= Nth(nh) /\ g < k
      OBVIOUS
    <3>1. PICK t \in above : g = Nth(t) - b
      BY <1>10a
    <3>2. Nth(t) \in Int /\ Nth(t) <= Nth(nh) /\ b \in Int
      BY <1>1, <1>4, <1>9 DEF Good
    <3>3. g < k
      BY <1>1, <1>4 DEF Good
    <3> QED
      BY <3>1, <3>2, <3>3
  <2>4. \A g \in N : b + g <= Nth(nh) /\ g < k
    BY <1>1, <1>9, <2>3, Widths DEF Good, N
  <2>5. Nth(nh) < b + k
    <3>1. CASE nh = x.nhi
      BY <1>1, <1>5, <3>1 DEF Good
    <3>2. CASE nh \in above
      <4>1. Nth(nh) <= h
        BY <1>1, <1>4, <3>2 DEF Good
      <4> QED
        BY <1>1, <1>4, <3>2, <4>1, Widths DEF Good
    <3> QED
      BY <1>9, <3>1, <3>2
  <2> QED
    BY <1>1, <1>9, <1>10, <2>1, <2>2, <2>4, <2>5, Widths DEF Good
<1>13. MapInv(y)
  BY <1>11, <1>12, FieldsGood
<1> HIDE DEF y
<1>14. CASE x.hi \notin above
  <2>1. z = y /\ h \in Nat /\ Nth(nh) \in Nat
    BY <1>1, <1>3, <1>9, <1>14 DEF Good
  <2> QED
    BY <1>4, <1>11, <1>13, <2>1 DEF Moved, R, N, b, c, k, z
<1>15. CASE x.hi \in above
  <2> DEFINE from == Add(x.hi, -1)
  <2>1. x.hi \in Tsns /\ Nth(x.hi) = h /\ h \in 1..MaxSent
    BY <1>4, <1>15 DEF Hi
  <2>2. Nth(x.hi) + (-1) \in 0..(TsnSpace - 1) /\ -1 \in Int
    BY <2>1, Widths
  <2>3. from \in Tsns /\ Nth(from) = h - 1 /\ Nth(from) \in 0..MaxSent
    <3>1. from \in Tsns /\ Nth(from) = Nth(x.hi) + (-1)
      BY <2>1, <2>2, AddNth
    <3> QED
      BY <2>1, <3>1, Widths
  <2> HIDE DEF from
  <2>4. ASSUME NEW g \in R PROVE b + g <= h - 1
    <3>1. g \in Nat /\ b + g <= h /\ g \notin G /\ b \in Nat
      BY <1>1 DEF R, Good
    <3>2. b + Gap(x.hi, x.base) = h /\ Gap(x.hi, x.base) \in G /\ Gap(x.hi, x.base) \in Nat
      BY <1>1, <1>4, <1>15, <2>1 DEF G, MapType
    <3>3. b + g # h
      BY <3>1, <3>2
    <3> QED
      BY <2>1, <3>1, <3>3
  <2>5. \A g \in y.r : Base(y) + g <= Nth(from)
    BY <1>11, <2>3, <2>4 DEF Fields
  <2>6. PICK q \in Nat :
          /\ Fields(BackDown(y, from), Base(y), Cum(y), q, Nhi(y), y.r, y.nr, Room(y))
          /\ MapInv(BackDown(y, from))
    BY <1>13, <2>3, <2>5, BackDownGood
  <2>7. z = BackDown(y, from)
    BY <1>3, <1>15 DEF from
  <2>8. Fields(z, b, c, q, Nth(nh), R, N, k) /\ MapInv(z) /\ Nth(nh) \in Nat
    BY <1>9, <1>11, <2>6, <2>7 DEF Fields
  <2> QED
    BY <1>4, <2>8 DEF Moved, R, N, b, c, k, z
<1> QED
  BY <1>14, <1>15

\* Chunks of D are dropped, each of them beyond the next one expected.
LEMMA DrainGood ==
  ASSUME NEW x, MapInv(x),
         NEW D \in SUBSET {t \in Waiting(x) : TsnGt(t, Add(x.cum, 1))}
  PROVE  LET y == DrainMap(x, D) IN
         /\ MapInv(y)
         /\ \E G \in SUBSET x.r, h \in Nat :
              /\ \A g \in G : Base(x) + g > Cum(x) + 1
              /\ Fields(y, Base(x), Cum(x), h, Nhi(x), x.r \ G, x.nr, Room(x))
<1> DEFINE b == Base(x) c == Cum(x) h == Hi(x) n == Nhi(x) k == Room(x)
           G == {Gap(t, x.base) : t \in D}
           R == x.r \ G
           y == [x EXCEPT !.r = R]
           z == DrainMap(x, D)
<1>1. Good(b, c, h, n, x.r, x.nr, k) /\ x \in MapType
  BY DEF MapInv
<1>2. D \in SUBSET Waiting(x)
  OBVIOUS
<1>3. /\ G \in SUBSET x.r
      /\ \A t \in D : /\ t \in Tsns /\ Nth(t) \in 1..MaxSent
                      /\ Gap(t, x.base) \in x.r
                      /\ Nth(t) = b + Gap(t, x.base)
  BY <1>2, WaitingTsns
<1>4. \A g \in G : b + g > c + 1
  <2> SUFFICES ASSUME NEW t \in D PROVE Nth(t) > c + 1
    BY <1>3
  <2>1. x.cum \in Tsns /\ Nth(x.cum) = c /\ c \in 0..MaxSent
    BY MapNumbers DEF Cum
  <2>2. Nth(x.cum) + 1 \in 0..(TsnSpace - 1)
    BY <2>1, Widths
  <2>3. Add(x.cum, 1) \in Tsns /\ Nth(Add(x.cum, 1)) = c + 1
    BY <2>1, <2>2, AddNth
  <2>4. TsnGt(t, Add(x.cum, 1)) /\ t \in Tsns /\ Nth(t) \in 1..MaxSent
    BY <1>3
  <2>5. Nth(Add(x.cum, 1)) \in 1..(MaxSent + 1)
    BY <2>1, <2>3, Widths
  <2>6. TsnGt(t, Add(x.cum, 1)) <=> Nth(t) > Nth(Add(x.cum, 1))
    BY <2>3, <2>4, <2>5, Compare, Widths
  <2> QED
    BY <2>3, <2>4, <2>6
<1>5. z = BackDown(y, x.hi)
  BY DEF DrainMap
<1>6. R \in SUBSET Nat
  BY <1>1 DEF MapType
<1> HIDE DEF G, R, z
<1>7. Fields(y, b, c, h, n, R, x.nr, k)
  BY <1>1, <1>6 DEF MapType, Fields, Base, Cum, Hi, Nhi, Room
<1>8. Good(b, c, h, n, R, x.nr, k)
  <2> HIDE DEF b, c, h, n, k
  <2>1. 0..(c - b) \subseteq R \cup x.nr
    BY <1>1, <1>4 DEF R, Good
  <2> QED
    BY <1>1, <1>6, <2>1 DEF R, Good
<1>9. MapInv(y)
  BY <1>7, <1>8, FieldsGood
<1> HIDE DEF y
<1>10. x.hi \in Tsns /\ Nth(x.hi) = h /\ h \in 0..MaxSent
  BY MapNumbers DEF Hi
<1>11. \A g \in y.r : Base(y) + g <= Nth(x.hi)
  BY <1>7, <1>8, <1>10 DEF Fields, Good
<1>12. PICK q \in Nat : /\ Fields(z, Base(y), Cum(y), q, Nhi(y), y.r, y.nr, Room(y))
                        /\ MapInv(z)
  BY <1>5, <1>9, <1>10, <1>11, BackDownGood
<1>13. Fields(z, b, c, q, n, R, x.nr, k)
  BY <1>7, <1>12 DEF Fields
<1> QED
  BY <1>3, <1>4, <1>12, <1>13 DEF R, z

-----------------------------------------------------------------------------
(***************************************************************************)
(* What the arrays stand for.                                              *)
(***************************************************************************)
GotOf(x) == 1..(Base(x) - 1) \cup {Base(x) + g : g \in Bits(x)}
KeptOf(x) == 1..Cum(x) \cup 1..(Base(x) - 1) \cup {Base(x) + g : g \in x.nr}

LEMMA GotMember ==
  ASSUME NEW x, MapInv(x)
  PROVE  /\ GotOf(x) \in SUBSET (1..MaxSent) /\ KeptOf(x) \subseteq GotOf(x)
         /\ \A i \in 1..MaxSent :
              /\ i \in GotOf(x) <=> i < Base(x) \/ i - Base(x) \in Bits(x)
              /\ i \in KeptOf(x) <=> i <= Cum(x) \/ i - Base(x) \in x.nr
<1> DEFINE b == Base(x) c == Cum(x)
<1>1. Good(b, c, Hi(x), Nhi(x), x.r, x.nr, Room(x))
  BY DEF MapInv
<1>2. /\ b \in 1..(MaxSent + 1) /\ c \in 0..MaxSent /\ c >= b - 1
      /\ Bits(x) \in SUBSET Nat /\ x.nr \subseteq Bits(x)
      /\ \A g \in Bits(x) : b + g <= MaxSent
      /\ 0..(c - b) \subseteq Bits(x)
  BY <1>1, Widths DEF Good, Bits
<1> HIDE DEF b, c
<1>3. GotOf(x) = 1..(b - 1) \cup {b + g : g \in Bits(x)}
  BY DEF GotOf, b
<1>4. KeptOf(x) = 1..c \cup 1..(b - 1) \cup {b + g : g \in x.nr}
  BY DEF KeptOf, b, c
<1>5. GotOf(x) \in SUBSET (1..MaxSent)
  BY <1>2, <1>3, Widths
<1>6. \A i \in 1..MaxSent : i \in GotOf(x) <=> i < b \/ i - b \in Bits(x)
  <2> SUFFICES ASSUME NEW i \in 1..MaxSent
               PROVE  i \in GotOf(x) <=> i < b \/ i - b \in Bits(x)
    OBVIOUS
  <2>1. i - b \in Bits(x) => i = b + (i - b)
    BY <1>2
  <2>2. \A g \in Bits(x) : (b + g) - b = g
    BY <1>2
  <2> QED
    BY <1>2, <1>3, <2>1, <2>2
<1>7. \A i \in 1..MaxSent : i \in KeptOf(x) <=> i <= c \/ i - b \in x.nr
  <2> SUFFICES ASSUME NEW i \in 1..MaxSent
               PROVE  i \in KeptOf(x) <=> i <= c \/ i - b \in x.nr
    OBVIOUS
  <2>1. i - b \in x.nr => i = b + (i - b)
    BY <1>2
  <2>2. \A g \in x.nr : (b + g) - b = g
    BY <1>2
  <2>3. i \in 1..(b - 1) => i <= c
    BY <1>2
  <2> QED
    BY <1>2, <1>4, <2>1, <2>2, <2>3
<1>8. KeptOf(x) \subseteq GotOf(x)
  <2> SUFFICES ASSUME NEW i \in KeptOf(x) PROVE i \in GotOf(x)
    OBVIOUS
  <2>1. CASE i \in 1..c
    <3>1. i < b \/ i - b \in 0..(c - b)
      BY <1>2, <2>1
    <3>2. i \in 1..MaxSent
      BY <1>2, <2>1, Widths
    <3> QED
      BY <1>2, <1>6, <3>1, <3>2
  <2>2. CASE i \in 1..(b - 1)
    BY <1>3, <2>2
  <2>3. CASE i \in {b + g : g \in x.nr}
    BY <1>2, <1>3, <2>3
  <2> QED
    BY <1>4, <2>1, <2>2, <2>3
<1> QED
  BY <1>5, <1>6, <1>7, <1>8 DEF b, c

-----------------------------------------------------------------------------
(***************************************************************************)
(* sctp_slide_mapping_arrays.                                              *)
(***************************************************************************)
LEMMA FirstClearIs ==
  ASSUME NEW x, MapInv(x)
  PROVE  LET F == FirstClear(x)
             top == Nth(Highest(x))
         IN
         /\ F \in 0..Room(x) /\ F \notin Bits(x) /\ 0..(F - 1) \subseteq Bits(x)
         /\ F >= Cum(x) + 1 - Base(x)
         /\ Base(x) + F - 1 \in 0..MaxSent /\ Base(x) + F - 1 <= top
         /\ top \in 0..MaxSent /\ top < Base(x) + Room(x) /\ Highest(x) \in Tsns
         /\ \A g \in Bits(x) : g \in Nat /\ Base(x) + g <= top
<1> DEFINE b == Base(x) c == Cum(x) h == Hi(x) n == Nhi(x) k == Room(x)
           F == FirstClear(x)
           top == Nth(Highest(x))
<1>1. Good(b, c, h, n, x.r, x.nr, k)
  BY DEF MapInv
<1>2. top = (IF n > h THEN n ELSE h) /\ Highest(x) \in Tsns
  BY HighestNth
<1>3. k \in Nat
  BY <1>1 DEF Good
<1>4. \E g \in 0..k : (g = k \/ g \notin Bits(x)) /\ 0..(g - 1) \subseteq Bits(x)
  BY <1>3, FirstExists
<1>5. F \in 0..k /\ (F = k \/ F \notin Bits(x)) /\ 0..(F - 1) \subseteq Bits(x)
  BY <1>4 DEF FirstClear, Room
<1> HIDE DEF b, c, h, n, k, F, top
<1>6. \A g \in Bits(x) : g \in Nat /\ b + g <= top /\ g < k /\ b + g <= MaxSent
  BY <1>1, <1>2, Widths DEF Good, Bits
<1>7. F \notin Bits(x)
  BY <1>3, <1>5, <1>6
<1>8. F >= c + 1 - b
  <2> SUFFICES ASSUME F < c + 1 - b PROVE FALSE
    BY <1>1, <1>5 DEF Good
  <2>1. F \in 0..(c - b) /\ 0..(c - b) \subseteq Bits(x)
    BY <1>1, <1>5 DEF Good, Bits
  <2> QED
    BY <1>7, <2>1
<1>9. top \in 0..MaxSent /\ top < b + k /\ top >= b - 1 /\ b \in 1..(MaxSent + 1)
  <2>1. /\ b \in 1..(MaxSent + 1) /\ h \in 0..MaxSent /\ n \in 0..MaxSent
        /\ h >= b - 1 \/ n >= b - 1
        /\ h < b + k /\ n < b + k
    BY <1>1 DEF Good
  <2>2. CASE n > h
    BY <1>2, <2>1, <2>2, Widths
  <2>3. CASE ~(n > h)
    BY <1>2, <2>1, <2>3, Widths
  <2> QED
    BY <2>2, <2>3
<1>10. b + F - 1 \in 0..MaxSent /\ b + F - 1 <= top
  <2>1. CASE F = 0
    BY <1>9, <2>1, Widths
  <2>2. CASE F # 0
    <3>1. F - 1 \in Bits(x)
      BY <1>5, <2>2
    <3>2. b + (F - 1) <= top /\ b + (F - 1) <= MaxSent
      BY <1>6, <3>1
    <3> QED
      BY <1>5, <1>9, <3>2, Widths
  <2> QED
    BY <2>1, <2>2
<1> QED
  BY <1>2, <1>5, <1>6, <1>7, <1>8, <1>9, <1>10 DEF b, c, k, F, top

\* The cumulative TSN goes to the end of the run; it passes no highest TSN.
LEMMA SlideCumGood ==
  ASSUME NEW x, MapInv(x)
  PROVE  LET y == SlideCum(x) IN
         /\ Fields(y, Base(x), Base(x) + FirstClear(x) - 1, Hi(x), Nhi(x), x.r, x.nr, Room(x))
         /\ MapInv(y) /\ Highest(y) = Highest(x) /\ ~CumPassesHighest(y)
         /\ y.size = x.size /\ y.base = x.base
<1> DEFINE b == Base(x) c == Cum(x) h == Hi(x) n == Nhi(x) k == Room(x)
           F == FirstClear(x)
           u == Add(x.base, F - 1)
           y == SlideCum(x)
           top == Nth(Highest(x))
<1>1. Good(b, c, h, n, x.r, x.nr, k) /\ x \in MapType
  BY DEF MapInv
<1>2. /\ F \in 0..k /\ 0..(F - 1) \subseteq Bits(x) /\ b + F - 1 \in 0..MaxSent
      /\ b + F - 1 <= top
  BY FirstClearIs
<1>3. y = [x EXCEPT !.cum = u]
  BY DEF SlideCum
<1> HIDE DEF F
<1>4. u \in Tsns /\ Nth(u) = b + F - 1
  <2>1. x.base \in Tsns /\ Nth(x.base) = b /\ b \in 1..(MaxSent + 1) /\ F - 1 \in Int
    BY <1>1, <1>2, MapNumbers DEF Base, Good
  <2>2. Nth(x.base) + (F - 1) \in 0..(TsnSpace - 1)
    BY <1>2, <2>1, Widths
  <2>3. u \in Tsns /\ Nth(u) = Nth(x.base) + (F - 1)
    BY <2>1, <2>2, AddNth
  <2> QED
    BY <2>1, <2>3
<1> HIDE DEF u, y
<1>5. /\ Fields(y, b, b + F - 1, h, n, x.r, x.nr, k)
      /\ y.hi = x.hi /\ y.nhi = x.nhi /\ y.size = x.size /\ y.base = x.base /\ y.cum = u
  BY <1>1, <1>3, <1>4 DEF MapType, Fields, Base, Cum, Hi, Nhi, Room
<1>6. Highest(y) = Highest(x)
  BY <1>5 DEF Highest
<1>7. Good(b, b + F - 1, h, n, x.r, x.nr, k)
  <2> HIDE DEF b, c, h, n, k
  <2>1. 0..((b + F - 1) - b) \subseteq x.r \cup x.nr /\ b + F - 1 >= b - 1
    <3>1. (b + F - 1) - b = F - 1 /\ b + F - 1 >= b - 1
      BY <1>1, <1>2 DEF Good
    <3> QED
      BY <1>2, <3>1 DEF Bits
  <2> QED
    BY <1>1, <1>2, <2>1 DEF Good
<1>8. MapInv(y)
  BY <1>5, <1>7, FieldsGood
<1>9. ~CumPassesHighest(y)
  <2>1. /\ y.cum \in Tsns /\ y.hi \in Tsns /\ y.nhi \in Tsns
        /\ Nth(y.cum) = b + F - 1 /\ Nth(y.hi) = h /\ Nth(y.nhi) = n
        /\ h \in 0..MaxSent /\ n \in 0..MaxSent
    BY <1>1, <1>4, <1>5, MapNumbers DEF Hi, Nhi
  <2>2. /\ TsnGt(y.cum, y.hi) <=> Nth(y.cum) > Nth(y.hi)
        /\ TsnGt(y.cum, y.nhi) <=> Nth(y.cum) > Nth(y.nhi)
    BY <1>2, <2>1, Compare, Widths
  <2>3. top = IF n > h THEN n ELSE h
    BY HighestNth
  <2> HIDE DEF top
  <2> QED
    BY <1>2, <2>1, <2>2, <2>3 DEF CumPassesHighest
<1> QED
  BY <1>5, <1>6, <1>8, <1>9 DEF b, h, n, k, F, y

\* A slide stays inside the arrays.
LEMMA SlideInside ==
  ASSUME NEW x, MapInv(x), NEW y, y = SlideCum(x), y.cum # Highest(y), FirstClear(x) >= ByteBits
  PROVE  /\ SlideBytes(x) <= SlideEnd(y) /\ SlideEnd(y) < x.size
         /\ SlideEnd(y) \in Nat
         /\ Nth(Highest(x)) - Base(x) < (SlideEnd(y) + 1) * ByteBits
<1> DEFINE b == Base(x) F == FirstClear(x) top == Nth(Highest(x)) g == top - b
<1>1. /\ F \in Nat /\ b + F - 1 <= top /\ top \in 0..MaxSent /\ top < b + Room(x)
      /\ b \in 1..(MaxSent + 1) /\ Highest(x) \in Tsns
  BY FirstClearIs, MapNumbers
<1>2. /\ Highest(y) = Highest(x) /\ Nth(y.cum) = b + F - 1 /\ y.cum \in Tsns
      /\ y.base = x.base /\ x.base \in Tsns
  BY SlideCumGood, MapNumbers DEF Fields, Cum, MapInv, MapType
<1>3. top # b + F - 1
  BY <1>1, <1>2, EqNth
<1> HIDE DEF F, top
<1>4. g \in Nat /\ g >= F /\ g < Room(x)
  BY <1>1, <1>3, MapNumbers
<1>5. Gap(Highest(y), y.base) = g
  <2>1. Nth(Highest(x)) >= Nth(x.base)
    BY <1>1, <1>3, WidthAssumption DEF Base, top
  <2> QED
    BY <1>1, <1>2, <2>1, GapNth DEF Base, top
<1>6. ByteBits \in Nat \ {0} /\ x.size \in Nat /\ Room(x) = x.size * ByteBits
  BY WidthAssumption, MapNumbers DEF Room
<1> HIDE DEF g
<1>7. SlideEnd(y) = g \div ByteBits /\ SlideBytes(x) = F \div ByteBits
  BY <1>5 DEF SlideEnd, SlideBytes, F
<1>8. g \div ByteBits \in Nat /\ F \div ByteBits \in Nat /\ F \div ByteBits <= g \div ByteBits
  BY <1>1, <1>4, <1>6
<1>9. g < (g \div ByteBits + 1) * ByteBits /\ g \div ByteBits < x.size
  BY <1>4, <1>6
<1> QED
  BY <1>7, <1>8, <1>9 DEF g, top, b

\* y is x after a slide: the same TSNs, and the cumulative TSN at the end of the
\* run, in the first byte.
Slid(x, y) ==
    /\ MapInv(y)
    /\ Cum(y) >= Cum(x) /\ Cum(y) + 1 \notin GotOf(y) /\ Cum(y) + 1 - Base(y) \notin Bits(y)
    /\ GotOf(y) = GotOf(x) /\ KeptOf(x) \subseteq KeptOf(y)
    /\ Cum(y) + 1 - Base(y) < ByteBits

\* The end of the run, in a map y with other arrays.
LEMMA SlidIs ==
  ASSUME NEW x, MapInv(x), NEW y, MapInv(y),
         Cum(y) = Base(x) + FirstClear(x) - 1,
         \A i \in 1..MaxSent :
            i < Base(y) \/ i - Base(y) \in Bits(y) <=> i < Base(x) \/ i - Base(x) \in Bits(x),
         \A i \in 1..MaxSent : i - Base(x) \in x.nr => i <= Cum(y) \/ i - Base(y) \in y.nr,
         Cum(y) + 1 - Base(y) < ByteBits
  PROVE  Slid(x, y)
<1> DEFINE F == FirstClear(x)
<1>1. /\ F \in Nat /\ F \notin Bits(x) /\ F >= Cum(x) + 1 - Base(x)
      /\ Base(x) \in 1..(MaxSent + 1) /\ Cum(x) \in 0..MaxSent
      /\ Base(y) \in 1..(MaxSent + 1) /\ Cum(y) \in 0..MaxSent
  BY FirstClearIs, MapNumbers
<1> HIDE DEF F
<1>2. Cum(y) = Base(x) + F - 1
  BY DEF F
<1>3. Cum(y) >= Cum(x)
  BY <1>1, <1>2
<1>4. /\ GotOf(x) \in SUBSET (1..MaxSent) /\ GotOf(y) \in SUBSET (1..MaxSent)
      /\ KeptOf(x) \subseteq GotOf(x)
      /\ \A i \in 1..MaxSent :
           /\ i \in GotOf(x) <=> i < Base(x) \/ i - Base(x) \in Bits(x)
           /\ i \in GotOf(y) <=> i < Base(y) \/ i - Base(y) \in Bits(y)
           /\ i \in KeptOf(x) <=> i <= Cum(x) \/ i - Base(x) \in x.nr
           /\ i \in KeptOf(y) <=> i <= Cum(y) \/ i - Base(y) \in y.nr
  BY GotMember
<1>5. GotOf(y) = GotOf(x)
  BY <1>4
<1>6. KeptOf(x) \subseteq KeptOf(y)
  <2> SUFFICES ASSUME NEW i \in KeptOf(x) PROVE i \in KeptOf(y)
    OBVIOUS
  <2>1. i \in 1..MaxSent
    BY <1>4
  <2>2. i <= Cum(x) => i <= Cum(y)
    BY <1>1, <1>3, <2>1
  <2> QED
    BY <1>4, <2>1, <2>2
<1>7. Cum(y) + 1 \notin GotOf(y)
  <2> SUFFICES ASSUME Cum(y) + 1 \in GotOf(x) PROVE FALSE
    BY <1>5
  <2>1. Cum(y) + 1 \in 1..MaxSent /\ ~(Cum(y) + 1 < Base(x)) /\ Cum(y) + 1 - Base(x) = F
    BY <1>1, <1>2, <1>4
  <2> QED
    BY <1>1, <1>4, <2>1
<1>8. Cum(y) + 1 - Base(y) \notin Bits(y)
  <2> SUFFICES ASSUME Cum(y) + 1 - Base(y) \in Bits(y) PROVE FALSE
    OBVIOUS
  <2> DEFINE e == Cum(y) + 1 - Base(y)
  <2>1. Cum(y) + 1 = Base(y) + e /\ e \in Bits(y)
    BY <1>1
  <2> HIDE DEF e
  <2>2. Cum(y) + 1 \in GotOf(y)
    BY <2>1 DEF GotOf
  <2> QED
    BY <1>7, <2>2
<1> QED
  BY <1>3, <1>5, <1>6, <1>7, <1>8 DEF Slid

\* The whole run is dropped from arrays that hold nothing else.
LEMMA ClearGood ==
  ASSUME NEW x, MapInv(x), FirstClear(x) >= ByteBits,
         NEW y, y = SlideCum(x), y.cum = Highest(y)
  PROVE  Slid(x, ClearArrays(y, (FirstClear(x) + ByteBits - 1) \div ByteBits))
<1> DEFINE b == Base(x) F == FirstClear(x) k == Room(x) top == Nth(Highest(x))
           q == (F + ByteBits - 1) \div ByteBits
           w == q * ByteBits
           d == b + F - 1
           z == ClearArrays(y, q)
<1>1. /\ F \in Nat /\ top \in 0..MaxSent /\ d \in 0..MaxSent
      /\ 0..(F - 1) \subseteq Bits(x)
      /\ \A g \in Bits(x) : g \in Nat /\ b + g <= top
      /\ b \in 1..(MaxSent + 1) /\ k \in Nat \ {0}
  BY FirstClearIs, MapNumbers
<1>2. /\ Highest(y) = Highest(x) /\ Nth(y.cum) = d /\ y.cum \in Tsns
      /\ y \in MapType /\ y.r = x.r /\ y.nr = x.nr /\ y.size = x.size
  BY SlideCumGood DEF Fields, Cum, MapInv, MapType
<1>3. top = d
  BY <1>2
<1>4. ByteBits \in Nat \ {0}
  BY WidthAssumption
<1> HIDE DEF F, top, k
<1>5. q \in Nat /\ w \in Nat /\ F <= w
  <2> DEFINE e == F + ByteBits - 1
  <2>1. e \in Nat
    BY <1>1, <1>4
  <2>2. e \div ByteBits \in Nat /\ e < (e \div ByteBits) * ByteBits + ByteBits
    BY <1>4, <2>1
  <2> QED
    BY <1>1, <1>4, <2>2
<1>6. \A g \in Bits(x) : ~(g >= w)
  BY <1>1, <1>3, <1>5
<1>7. {g \in y.r : g >= q * ByteBits} = {} /\ {g \in y.nr : g >= q * ByteBits} = {}
  BY <1>2, <1>6 DEF Bits
<1>8. Add(y.cum, 1) \in Tsns /\ Nth(Add(y.cum, 1)) = d + 1
  <2>1. Nth(y.cum) + 1 \in 0..(TsnSpace - 1)
    BY <1>1, <1>2, Widths
  <2> QED
    BY <1>2, <2>1, AddNth
<1> DEFINE v == Add(y.cum, 1)
<1>9. z = [y EXCEPT !.r = {}, !.nr = {}, !.base = v, !.hi = y.cum, !.nhi = y.cum]
  BY <1>2, <1>7 DEF ClearArrays, MapType
<1> HIDE DEF v, z, q
<1>10. Fields(z, d + 1, d, d, d, {}, {}, k)
  <2>1. v \in Tsns /\ Nth(v) = d + 1
    BY <1>8 DEF v
  <2> HIDE DEF d
  <2>2. z \in MapType /\ z.base = v /\ z.cum = y.cum /\ z.hi = y.cum /\ z.nhi = y.cum
        /\ z.r = {} /\ z.nr = {} /\ z.size = x.size
    BY <1>2, <1>9, <2>1 DEF MapType
  <2> QED
    BY <1>2, <2>1, <2>2 DEF Fields, Base, Cum, Hi, Nhi, Room, k
<1>11. Good(d + 1, d, d, d, {}, {}, k)
  <2> HIDE DEF d
  <2>1. d \in Int /\ d - (d + 1) = -1 /\ 0..(-1) = {}
    BY <1>1
  <2> QED
    BY <1>1, <2>1, Widths DEF Good, k
<1>12. MapInv(z)
  BY <1>10, <1>11, FieldsGood
<1>13. Base(z) = d + 1 /\ Cum(z) = d /\ Bits(z) = {} /\ z.nr = {}
  BY <1>10 DEF Fields, Bits
<1>14. \A i \in 1..MaxSent :
          i < Base(z) \/ i - Base(z) \in Bits(z) <=> i < b \/ i - b \in Bits(x)
  <2> SUFFICES ASSUME NEW i \in 1..MaxSent
               PROVE  i < d + 1 <=> i < b \/ i - b \in Bits(x)
    BY <1>13
  <2>1. i < d + 1 /\ ~(i < b) => i - b \in 0..(F - 1)
    BY <1>1
  <2>2. i - b \in Bits(x) => i < d + 1
    BY <1>1, <1>3
  <2>3. i < b => i < d + 1
    BY <1>1
  <2> QED
    BY <1>1, <2>1, <2>2, <2>3
<1>15. \A i \in 1..MaxSent : i - b \in x.nr => i <= Cum(z)
  <2> SUFFICES ASSUME NEW i \in 1..MaxSent, i - b \in x.nr PROVE i <= d
    BY <1>13
  <2>1. b + (i - b) <= d
    BY <1>1, <1>3 DEF Bits
  <2> QED
    BY <1>1, <2>1
<1>16. Cum(z) + 1 - Base(z) < ByteBits
  BY <1>1, <1>4, <1>13
<1>17. Slid(x, z)
  BY <1>12, <1>13, <1>14, <1>15, <1>16, SlidIs DEF d, b, F
<1> QED
  BY <1>17 DEF z, q, F

\* The bits of S move down; none is lost.
LEMMA Shifted ==
  ASSUME NEW S \in SUBSET Nat, NEW k \in Nat, NEW end \in Nat, \A g \in S : g < end
  PROVE  /\ Shift(S, k, end) \in SUBSET Nat
         /\ \A i \in Int : i \in Shift(S, k, end) <=> i >= 0 /\ i + k \in S
<1>1. \A g \in S : g \in Nat
  OBVIOUS
<1>2. Shift(S, k, end) \in SUBSET Nat
  BY <1>1 DEF Shift
<1>3. ASSUME NEW i \in Int, i \in Shift(S, k, end) PROVE i >= 0 /\ i + k \in S
  <2>1. PICK g \in S : g >= k /\ i = g - k
    BY <1>3 DEF Shift
  <2>2. i + k = g /\ i >= 0
    BY <1>1, <2>1
  <2> QED
    BY <2>2
<1>4. ASSUME NEW i \in Int, i >= 0, i + k \in S PROVE i \in Shift(S, k, end)
  <2> DEFINE g == i + k
  <2>1. g \in S /\ g >= k /\ g < end /\ i = g - k
    BY <1>4
  <2> QED
    BY <2>1 DEF Shift
<1> QED
  BY <1>2, <1>3, <1>4

\* Arrays that hold more than the run lose its full bytes.
LEMMA ShiftGood ==
  ASSUME NEW x, MapInv(x), NEW y, y = SlideCum(x), y.cum # Highest(y),
         FirstClear(x) >= ByteBits
  PROVE  Slid(x, SlideArrays(y, SlideBytes(x) * ByteBits, (SlideEnd(y) + 1) * ByteBits))
<1> DEFINE b == Base(x) F == FirstClear(x) k == Room(x) top == Nth(Highest(x))
           h == Hi(x) n == Nhi(x)
           w == SlideBytes(x) * ByteBits
           end == (SlideEnd(y) + 1) * ByteBits
           d == b + F - 1
           R == Shift(x.r, w, end)
           N == Shift(x.nr, w, end)
           up(u) == IF Add(u, 1) = x.base THEN Add(u, w) ELSE u
           num(i) == IF i + 1 = b THEN i + w ELSE i
           z == SlideArrays(y, w, end)
<1>1. /\ F \in Nat /\ top \in 0..MaxSent /\ d \in 0..MaxSent /\ d <= top /\ top < b + k
      /\ 0..(F - 1) \subseteq Bits(x)
      /\ \A g \in Bits(x) : g \in Nat /\ b + g <= top
      /\ b \in 1..(MaxSent + 1) /\ k \in Nat \ {0} /\ Highest(x) \in Tsns
  BY FirstClearIs, MapNumbers
<1>2. /\ Highest(y) = Highest(x) /\ Nth(y.cum) = d /\ y.cum \in Tsns
      /\ y \in MapType /\ y.r = x.r /\ y.nr = x.nr /\ y.size = x.size /\ y.base = x.base
      /\ Nth(y.hi) = h /\ Nth(y.nhi) = n
  BY SlideCumGood DEF Fields, Cum, Hi, Nhi, MapInv, MapType
<1>3. top # d
  BY <1>1, <1>2, EqNth
<1>4. ByteBits \in Nat \ {0}
  BY WidthAssumption
<1>5. SlideEnd(y) \in Nat /\ top - b < end
  BY SlideInside
<1>6. end \in Nat
  BY <1>4, <1>5
<1>7. w \in Nat /\ w <= F /\ F - w < ByteBits
  <2>1. SlideBytes(x) = F \div ByteBits
    BY DEF SlideBytes
  <2> HIDE DEF F
  <2>2. /\ F \div ByteBits \in Nat /\ (F \div ByteBits) * ByteBits <= F
        /\ F < (F \div ByteBits) * ByteBits + ByteBits
    BY <1>1, <1>4
  <2>3. w = (F \div ByteBits) * ByteBits
    BY <2>1
  <2> HIDE DEF w
  <2> QED
    BY <1>1, <1>4, <2>2, <2>3
<1> HIDE DEF F, top, w, end
<1>8. \A g \in Bits(x) : g < end
  BY <1>1, <1>5, <1>6
<1>9. /\ R \in SUBSET Nat /\ N \in SUBSET Nat
      /\ \A i \in Int : i \in R <=> i >= 0 /\ i + w \in x.r
      /\ \A i \in Int : i \in N <=> i >= 0 /\ i + w \in x.nr
  <2>1. x.r \in SUBSET Nat /\ x.nr \in SUBSET Nat
    BY MapNumbers
  <2>2. (\A g \in x.r : g < end) /\ (\A g \in x.nr : g < end)
    BY <1>8 DEF Bits
  <2> QED
    BY <1>6, <1>7, <2>1, <2>2, Shifted
<1>10. ASSUME NEW u \in Tsns, Nth(u) \in 0..MaxSent
       PROVE  up(u) \in Tsns /\ Nth(up(u)) = num(Nth(u))
  <2>1. x.base \in Tsns /\ Nth(x.base) = b
    BY MapNumbers DEF Base
  <2>2. Nth(u) + 1 \in 0..(TsnSpace - 1)
    BY <1>10, Widths
  <2>3. Add(u, 1) \in Tsns /\ Nth(Add(u, 1)) = Nth(u) + 1
    BY <2>2, AddNth
  <2>4. Add(u, 1) = x.base <=> Nth(u) + 1 = b
    BY <2>1, <2>3, EqNth
  <2>5. Nth(u) + 1 = b => Nth(u) + w \in 0..(TsnSpace - 1)
    BY <1>1, <1>7, <1>10, Widths
  <2>6. Nth(u) + 1 = b => Add(u, w) \in Tsns /\ Nth(Add(u, w)) = Nth(u) + w
    BY <1>7, <2>5, AddNth
  <2> QED
    BY <2>4, <2>6
<1> DEFINE nb == Add(x.base, w)
           nh == up(y.hi)
           nn == up(y.nhi)
<1>11. nb \in Tsns /\ Nth(nb) = b + w
  <2>1. b + w <= MaxSent + 1
    BY <1>1, <1>7, Widths
  <2> QED
    BY <1>7, <2>1, BitTsn
<1>12. nh \in Tsns /\ Nth(nh) = num(h) /\ nn \in Tsns /\ Nth(nn) = num(n)
  <2>1. y.hi \in Tsns /\ y.nhi \in Tsns /\ Nth(y.hi) \in 0..MaxSent /\ Nth(y.nhi) \in 0..MaxSent
    BY <1>2, MapNumbers DEF MapType
  <2> QED
    BY <1>2, <1>10, <2>1
<1>13. z = [y EXCEPT !.r = R, !.nr = N, !.hi = nh, !.nhi = nn, !.base = nb]
  BY <1>2 DEF SlideArrays, MapType
<1> HIDE DEF nb, nh, nn, R, N, z
<1>14. Fields(z, b + w, d, num(h), num(n), R, N, k)
  <2>1. z \in MapType /\ z.base = nb /\ z.cum = y.cum /\ z.hi = nh /\ z.nhi = nn
        /\ z.r = R /\ z.nr = N /\ z.size = x.size
    BY <1>2, <1>9, <1>11, <1>12, <1>13 DEF MapType
  <2> QED
    BY <1>2, <1>11, <1>12, <2>1 DEF Fields, Base, Cum, Hi, Nhi, Room
<1>15. Good(b, Cum(x), h, n, x.r, x.nr, k)
  BY DEF MapInv
<1>16. top = IF n > h THEN n ELSE h
  BY HighestNth DEF top
<1> HIDE DEF b, h, n, k
<1>17. /\ h \in 0..MaxSent /\ n \in 0..MaxSent /\ h < b + k /\ n < b + k
       /\ \A g \in x.r : g \in Nat /\ b + g <= h /\ g < k
       /\ \A g \in x.nr : g \in Nat /\ b + g <= n /\ g < k
       /\ x.r \cap x.nr = {}
  BY <1>15 DEF Good
<1>18. Good(b + w, d, num(h), num(n), R, N, k)
  <2>1. b + w \in 1..(MaxSent + 1) /\ d >= (b + w) - 1
    BY <1>1, <1>7, Widths
  <2>2. num(h) \in 0..MaxSent /\ num(n) \in 0..MaxSent
    BY <1>1, <1>7, <1>17, Widths
  <2>3. R \cap N = {}
    BY <1>9, <1>17
  <2>4. 0..(d - (b + w)) \subseteq R \cup N
    <3> SUFFICES ASSUME NEW g \in 0..(d - (b + w)) PROVE g \in R \cup N
      OBVIOUS
    <3>1. g \in Int /\ g >= 0 /\ g + w \in 0..(F - 1)
      BY <1>1, <1>7
    <3>2. g + w \in x.r \/ g + w \in x.nr
      BY <1>1, <3>1 DEF Bits
    <3> QED
      BY <1>9, <3>1, <3>2
  <2>5. ASSUME NEW g \in R PROVE (b + w) + g <= num(h) /\ g < k
    <3>1. g \in Nat /\ g + w \in x.r
      BY <1>9, <2>5
    <3>2. b + (g + w) <= h /\ g + w < k
      BY <1>17, <3>1
    <3> QED
      BY <1>1, <1>7, <1>17, <3>1, <3>2
  <2>6. ASSUME NEW g \in N PROVE (b + w) + g <= num(n) /\ g < k
    <3>1. g \in Nat /\ g + w \in x.nr
      BY <1>9, <2>6
    <3>2. b + (g + w) <= n /\ g + w < k
      BY <1>17, <3>1
    <3> QED
      BY <1>1, <1>7, <1>17, <3>1, <3>2
  <2>7. num(h) >= (b + w) - 1 \/ num(n) >= (b + w) - 1
    BY <1>1, <1>3, <1>7, <1>16, <1>17
  <2>8. num(h) < (b + w) + k /\ num(n) < (b + w) + k
    BY <1>1, <1>7, <1>17
  <2> HIDE DEF num, d
  <2> QED
    BY <1>1, <1>9, <2>1, <2>2, <2>3, <2>4, <2>5, <2>6, <2>7, <2>8 DEF Good
<1>19. MapInv(z)
  BY <1>14, <1>18, FieldsGood
<1>20. Base(z) = b + w /\ Cum(z) = d /\ z.nr = N /\ Bits(z) = R \cup N
  BY <1>14 DEF Fields, Bits
<1>21. \A i \in 1..MaxSent :
          i < Base(z) \/ i - Base(z) \in Bits(z) <=> i < b \/ i - b \in Bits(x)
  <2> SUFFICES ASSUME NEW i \in 1..MaxSent
               PROVE  i < b + w \/ i - (b + w) \in R \cup N <=> i < b \/ i - b \in Bits(x)
    BY <1>20
  <2>1. i - (b + w) \in Int /\ (i - (b + w)) + w = i - b
    BY <1>1, <1>7
  <2>2. i - (b + w) \in R \cup N <=> i - (b + w) >= 0 /\ i - b \in Bits(x)
    BY <1>9, <2>1 DEF Bits
  <2>3. i < b + w /\ ~(i < b) => i - b \in 0..(F - 1)
    BY <1>1, <1>7
  <2>4. i - b \in Bits(x) => i < b + w \/ i - (b + w) >= 0
    BY <1>1, <1>7
  <2>5. i < b => i < b + w
    BY <1>1, <1>7
  <2> QED
    BY <1>1, <2>2, <2>3, <2>4, <2>5
<1>22. \A i \in 1..MaxSent : i - b \in x.nr => i <= Cum(z) \/ i - Base(z) \in z.nr
  <2> SUFFICES ASSUME NEW i \in 1..MaxSent, i - b \in x.nr
               PROVE  i <= d \/ i - (b + w) \in N
    BY <1>20
  <2>1. i - (b + w) \in Int /\ (i - (b + w)) + w = i - b
    BY <1>1, <1>7
  <2>2. i - (b + w) >= 0 \/ i <= d
    BY <1>1, <1>7
  <2> QED
    BY <1>9, <2>1, <2>2
<1>23. Cum(z) + 1 - Base(z) < ByteBits
  BY <1>1, <1>4, <1>7, <1>20
<1>24. Slid(x, z)
  BY <1>19, <1>20, <1>21, <1>22, <1>23, SlidIs DEF d, b, F
<1> QED
  BY <1>24 DEF z, w, end

LEMMA SlideGood ==
  ASSUME NEW x, MapInv(x)
  PROVE  Slid(x, Slide(x))
<1> DEFINE F == FirstClear(x)
           y == SlideCum(x)
<1>1. ~CumPassesHighest(y) /\ MapInv(y) /\ y.size = x.size
  BY SlideCumGood
<1>2. Slide(x) =
        IF y.cum = Highest(y) /\ F >= ByteBits
        THEN ClearArrays(y, (F + ByteBits - 1) \div ByteBits)
        ELSE IF F >= ByteBits /\ SlideBytes(x) <= SlideEnd(y) /\ SlideEnd(y) < y.size
        THEN SlideArrays(y, SlideBytes(x) * ByteBits, (SlideEnd(y) + 1) * ByteBits)
        ELSE y
  BY <1>1 DEF Slide
<1>3. CASE y.cum = Highest(y) /\ F >= ByteBits
  <2>1. Slid(x, ClearArrays(y, (F + ByteBits - 1) \div ByteBits))
    BY <1>3, ClearGood
  <2> QED
    BY <1>2, <1>3, <2>1
<1>4. CASE y.cum # Highest(y) /\ F >= ByteBits
  <2>1. Slid(x, SlideArrays(y, SlideBytes(x) * ByteBits, (SlideEnd(y) + 1) * ByteBits))
    BY <1>4, ShiftGood
  <2>2. SlideBytes(x) <= SlideEnd(y) /\ SlideEnd(y) < y.size
    BY <1>1, <1>4, SlideInside
  <2> QED
    BY <1>2, <1>4, <2>1, <2>2
<1>5. CASE ~(F >= ByteBits)
  <2>1. Slide(x) = y
    BY <1>2, <1>5
  <2>2. /\ Base(y) = Base(x) /\ Cum(y) = Base(x) + F - 1 /\ y.nr = x.nr /\ Bits(y) = Bits(x)
        /\ MapInv(y)
    BY SlideCumGood DEF Fields, Bits
  <2>3. F \in Nat /\ Base(x) \in 1..(MaxSent + 1) /\ ByteBits \in Nat
    BY FirstClearIs, MapNumbers, WidthAssumption
  <2> HIDE DEF F, y
  <2>4. Cum(y) + 1 - Base(y) < ByteBits
    BY <1>5, <2>2, <2>3
  <2>5. Slid(x, y)
    BY <2>2, <2>4, SlidIs DEF F
  <2> QED
    BY <2>1, <2>5
<1> QED
  BY <1>3, <1>4, <1>5


-----------------------------------------------------------------------------
(***************************************************************************)
(* What the operations do to the TSNs that the arrays stand for.           *)
(***************************************************************************)

\* y stands for the TSNs of x and those of S, and keeps what x keeps.
Holds(x, y, S) ==
    /\ MapInv(y) /\ Cum(y) >= Cum(x)
    /\ GotOf(y) = GotOf(x) \cup S /\ KeptOf(x) \subseteq KeptOf(y)

LEMMA HoldsBoth ==
  ASSUME NEW x, MapInv(x), NEW y, NEW z, NEW S, NEW T, Holds(x, y, S), Holds(y, z, T)
  PROVE  Holds(x, z, S \cup T)
<1>1. Cum(x) \in Int /\ Cum(y) \in Int /\ Cum(z) \in Int
  BY MapNumbers DEF Holds
<1> QED
  BY <1>1 DEF Holds

LEMMA SlidHolds ==
  ASSUME NEW x, NEW y, Slid(x, y)
  PROVE  Holds(x, y, {})
  BY DEF Slid, Holds

\* The same bits, and a cumulative TSN that is not lower.
LEMMA SameBits ==
  ASSUME NEW x, MapInv(x), NEW y, MapInv(y), Base(y) = Base(x), Bits(y) = Bits(x),
         x.nr \subseteq y.nr, Cum(y) >= Cum(x)
  PROVE  Holds(x, y, {})
<1>1. GotOf(y) = GotOf(x)
  BY DEF GotOf
<1>2. Cum(x) \in Int /\ Cum(y) \in Int
  BY MapNumbers
<1>3. 1..Cum(x) \subseteq 1..Cum(y)
  BY <1>2
<1>4. KeptOf(x) \subseteq KeptOf(y)
  BY <1>3 DEF KeptOf
<1> QED
  BY <1>1, <1>4 DEF Holds

LEMMA GrownHolds ==
  ASSUME NEW x, MapInv(x), NEW y, Grown(x, y)
  PROVE  /\ Holds(x, y, {}) /\ Cum(y) = Cum(x) /\ Base(y) = Base(x) /\ Bits(y) = Bits(x)
         /\ GotOf(y) = GotOf(x) /\ KeptOf(y) = KeptOf(x)
<1>1. MapInv(y)
  BY GrownGood
<1>2. Cum(y) = Cum(x) /\ Base(y) = Base(x) /\ Bits(y) = Bits(x) /\ y.nr = x.nr
  BY DEF Grown, Fields, Bits
<1>3. Cum(x) \in Int
  BY MapNumbers
<1>4. Holds(x, y, {})
  BY <1>1, <1>2, <1>3, SameBits
<1>5. GotOf(y) = GotOf(x) /\ KeptOf(y) = KeptOf(x)
  BY <1>2 DEF GotOf, KeptOf
<1> QED
  BY <1>2, <1>4, <1>5

LEMMA MovedHolds ==
  ASSUME NEW x, MapInv(x), NEW y, Moved(x, y)
  PROVE  Holds(x, y, {}) /\ Cum(y) = Cum(x) /\ Base(y) = Base(x) /\ Bits(y) = Bits(x)
<1>1. PICK G \in SUBSET x.r, h \in Nat, n \in Nat :
         Fields(y, Base(x), Cum(x), h, n, x.r \ G, x.nr \cup G, Room(x))
  BY DEF Moved
<1>2. Cum(y) = Cum(x) /\ Base(y) = Base(x) /\ Bits(y) = Bits(x) /\ x.nr \subseteq y.nr
  BY <1>1 DEF Fields, Bits
<1>3. Cum(x) \in Int /\ MapInv(y)
  BY MapNumbers DEF Moved
<1> QED
  BY <1>2, <1>3, SameBits

\* A bit is set in either array.
LEMMA SetHolds ==
  ASSUME NEW x, MapInv(x), NEW t, Fits(x, t),
         NEW y, y = SetNr(x, t) \/ y = SetR(x, t)
  PROVE  Holds(x, y, {Nth(t)}) /\ Cum(y) = Cum(x) /\ Base(y) = Base(x)
<1> DEFINE g == Nth(t) - Base(x)
<1>1. /\ MapInv(y) /\ Cum(y) = Cum(x) /\ Base(y) = Base(x) /\ Bits(y) = Bits(x) \cup {g}
      /\ x.nr \subseteq y.nr
  BY SetBits DEF Fields, Bits
<1>2. Cum(x) \in Int /\ Base(x) \in Int /\ Nth(t) \in Int
  BY MapNumbers DEF Fits
<1>3. Base(x) + g = Nth(t)
  BY <1>2
<1> HIDE DEF g
<1>4. {Base(x) + i : i \in Bits(x) \cup {g}} = {Base(x) + i : i \in Bits(x)} \cup {Nth(t)}
  BY <1>3
<1>5. GotOf(y) = GotOf(x) \cup {Nth(t)}
  BY <1>1, <1>4 DEF GotOf
<1>6. KeptOf(x) \subseteq KeptOf(y)
  BY <1>1 DEF KeptOf
<1> QED
  BY <1>1, <1>2, <1>5, <1>6 DEF Holds

\* The cumulative TSN follows a chunk whose bit is set.
LEMMA FollowHolds ==
  ASSUME NEW x, MapInv(x), NEW t \in Tsns, Nth(t) \in 1..MaxSent,
         Nth(t) > Cum(x), Nth(t) \in GotOf(x)
  PROVE  Holds(x, Follow(x, t), {})
<1> DEFINE y == Follow(x, t) n == Nth(t)
<1>1. Cum(x) \in Int /\ Base(x) \in Int /\ Cum(x) >= Base(x) - 1
  BY MapNumbers DEF MapInv, Good
<1>2. n >= Base(x) /\ n - Base(x) \in Bits(x)
  <2>1. n < Base(x) \/ n - Base(x) \in Bits(x)
    BY GotMember
  <2>2. n >= Base(x) /\ ~(n < Base(x))
    BY <1>1
  <2> QED
    BY <2>1, <2>2
<1>3. /\ Fields(y, Base(x), IF n = Cum(x) + 1 THEN n ELSE Cum(x), Hi(x), Nhi(x), x.r, x.nr, Room(x))
      /\ MapInv(y)
  BY <1>2, FollowGood
<1>4. Base(y) = Base(x) /\ Bits(y) = Bits(x) /\ x.nr \subseteq y.nr /\ Cum(y) >= Cum(x)
  BY <1>1, <1>3 DEF Fields, Bits
<1> QED
  BY <1>3, <1>4, SameBits

\* A chunk that is not a duplicate.
LEMMA NotDuplicate ==
  ASSUME MapInv(m), NEW n \in 1..MaxSent, NEW t, t = NthTsn(n), ~Duplicate(t)
  PROVE  /\ t \in Tsns /\ Nth(t) = n /\ n > Cum(m) /\ n >= Base(m)
         /\ Gap(t, m.base) = n - Base(m) /\ n - Base(m) \in Nat
         /\ n - Base(m) \notin Bits(m) /\ n \notin GotOf(m)
<1>1. t \in Tsns /\ Nth(t) = n
  BY NthTsnType, Widths
<1>2. /\ m.cum \in Tsns /\ m.base \in Tsns /\ Nth(m.cum) = Cum(m) /\ Nth(m.base) = Base(m)
      /\ Cum(m) \in 0..MaxSent /\ Base(m) \in 1..(MaxSent + 1) /\ Cum(m) >= Base(m) - 1
  BY MapNumbers DEF MapInv, Good, Cum, Base
<1>3. TsnGe(m.cum, t) <=> Cum(m) >= n
  BY <1>1, <1>2, Compare, Widths
<1>4. n > Cum(m) /\ n >= Base(m) /\ n - Base(m) \in Nat
  BY <1>2, <1>3 DEF Duplicate
<1>5. Gap(t, m.base) = n - Base(m)
  BY <1>1, <1>2, <1>4, GapNth
<1>6. n - Base(m) \notin Bits(m)
  <2>1. \A g \in Bits(m) : g < m.size * ByteBits
    BY DEF MapInv, Good, Bits, Room
  <2> QED
    BY <1>5, <2>1 DEF Duplicate
<1>7. n \notin GotOf(m)
  <2>1. ~(n < Base(m))
    BY <1>2, <1>4
  <2> QED
    BY <1>6, <2>1, GotMember
<1> QED
  BY <1>1, <1>4, <1>5, <1>6, <1>7

LEMMA FittedGood ==
  ASSUME MapInv(m), NEW n \in 1..MaxSent, NEW t, t = NthTsn(n), ~Duplicate(t)
  PROVE  Grown(m, Fitted(t)) /\ Fits(Fitted(t), t)
<1> DEFINE gap == n - Base(m) y == Fitted(t)
<1>1. /\ t \in Tsns /\ Nth(t) = n /\ n > Cum(m) /\ Gap(t, m.base) = gap /\ gap \in Nat
      /\ gap \notin Bits(m)
  BY NotDuplicate
<1>2. y = IF gap >= Room(m) THEN Grow(m, gap) ELSE m
  BY <1>1 DEF Fitted, Room
<1> HIDE DEF y
<1>3. Room(m) \in Nat
  BY MapNumbers
<1>4. Grown(m, y) /\ gap < Room(y)
  <2>1. CASE gap >= Room(m)
    BY <1>1, <1>2, <2>1, GrowRoom
  <2>2. CASE ~(gap >= Room(m))
    <3>1. y = m /\ gap < Room(m)
      BY <1>1, <1>2, <1>3, <2>2
    <3>2. Grown(m, m)
      BY <1>3 DEF Grown, Fields, MapInv
    <3> QED
      BY <3>1, <3>2
  <2> QED
    BY <2>1, <2>2
<1>5. Cum(y) = Cum(m) /\ Base(y) = Base(m) /\ Bits(y) = Bits(m)
  BY <1>4, GrownHolds
<1>6. Fits(y, t)
  BY <1>1, <1>4, <1>5 DEF Fits
<1> QED
  BY <1>4, <1>6 DEF y

\* A chunk delivered at once, and a chunk that is queued.
LEMMA ExpressHolds ==
  ASSUME MapInv(m), NEW n \in 1..MaxSent, NEW t, t = NthTsn(n), ~Duplicate(t)
  PROVE  Holds(m, Follow(SetNr(Fitted(t), t), t), {n})
<1> DEFINE x == Fitted(t) y == SetNr(x, t) z == Follow(y, t)
<1>1. t \in Tsns /\ Nth(t) = n /\ n > Cum(m)
  BY NotDuplicate
<1>2. Holds(m, x, {}) /\ Cum(x) = Cum(m) /\ MapInv(x) /\ Fits(x, t)
  BY FittedGood, GrownHolds, GrownGood
<1> HIDE DEF x
<1>3. Holds(x, y, {n}) /\ Cum(y) = Cum(m) /\ MapInv(y)
  BY <1>1, <1>2, SetHolds DEF Holds
<1> HIDE DEF y
<1>4. n \in GotOf(y)
  BY <1>3 DEF Holds
<1>5. Holds(y, z, {})
  BY <1>1, <1>3, <1>4, FollowHolds
<1> HIDE DEF z
<1>6. Holds(m, y, {} \cup {n})
  BY <1>2, <1>3, HoldsBoth
<1>7. Holds(m, z, ({} \cup {n}) \cup {})
  BY <1>5, <1>6, HoldsBoth
<1>8. ({} \cup {n}) \cup {} = {n}
  OBVIOUS
<1> QED
  BY <1>7, <1>8 DEF x, y, z

LEMMA QueueHolds ==
  ASSUME MapInv(m), NEW n \in 1..MaxSent, NEW t, t = NthTsn(n), ~Duplicate(t),
         NEW q, q = IF do_drain THEN SetR(Fitted(t), t) ELSE SetNr(Fitted(t), t),
         NEW D \in SUBSET Waiting(q)
  PROVE  Holds(m, Follow(MarkNonRevokable(q, D), t), {n})
<1> DEFINE x == Fitted(t) y == MarkNonRevokable(q, D) z == Follow(y, t)
<1>1. t \in Tsns /\ Nth(t) = n /\ n > Cum(m)
  BY NotDuplicate
<1>2. Holds(m, x, {}) /\ Cum(x) = Cum(m) /\ MapInv(x) /\ Fits(x, t)
  BY FittedGood, GrownHolds, GrownGood
<1> HIDE DEF x
<1>3. q = SetNr(x, t) \/ q = SetR(x, t)
  BY DEF x
<1>4. Holds(x, q, {n}) /\ Cum(q) = Cum(m) /\ MapInv(q)
  BY <1>1, <1>2, <1>3, SetHolds DEF Holds
<1>5. Moved(q, y)
  BY <1>4, MarkGood
<1>6. Holds(q, y, {}) /\ Cum(y) = Cum(m) /\ MapInv(y)
  BY <1>4, <1>5, MovedHolds DEF Holds
<1> HIDE DEF y
<1>7. n \in GotOf(y)
  BY <1>4, <1>6 DEF Holds
<1>8. Holds(y, z, {})
  BY <1>1, <1>6, <1>7, FollowHolds
<1> HIDE DEF z
<1>9. Holds(m, q, {} \cup {n})
  BY <1>2, <1>4, HoldsBoth
<1>10. Holds(m, y, ({} \cup {n}) \cup {})
  BY <1>6, <1>9, HoldsBoth
<1>11. Holds(m, z, (({} \cup {n}) \cup {}) \cup {})
  BY <1>8, <1>10, HoldsBoth
<1>12. (({} \cup {n}) \cup {}) \cup {} = {n}
  OBVIOUS
<1> QED
  BY <1>11, <1>12 DEF y, z

\* A FORWARD-TSN beyond the arrays empties them.
LEMMA ForwardBeyond ==
  ASSUME NEW x, MapInv(x), NEW t \in Tsns, NEW n \in 1..MaxSent, Nth(t) = n, n > Cum(x),
         Gap(t, x.base) >= Room(x)
  PROVE  Holds(x, Forward(x, t), 1..n)
<1> DEFINE b == Base(x) k == Room(x) u == Add(t, 1) y == Forward(x, t)
<1>1. Good(b, Cum(x), Hi(x), Nhi(x), x.r, x.nr, k) /\ x \in MapType
  BY DEF MapInv
<1>2. /\ b \in 1..(MaxSent + 1) /\ Cum(x) \in 0..MaxSent /\ n >= b /\ k \in Nat \ {0}
      /\ \A g \in Bits(x) : g \in Nat /\ g < k
  BY <1>1, Widths DEF Good, Bits
<1>3. Gap(t, x.base) = n - b
  BY <1>2, MapNumbers, GapNth DEF Base
<1>4. u \in Tsns /\ Nth(u) = n + 1
  <2>1. Nth(t) + 1 \in 0..(TsnSpace - 1)
    BY Widths
  <2> QED
    BY <2>1, AddNth
<1>5. y = [x EXCEPT !.r = {}, !.nr = {}, !.cum = t, !.hi = t, !.nhi = t, !.base = u]
  BY DEF Forward, Room
<1> HIDE DEF u, y
<1>6. Fields(y, n + 1, n, n, n, {}, {}, k)
  <2>1. y \in MapType /\ y.base = u /\ y.cum = t /\ y.hi = t /\ y.nhi = t
        /\ y.r = {} /\ y.nr = {} /\ y.size = x.size
    BY <1>1, <1>4, <1>5 DEF MapType
  <2> QED
    BY <1>4, <2>1 DEF Fields, Base, Cum, Hi, Nhi, Room
<1> HIDE DEF k, b
<1>7. Good(n + 1, n, n, n, {}, {}, k)
  <2>1. n \in Int /\ n - (n + 1) = -1 /\ 0..(-1) = {}
    OBVIOUS
  <2> QED
    BY <1>2, <2>1, Widths DEF Good
<1>8. MapInv(y)
  BY <1>6, <1>7, FieldsGood
<1>9. Base(y) = n + 1 /\ Cum(y) = n /\ Bits(y) = {}
  BY <1>6 DEF Fields, Bits
<1>10. GotOf(y) = 1..n
  <2>1. (n + 1) - 1 = n
    OBVIOUS
  <2> QED
    BY <1>9, <2>1 DEF GotOf
<1>11. GotOf(x) \subseteq 1..n /\ KeptOf(x) \subseteq GotOf(x)
  <2>1. \A i \in {b + g : g \in Bits(x)} : i \in 1..n
    BY <1>2, <1>3 DEF k
  <2>2. \A i \in 1..(b - 1) : i \in 1..n
    BY <1>2
  <2>3. GotOf(x) = 1..(b - 1) \cup {b + g : g \in Bits(x)}
    BY DEF GotOf, b
  <2> QED
    BY <2>1, <2>2, <2>3, GotMember
<1>12. KeptOf(x) \subseteq KeptOf(y)
  BY <1>9, <1>11 DEF KeptOf
<1> QED
  BY <1>2, <1>8, <1>9, <1>10, <1>11, <1>12 DEF Holds, y

\* One inside the arrays fills the holes before it.
LEMMA ForwardInside ==
  ASSUME NEW x, MapInv(x), NEW t \in Tsns, NEW n \in 1..MaxSent, Nth(t) = n, n > Cum(x),
         ~(Gap(t, x.base) >= Room(x))
  PROVE  Holds(x, Forward(x, t), 1..n)
<1> DEFINE b == Base(x) k == Room(x) c == Cum(x) h == Hi(x) l == Nhi(x)
           gap == Gap(t, x.base)
           holes == 0..gap \ Bits(x)
           tops == {Add(x.base, g) : g \in {i \in holes : \A j \in holes : j <= i}}
           nh == IF \E u \in tops : TsnGt(u, x.nhi) THEN CHOOSE u \in tops : TRUE ELSE x.nhi
           N == x.nr \cup holes
           y == Forward(x, t)
<1>1. Good(b, c, h, l, x.r, x.nr, k) /\ x \in MapType
  BY DEF MapInv
<1>2. b \in 1..(MaxSent + 1) /\ c \in 0..MaxSent /\ n >= b /\ k \in Nat \ {0}
  BY <1>1, Widths DEF Good
<1>3. gap = n - b /\ gap < k /\ gap \in Nat
  <2>1. gap = n - b
    BY <1>2, MapNumbers, GapNth DEF Base
  <2> QED
    BY <1>2, <2>1
<1>4. y = [x EXCEPT !.nr = N, !.cum = t, !.nhi = nh]
  BY DEF Forward, Room
<1> HIDE DEF gap, y
<1>5. \A g \in holes : g \in Nat /\ g <= gap /\ g \notin Bits(x) /\ b + g <= n
  BY <1>2, <1>3
<1>6. \A g \in holes : Add(x.base, g) \in Tsns /\ Nth(Add(x.base, g)) = b + g
  <2> SUFFICES ASSUME NEW g \in holes
               PROVE  Add(x.base, g) \in Tsns /\ Nth(Add(x.base, g)) = b + g
    OBVIOUS
  <2>1. g \in Nat /\ b + g <= MaxSent + 1
    BY <1>2, <1>5, Widths
  <2> QED
    BY <2>1, BitTsn
<1>7. x.nhi \in Tsns /\ Nth(x.nhi) = l /\ l \in 0..MaxSent
  BY MapNumbers DEF Nhi
<1>8. holes # {} => \E g \in holes : \A j \in holes : j <= g
  <2>1. holes \in SUBSET (0..gap)
    OBVIOUS
  <2> HIDE DEF holes
  <2> QED
    BY <1>3, <2>1, LargestExists
<1> HIDE DEF holes
<1>9. \A u \in tops : \E g \in holes : /\ u = Add(x.base, g) /\ u \in Tsns /\ Nth(u) = b + g
                                       /\ \A j \in holes : j <= g
  BY <1>6
<1>10. \A u \in tops : TsnGt(u, x.nhi) <=> Nth(u) > l
  <2> SUFFICES ASSUME NEW u \in tops PROVE TsnGt(u, x.nhi) <=> Nth(u) > l
    OBVIOUS
  <2>1. u \in Tsns /\ Nth(u) \in 0..MaxSent
    BY <1>2, <1>5, <1>9, Widths
  <2> QED
    BY <1>7, <2>1, Compare, Widths
<1>11. holes # {} => tops # {}
  BY <1>8
<1>12. /\ nh \in Tsns /\ Nth(nh) \in 0..MaxSent /\ Nth(nh) >= l
       /\ \A g \in holes : b + g <= Nth(nh)
       /\ Nth(nh) = l \/ Nth(nh) <= n
  <2>1. CASE \E u \in tops : TsnGt(u, x.nhi)
    <3>1. nh \in tops
      BY <2>1
    <3>2. PICK u \in tops : TsnGt(u, x.nhi)
      BY <2>1
    <3> HIDE DEF nh, tops
    <3>3. PICK g \in holes : /\ nh = Add(x.base, g) /\ nh \in Tsns /\ Nth(nh) = b + g
                             /\ \A j \in holes : j <= g
      BY <1>9, <3>1
    <3>4. PICK e \in holes : Nth(u) = b + e /\ Nth(u) > l
      BY <1>9, <1>10, <3>2
    <3>5. g \in Nat /\ e \in Nat /\ e <= g /\ b + g <= n
      BY <1>5, <3>3, <3>4
    <3>6. \A j \in holes : b + j <= b + g
      BY <1>2, <1>5, <3>3
    <3> QED
      BY <1>2, <1>7, <3>3, <3>4, <3>5, <3>6, Widths
  <2>2. CASE ~ \E u \in tops : TsnGt(u, x.nhi)
    <3>1. nh = x.nhi
      BY <2>2
    <3>2. ASSUME NEW j \in holes PROVE b + j <= l
      <4>1. PICK u \in tops : TRUE
        BY <1>11
      <4>2. PICK g \in holes : Nth(u) = b + g /\ j <= g
        BY <1>9
      <4>3. ~(Nth(u) > l)
        BY <1>10, <2>2
      <4>4. j \in Nat /\ g \in Nat
        BY <1>5
      <4> QED
        BY <1>2, <1>7, <4>2, <4>3, <4>4
    <3> HIDE DEF nh
    <3>3. nh \in Tsns /\ Nth(nh) = l
      BY <1>7, <3>1
    <3> QED
      BY <1>7, <3>2, <3>3
  <2> QED
    BY <2>1, <2>2
<1> HIDE DEF nh, tops
<1>13. N \in SUBSET Nat
  BY <1>1, <1>5 DEF MapType
<1> HIDE DEF N
<1>14. Fields(y, b, n, h, Nth(nh), x.r, N, k)
  <2>1. y \in MapType /\ y.base = x.base /\ y.cum = t /\ y.hi = x.hi /\ y.nhi = nh
        /\ y.r = x.r /\ y.nr = N /\ y.size = x.size
    BY <1>1, <1>4, <1>12, <1>13 DEF MapType
  <2> QED
    BY <2>1 DEF Fields, Base, Cum, Hi, Nhi, Room
<1> HIDE DEF b, c, h, l, k
<1>15. /\ h \in 0..MaxSent /\ h < b + k /\ l < b + k /\ l \in 0..MaxSent
       /\ \A g \in x.r : g \in Nat /\ b + g <= h /\ g < k
       /\ \A g \in x.nr : g \in Nat /\ b + g <= l /\ g < k
       /\ h >= b - 1 \/ l >= b - 1
       /\ x.r \in SUBSET Nat /\ x.r \cap x.nr = {}
  BY <1>1 DEF Good
<1>16. Good(b, n, h, Nth(nh), x.r, N, k)
  <2>1. x.r \cap N = {}
    BY <1>5, <1>15 DEF N, Bits
  <2>2. 0..(n - b) \subseteq x.r \cup N
    BY <1>3 DEF N, holes, Bits
  <2>3. \A g \in N : b + g <= Nth(nh) /\ g < k
    <3>1. \A g \in x.nr : b + g <= Nth(nh) /\ g < k
      BY <1>2, <1>12, <1>15
    <3>2. \A g \in holes : b + g <= Nth(nh) /\ g < k
      BY <1>2, <1>3, <1>5, <1>12
    <3> QED
      BY <3>1, <3>2 DEF N
  <2>4. Nth(nh) < b + k
    BY <1>2, <1>3, <1>12, <1>15
  <2>5. h >= b - 1 \/ Nth(nh) >= b - 1
    BY <1>2, <1>12, <1>15
  <2>6. n \in 0..MaxSent /\ n >= b - 1
    BY <1>2, Widths
  <2> QED
    BY <1>2, <1>12, <1>13, <1>15, <2>1, <2>2, <2>3, <2>4, <2>5, <2>6 DEF Good
<1>17. MapInv(y)
  BY <1>14, <1>16, FieldsGood
<1>18. Base(y) = b /\ Cum(y) = n /\ Bits(y) = Bits(x) \cup holes /\ x.nr \subseteq y.nr
  BY <1>14 DEF Fields, Bits, N
<1>19. \A i \in 1..MaxSent : i \in GotOf(y) <=> i \in GotOf(x) \/ i \in 1..n
  <2> SUFFICES ASSUME NEW i \in 1..MaxSent
               PROVE  i \in GotOf(y) <=> i \in GotOf(x) \/ i \in 1..n
    OBVIOUS
  <2>1. i \in GotOf(y) <=> i < Base(y) \/ i - Base(y) \in Bits(y)
    BY <1>17, GotMember
  <2>2. i \in GotOf(x) <=> i < b \/ i - b \in Bits(x)
    BY GotMember DEF b
  <2>3. i \in 1..n /\ ~(i < b) => i - b \in 0..gap
    BY <1>2, <1>3
  <2>4. i - b \in holes => i \in 1..n
    BY <1>2, <1>3, <1>5
  <2>5. i < b => i \in 1..n
    BY <1>2
  <2> QED
    BY <1>18, <2>1, <2>2, <2>3, <2>4, <2>5 DEF holes
<1>20. GotOf(y) = GotOf(x) \cup 1..n
  <2>1. GotOf(x) \in SUBSET (1..MaxSent) /\ GotOf(y) \in SUBSET (1..MaxSent)
    BY <1>17, GotMember
  <2>2. 1..n \subseteq 1..MaxSent
    BY Widths
  <2> QED
    BY <1>19, <2>1, <2>2
<1>21. KeptOf(x) \subseteq KeptOf(y)
  <2>1. 1..c \subseteq 1..n
    BY <1>2 DEF c
  <2> QED
    BY <1>18, <2>1 DEF KeptOf, c, b
<1> QED
  BY <1>2, <1>17, <1>18, <1>20, <1>21 DEF Holds, y, c

LEMMA ForwardHolds ==
  ASSUME MapInv(m), NEW n \in 1..MaxSent, NEW t, t = NthTsn(n), ~TsnGe(m.cum, t),
         NEW x, x = Forward(m, t), NEW D \in SUBSET Waiting(x)
  PROVE  /\ Holds(m, Slide(MarkNonRevokable(x, D)), 1..n)
         /\ Slid(MarkNonRevokable(x, D), Slide(MarkNonRevokable(x, D)))
<1> DEFINE y == MarkNonRevokable(x, D) z == Slide(y)
<1>1. t \in Tsns /\ Nth(t) = n
  BY NthTsnType, Widths
<1>2. m.cum \in Tsns /\ Nth(m.cum) = Cum(m) /\ Cum(m) \in 0..MaxSent
  BY MapNumbers DEF Cum
<1>3. TsnGe(m.cum, t) <=> Cum(m) >= n
  BY <1>1, <1>2, Compare, Widths
<1>4. n > Cum(m)
  BY <1>2, <1>3
<1>5. Holds(m, x, 1..n)
  <2>1. CASE Gap(t, m.base) >= Room(m)
    BY <1>1, <1>4, <2>1, ForwardBeyond
  <2>2. CASE ~(Gap(t, m.base) >= Room(m))
    BY <1>1, <1>4, <2>2, ForwardInside
  <2> QED
    BY <2>1, <2>2
<1>6. MapInv(x)
  BY <1>5 DEF Holds
<1>7. Holds(x, y, {})
  BY <1>6, MarkGood, MovedHolds
<1> HIDE DEF y
<1>8. Slid(y, z)
  BY <1>7, SlideGood DEF Holds
<1> HIDE DEF z
<1>9. Holds(m, y, 1..n \cup {})
  BY <1>5, <1>7, HoldsBoth
<1>10. Holds(m, z, (1..n \cup {}) \cup {})
  BY <1>8, <1>9, HoldsBoth, SlidHolds
<1>11. (1..n \cup {}) \cup {} = 1..n
  OBVIOUS
<1> QED
  BY <1>8, <1>10, <1>11 DEF y, z

\* The bit after the cumulative TSN is clear.
Exact(x) == Cum(x) + 1 - Base(x) \notin Bits(x)

LEMMA ExactNext ==
  ASSUME NEW x, MapInv(x), Exact(x)
  PROVE  Cum(x) + 1 \notin GotOf(x)
<1> DEFINE i == Cum(x) + 1
<1>1. Cum(x) \in 0..MaxSent /\ Base(x) \in 1..(MaxSent + 1) /\ Cum(x) >= Base(x) - 1
  BY MapNumbers DEF MapInv, Good
<1>2. ~(i < Base(x)) /\ i - Base(x) \notin Bits(x)
  BY <1>1 DEF Exact
<1> HIDE DEF i
<1>3. i \notin GotOf(x)
  BY <1>2, GotMember
<1> QED
  BY <1>3 DEF i

\* y lost TSNs of x at most, each with a hole before it and none that is kept.
Drops(x, y) ==
    /\ MapInv(y) /\ Cum(y) >= Cum(x)
    /\ GotOf(y) \subseteq GotOf(x) /\ KeptOf(x) \subseteq KeptOf(y)
    /\ \A i \in GotOf(x) \ GotOf(y) : i \notin KeptOf(x) /\ ~(1..(i - 1) \subseteq GotOf(x))

LEMMA DropsNothing ==
  ASSUME NEW x, MapInv(x)
  PROVE  Drops(x, x)
<1>1. Cum(x) \in Int
  BY MapNumbers
<1> QED
  BY <1>1 DEF Drops

LEMMA DropsSlid ==
  ASSUME NEW x, MapInv(x), NEW y, Drops(x, y), NEW z, Slid(y, z)
  PROVE  Drops(x, z)
<1>1. Cum(x) \in Int /\ Cum(y) \in Int /\ Cum(z) \in Int
  BY MapNumbers DEF Drops, Slid
<1> QED
  BY <1>1 DEF Drops, Slid

LEMMA DrainDrops ==
  ASSUME NEW x, MapInv(x), Exact(x),
         NEW D \in SUBSET {t \in Waiting(x) : TsnGt(t, Add(x.cum, 1))},
         NEW y, y = DrainMap(x, D)
  PROVE  Drops(x, y) /\ Exact(y)
<1>1. MapInv(y)
  BY DrainGood
<1>2. PICK G \in SUBSET x.r, h \in Nat :
              /\ \A g \in G : Base(x) + g > Cum(x) + 1
              /\ Fields(y, Base(x), Cum(x), h, Nhi(x), x.r \ G, x.nr, Room(x))
  BY DrainGood
<1>3. /\ Cum(y) = Cum(x) /\ Base(y) = Base(x) /\ Bits(y) \subseteq Bits(x)
      /\ y.nr = x.nr /\ Bits(x) \subseteq Bits(y) \cup G
  BY <1>2 DEF Fields, Bits
<1>4. KeptOf(y) = KeptOf(x) /\ GotOf(y) \subseteq GotOf(x)
  BY <1>3 DEF KeptOf, GotOf
<1>5. Cum(x) \in 0..MaxSent /\ Base(x) \in 1..(MaxSent + 1) /\ x.r \in SUBSET Nat
  BY MapNumbers
<1>6. ASSUME NEW i \in GotOf(x) \ GotOf(y)
      PROVE  i \notin KeptOf(x) /\ ~(1..(i - 1) \subseteq GotOf(x))
  <2>1. i \in 1..MaxSent
    BY GotMember
  <2>2. i \notin KeptOf(x)
    BY <1>1, <1>4, GotMember
  <2>3. i - Base(x) \in G
    BY <1>1, <1>3, <2>1, GotMember
  <2>4. Base(x) + (i - Base(x)) > Cum(x) + 1
    BY <1>2, <2>3
  <2>5. Cum(x) + 1 \in 1..(i - 1)
    BY <1>5, <2>1, <2>4
  <2> QED
    BY <2>2, <2>5, ExactNext
<1>7. Exact(y)
  BY <1>3 DEF Exact
<1> QED
  BY <1>1, <1>3, <1>4, <1>5, <1>6, <1>7 DEF Drops

-----------------------------------------------------------------------------
(***************************************************************************)
(* The SACK built from arrays that have just been slid.                    *)
(***************************************************************************)

\* Bytes scanned for the highest TSN h reach the bit of h.
LEMMA ScanReaches ==
  ASSUME NEW x, MapInv(x), NEW h \in Tsns, Nth(h) \in 0..MaxSent, Nth(h) > Base(x),
         NEW nrsack \in BOOLEAN,
         h < x.base => nrsack /\ Gap(h, x.base) % ByteBits # 0
  PROVE  Nth(h) - Base(x) < ScanBytes(x, h, nrsack) * ByteBits
<1> DEFINE g == Nth(h) - Base(x)
<1>1. x.base \in Tsns /\ Nth(x.base) = Base(x) /\ Base(x) \in 1..(MaxSent + 1)
  BY MapNumbers DEF Base
<1>2. Gap(h, x.base) = g /\ g \in Nat /\ g < HalfTsn
  BY <1>1, GapNth, Widths
<1>3. ByteBits \in Nat \ {0} /\ ByteBits <= HalfTsn
  BY WidthAssumption
<1>4. h # x.base /\ h \in Int /\ x.base \in Int
  BY <1>1, Widths DEF Tsns
<1> HIDE DEF g
<1>5. CASE h > x.base
  <2>1. ScanBytes(x, h, nrsack) = (g + ByteBits) \div ByteBits
    <3>1. g = h - x.base
      BY <1>2, <1>4, <1>5 DEF Gap
    <3>2. (h - x.base) + 1 + ByteBits - 1 = g + ByteBits
      BY <1>3, <1>4, <3>1
    <3> QED
      BY <1>5, <3>2 DEF ScanBytes
  <2>2. g < ((g + ByteBits) \div ByteBits) * ByteBits
    BY <1>2, <1>3
  <2> QED
    BY <2>1, <2>2 DEF g
<1>6. CASE h < x.base
  <2>1. g = ((TsnSpace - 1) - x.base) + h + 1
    BY <1>2, <1>4, <1>6 DEF Gap
  <2>2. ((TsnSpace - 1) - x.base) + 1 + h + ByteBits - 1 = g + ByteBits - 1
    BY <1>3, <1>4, <2>1, Widths
  <2>3. g + ByteBits - 1 \in 0..(TsnSpace - 1)
    BY <1>2, <1>3, Widths
  <2>4. (g + ByteBits - 1) % TsnSpace = g + ByteBits - 1
    BY <1>2, <1>3, <2>3, Widths
  <2>5. ScanBytes(x, h, nrsack) = (g + ByteBits - 1) \div ByteBits
    BY <1>4, <1>6, <2>2, <2>4 DEF ScanBytes
  <2>6. g % ByteBits # 0
    BY <1>2, <1>6
  <2>7. g < ((g + ByteBits - 1) \div ByteBits) * ByteBits
    <3> DEFINE z == g + ByteBits - 1
               e == z \div ByteBits
    <3>1. z \in Nat /\ e \in Nat /\ e * ByteBits <= z /\ z < e * ByteBits + ByteBits
      BY <1>2, <1>3
    <3>2. e * ByteBits \in Nat
      BY <1>3, <3>1
    <3>3. e * ByteBits # g
      <4> SUFFICES ASSUME e * ByteBits = g PROVE FALSE
        OBVIOUS
      <4> HIDE DEF e
      <4> DEFINE q == g \div ByteBits r == g % ByteBits
      <4>1. q \in Nat /\ r \in 1..(ByteBits - 1) /\ g = q * ByteBits + r
        BY <1>2, <1>3, <2>6
      <4> HIDE DEF q, r
      <4> DEFINE d == e - q
      <4>2. d \in Int /\ d * ByteBits = r
        BY <1>3, <3>1, <4>1
      <4> HIDE DEF d
      <4>3. d <= 0 => d * ByteBits <= 0
        BY <1>3, <4>2
      <4>4. d >= 1 => d * ByteBits >= ByteBits
        BY <1>3, <4>2
      <4> QED
        BY <1>3, <4>1, <4>2, <4>3, <4>4
    <3> QED
      BY <1>2, <1>3, <3>1, <3>2, <3>3
  <2> QED
    BY <2>5, <2>7 DEF g
<1> QED
  BY <1>4, <1>5, <1>6

\* A set with a smaller bound has no more elements, and no later byte.
LEMMA CountMono ==
  ASSUME NEW N \in Nat, NEW S \in SUBSET (0..N), NEW T \in SUBSET S
  PROVE  /\ IsFiniteSet(S) /\ Cardinality(S) \in Nat
         /\ IsFiniteSet(T) /\ Cardinality(T) \in Nat /\ Cardinality(T) <= Cardinality(S)
<1>1. IsFiniteSet(0..N)
  BY FS_Interval
<1>2. IsFiniteSet(S)
  BY <1>1, FS_Subset
<1> QED
  BY <1>2, FS_Subset, FS_CardinalityType

LEMMA ByteMono ==
  ASSUME NEW i \in Nat, NEW j \in Nat, i <= j
  PROVE  /\ i \div ByteBits \in Nat /\ j \div ByteBits \in Nat
         /\ i \div ByteBits <= j \div ByteBits
<1> DEFINE q == i \div ByteBits r == j \div ByteBits
<1>1. ByteBits \in Nat \ {0}
  BY WidthAssumption
<1>2. /\ q \in Nat /\ q * ByteBits <= i
      /\ r \in Nat /\ j < r * ByteBits + ByteBits
  BY <1>1
<1> HIDE DEF q, r
<1>3. q * ByteBits < (r + 1) * ByteBits
  BY <1>1, <1>2
<1>4. q <= r
  <2> SUFFICES ASSUME q >= r + 1 PROVE FALSE
    BY <1>2
  <2> DEFINE d == q - (r + 1)
  <2>1. d \in Nat
    BY <1>2
  <2>2. q * ByteBits = (r + 1) * ByteBits + d * ByteBits /\ d * ByteBits >= 0
    BY <1>1, <1>2, <2>1
  <2> HIDE DEF d
  <2>3. q * ByteBits \in Int /\ (r + 1) * ByteBits \in Int /\ d * ByteBits \in Int
    BY <1>1, <1>2, <2>1
  <2> QED
    BY <1>3, <2>2, <2>3
<1> QED
  BY <1>2, <1>4 DEF q, r

\* What is cut off by the room for k blocks is on top, and only if they are full.
LEMMA FitIs ==
  ASSUME NEW N \in Nat, NEW B \in SUBSET (0..N), NEW k \in Nat
  PROVE  FitsIn(Fit(B, k), B, k)
<1> DEFINE F == Fit(B, k) S == Starts(B)
           upto(b) == {s \in S : s <= b}
           before(b) == {s \in S : s \div ByteBits < b \div ByteBits}
<1>1. S \in SUBSET B /\ S \in SUBSET (0..N)
  BY DEF Starts
<1>2. \A b \in B : /\ upto(b) \in SUBSET (0..N) /\ before(b) \in SUBSET (0..N)
                   /\ IsFiniteSet(upto(b)) /\ Cardinality(upto(b)) \in Nat
                   /\ IsFiniteSet(before(b)) /\ Cardinality(before(b)) \in Nat
  BY <1>1, CountMono
<1>3. \A b \in B : b \in F <=> Cardinality(upto(b)) <= k /\ Cardinality(before(b)) < k
  BY DEF Fit
<1>4. F \subseteq B
  BY DEF Fit
<1> HIDE DEF F
<1>5. ASSUME NEW i \in B, NEW j \in F, i <= j PROVE i \in F
  <2>1. j \in B /\ i \in Nat /\ j \in Nat
    BY <1>4
  <2>2. i \div ByteBits \in Nat /\ j \div ByteBits \in Nat /\ i \div ByteBits <= j \div ByteBits
    BY <1>5, <2>1, ByteMono
  <2>3. upto(i) \subseteq upto(j)
    BY <1>1, <1>5, <2>1
  <2>4. before(i) \subseteq before(j)
    <3> SUFFICES ASSUME NEW s \in S, s \div ByteBits < i \div ByteBits
                 PROVE  s \div ByteBits < j \div ByteBits
      OBVIOUS
    <3>1. s \in Nat
      BY <1>1
    <3>2. s \div ByteBits \in Nat
      BY <3>1, ByteMono
    <3> QED
      BY <2>2, <3>2
  <2>5. Cardinality(upto(i)) <= Cardinality(upto(j))
    BY <1>2, <2>1, <2>3, CountMono
  <2>6. Cardinality(before(i)) <= Cardinality(before(j))
    BY <1>2, <2>1, <2>4, CountMono
  <2>7. Cardinality(upto(j)) <= k /\ Cardinality(before(j)) < k
    BY <1>3, <2>1
  <2> HIDE DEF upto, before
  <2> QED
    BY <1>2, <1>3, <2>1, <2>5, <2>6, <2>7
<1>6. \A i \in F, j \in B \ F : i < j
  BY <1>4, <1>5
<1>7. Starts(F) = S \cap F
  <2>1. ASSUME NEW s \in F, s - 1 \notin F PROVE s - 1 \notin B
    <3>1. s \in 0..N
      BY <1>4
    <3>2. s - 1 \in B => s - 1 \in F
      BY <1>5, <3>1
    <3> QED
      BY <2>1, <3>2
  <2> QED
    BY <1>4, <2>1 DEF Starts
<1>8. Starts(F) \in SUBSET (0..N) /\ Cardinality(Starts(F)) \in Nat /\ IsFiniteSet(Starts(F))
  BY <1>1, <1>7, CountMono
<1>9. Cardinality(Starts(F)) <= k
  <2>1. CASE Starts(F) = {}
    BY <2>1, FS_EmptySet
  <2>2. CASE Starts(F) # {}
    <3>1. PICK f \in Starts(F) : \A s \in Starts(F) : s <= f
      BY <1>8, <2>2, LargestExists
    <3>2. f \in F /\ f \in B
      BY <1>4, <1>7
    <3>3. Starts(F) \subseteq upto(f)
      BY <1>7, <3>1
    <3>4. Cardinality(Starts(F)) <= Cardinality(upto(f))
      BY <1>2, <3>2, <3>3, CountMono
    <3>5. Cardinality(upto(f)) <= k /\ Cardinality(upto(f)) \in Nat
      BY <1>2, <1>3, <3>2
    <3> HIDE DEF upto
    <3> QED
      BY <1>8, <3>4, <3>5
  <2> QED
    BY <2>1, <2>2
<1>10. ASSUME Cardinality(Starts(F)) < k, F # B PROVE FALSE
  <2> DEFINE D == B \ F
  <2>1. D \subseteq Nat /\ D # {}
    <3>1. D \subseteq Nat
      <4>1. \A e \in B : e \in Nat
        OBVIOUS
      <4> QED
        BY <4>1
    <3>2. D = {} => B \subseteq F
      OBVIOUS
    <3>3. B \subseteq F => F = B
      BY <1>4
    <3> QED
      BY <1>10, <3>1, <3>2, <3>3
  <2>2. PICK b \in D : \A e \in D : ~(<<e, b>> \in OpToRel(<, Nat))
    BY <2>1, NatLessThanWellFounded, WFMin
  <2>3. b \in Nat /\ \A e \in D : ~(e < b)
    BY <2>1, <2>2 DEF OpToRel
  <2>4. b \in B /\ b \notin F
    OBVIOUS
  <2>5. \A e \in B : e < b => e \in F
    BY <2>3
  <2>6. before(b) \subseteq Starts(F)
    <3> SUFFICES ASSUME NEW s \in S, s \div ByteBits < b \div ByteBits PROVE s \in Starts(F)
      OBVIOUS
    <3>1. s \in Nat /\ s \in B
      BY <1>1
    <3>2. s < b
      <4> SUFFICES ASSUME b <= s PROVE FALSE
        BY <2>3, <3>1
      <4>1. b \div ByteBits <= s \div ByteBits /\ b \div ByteBits \in Nat /\ s \div ByteBits \in Nat
        BY <2>3, <3>1, ByteMono
      <4> QED
        BY <4>1
    <3> QED
      BY <1>7, <2>5, <3>1, <3>2
  <2>7. upto(b) \subseteq Starts(F) \cup {b}
    <3> SUFFICES ASSUME NEW s \in S, s <= b, s # b PROVE s \in Starts(F)
      OBVIOUS
    <3>1. s \in B /\ s \in Nat /\ s < b
      BY <1>1, <2>3
    <3> QED
      BY <1>7, <2>5, <3>1
  <2>8. Cardinality(before(b)) <= Cardinality(Starts(F))
    BY <1>8, <2>6, CountMono
  <2>9. Cardinality(upto(b)) <= Cardinality(Starts(F)) + 1
    <3>1. /\ IsFiniteSet(Starts(F) \cup {b})
          /\ \/ Cardinality(Starts(F) \cup {b}) = Cardinality(Starts(F))
             \/ Cardinality(Starts(F) \cup {b}) = Cardinality(Starts(F)) + 1
      BY <1>8, FS_AddElement
    <3>2. Cardinality(upto(b)) <= Cardinality(Starts(F) \cup {b})
      BY <2>7, <3>1, FS_Subset
    <3>3. Cardinality(upto(b)) \in Nat
      BY <1>2, <2>4
    <3> HIDE DEF upto
    <3> QED
      BY <1>8, <3>1, <3>2, <3>3
  <2>10. Cardinality(before(b)) \in Nat /\ Cardinality(upto(b)) \in Nat
    BY <1>2, <2>4
  <2>11. ~(Cardinality(upto(b)) <= k /\ Cardinality(before(b)) < k)
    BY <1>3, <2>4
  <2> HIDE DEF upto, before
  <2> QED
    BY <1>8, <1>10, <2>8, <2>9, <2>10, <2>11
<1>11. Cardinality(Starts(F)) < k => F = B
  BY <1>10
<1>12. FitsIn(F, B, k)
  BY <1>4, <1>6, <1>9, <1>11 DEF FitsIn
<1> QED
  BY <1>12 DEF F

\* The same of the TSNs as of their bits.
LEMMA FitShifted ==
  ASSUME NEW N \in Nat, NEW B \in SUBSET (0..N), NEW F, NEW k, FitsIn(F, B, k),
         NEW b \in Nat
  PROVE  /\ FitsIn({b + g : g \in F}, {b + g : g \in B}, k)
         /\ Cardinality(Starts({b + g : g \in F})) = Cardinality(Starts(F))
<1> DEFINE R == {b + g : g \in F} A == {b + g : g \in B}
           f == [g \in Starts(F) |-> b + g]
<1>1. F \subseteq B /\ F \subseteq 0..N
  BY DEF FitsIn
<1>2. R \subseteq A
  BY <1>1
<1>3. \A i \in R : i \in Nat /\ i - b \in F /\ i = b + (i - b)
  <2> SUFFICES ASSUME NEW g \in F
               PROVE  b + g \in Nat /\ (b + g) - b \in F /\ b + g = b + ((b + g) - b)
    OBVIOUS
  <2>1. g \in Nat
    BY <1>1
  <2>2. (b + g) - b = g
    BY <2>1
  <2> QED
    BY <2>1, <2>2
<1>4. \A g \in F : b + g \in R
  OBVIOUS
<1>5. Starts(R) = {b + g : g \in Starts(F)}
  <2>1. ASSUME NEW i \in Starts(R) PROVE i \in {b + g : g \in Starts(F)}
    <3>1. i \in R /\ i - 1 \notin R
      BY DEF Starts
    <3>2. i - b \in F /\ i = b + (i - b) /\ i \in Nat
      BY <1>3, <3>1
    <3>3. i - b - 1 \in F => i - 1 \in R
      <4> SUFFICES ASSUME i - b - 1 \in F PROVE i - 1 \in R
        OBVIOUS
      <4>1. b + (i - b - 1) = i - 1
        BY <3>2
      <4> QED
        BY <1>4, <4>1
    <3>4. i - b \in Starts(F)
      BY <3>1, <3>2, <3>3 DEF Starts
    <3> QED
      BY <3>2, <3>4
  <2>2. ASSUME NEW g \in Starts(F) PROVE b + g \in Starts(R)
    <3>1. g \in F /\ g - 1 \notin F /\ g \in Nat
      BY <1>1 DEF Starts
    <3>2. b + g - 1 \in R => g - 1 \in F
      <4> SUFFICES ASSUME b + g - 1 \in R PROVE g - 1 \in F
        OBVIOUS
      <4>1. (b + g - 1) - b \in F
        BY <1>3
      <4>2. (b + g - 1) - b = g - 1
        BY <3>1
      <4> QED
        BY <4>1, <4>2
    <3> QED
      BY <1>4, <3>1, <3>2 DEF Starts
  <2> QED
    BY <2>1, <2>2
<1>6. Starts(F) \in SUBSET (0..N)
  BY <1>1 DEF Starts
<1>7. f \in Bijection(Starts(F), Starts(R))
  <2>1. f \in [Starts(F) -> Starts(R)]
    BY <1>5
  <2>2. \A g \in Starts(F), h \in Starts(F) : f[g] = f[h] => g = h
    <3> SUFFICES ASSUME NEW g \in Starts(F), NEW h \in Starts(F), b + g = b + h PROVE g = h
      OBVIOUS
    <3>1. g \in Nat /\ h \in Nat
      BY <1>6
    <3> QED
      BY <3>1
  <2>3. \A i \in Starts(R) : \E g \in Starts(F) : f[g] = i
    BY <1>5
  <2> QED
    BY <2>1, <2>2, <2>3 DEF Bijection, Injection, Surjection, IsInjective
<1>8. IsFiniteSet(Starts(F))
  BY <1>6, CountMono
<1>9. Cardinality(Starts(R)) = Cardinality(Starts(F))
  <2>1. ExistsBijection(Starts(F), Starts(R))
    BY <1>7 DEF ExistsBijection
  <2> QED
    BY <1>8, <2>1, FS_Bijection
<1>10. F = B => R = A
  OBVIOUS
<1>11. \A i \in R, j \in A \ R : i < j
  <2> SUFFICES ASSUME NEW i \in R, NEW h \in B, b + h \notin R PROVE i < b + h
    OBVIOUS
  <2>1. i - b \in F /\ h \notin F /\ h \in Nat /\ i \in Nat
    BY <1>3, <1>4
  <2>2. i - b < h
    BY <2>1 DEF FitsIn
  <2> QED
    BY <2>1, <2>2
<1>12. FitsIn(R, A, k)
  <2>1. Cardinality(Starts(F)) <= k /\ (Cardinality(Starts(F)) < k => F = B)
    BY DEF FitsIn
  <2> HIDE DEF R, A
  <2> QED
    BY <1>2, <1>9, <1>10, <1>11, <2>1 DEF FitsIn
<1> QED
  BY <1>9, <1>12

\* What is scanned of an array is what it has beyond the cumulative TSN, and
\* what is reported is what goes into the blocks.
LEMMA ReportedIs ==
  ASSUME NEW w, NEW x, Slid(w, x), NEW S \in SUBSET Bits(x),
         NEW h \in Tsns, Nth(h) \in 0..MaxSent, \A g \in S : Base(x) + g <= Nth(h),
         NEW nrsack \in BOOLEAN, NEW room \in Nat,
         Wraps(x, h) => nrsack /\ Gap(h, x.base) % ByteBits # 0
  PROVE  LET F == Fit(Scanned(x, S, h, nrsack), room)
             R == {Nth(t) : t \in Reported(x, S, h, nrsack, room)}
             A == {i \in {Base(x) + g : g \in S} : i > Cum(x)}
         IN
         /\ FitsIn(R, A, room)
         /\ Cardinality(Starts(R)) = Cardinality(Starts(F)) /\ Cardinality(Starts(F)) \in 0..room
<1> DEFINE b == Base(x) c == Cum(x) k == ScanBytes(x, h, nrsack) * ByteBits
           P(g) == g < k /\ (g >= ByteBits \/ TsnGt(Add(x.base, g), x.cum))
<1>1. /\ MapInv(x) /\ c + 1 - b \notin Bits(x) /\ c + 1 - b < ByteBits
      /\ b \in 1..(MaxSent + 1) /\ c \in 0..MaxSent /\ c >= b - 1
      /\ x.cum \in Tsns /\ Nth(x.cum) = c /\ ByteBits \in Nat \ {0}
  BY WidthAssumption, MapNumbers DEF Slid, MapInv, Good, Cum
<1>2. \A g \in S : /\ g \in Nat /\ b + g <= MaxSent
                   /\ Add(x.base, g) \in Tsns /\ Nth(Add(x.base, g)) = b + g
  <2> SUFFICES ASSUME NEW g \in S
               PROVE  /\ g \in Nat /\ b + g <= MaxSent
                      /\ Add(x.base, g) \in Tsns /\ Nth(Add(x.base, g)) = b + g
    OBVIOUS
  <2>1. g \in Nat /\ b + g <= MaxSent
    BY <1>1, FirstClearIs, Widths
  <2> QED
    BY <1>1, <2>1, BitTsn, Widths
<1>3. TsnGt(h, x.cum) <=> Nth(h) > c
  BY <1>1, Compare, Widths
<1>4. ASSUME NEW g \in S PROVE TsnGt(Add(x.base, g), x.cum) <=> b + g > c
  <2>1. Add(x.base, g) \in Tsns /\ Nth(Add(x.base, g)) \in 0..MaxSent
    BY <1>1, <1>2, Widths
  <2>2. TsnGt(Add(x.base, g), x.cum) <=> Nth(Add(x.base, g)) > Nth(x.cum)
    BY <1>1, <2>1, Compare, Widths
  <2> QED
    BY <1>1, <1>2, <2>2
<1>5. Scanned(x, S, h, nrsack) = {g \in S : b + g > c}
  <2>1. CASE ~(Nth(h) > c)
    <3>1. Scanned(x, S, h, nrsack) = {}
      BY <1>3, <2>1 DEF Scanned
    <3>2. \A g \in S : ~(b + g > c)
      BY <1>1, <1>2, <2>1
    <3> QED
      BY <3>1, <3>2
  <2>2. CASE Nth(h) > c
    <3>1. Scanned(x, S, h, nrsack) = {g \in S : P(g)}
      BY <1>3, <2>2 DEF Scanned
    <3>2. ASSUME NEW g \in S PROVE P(g) <=> b + g > c
      <4>1. g >= ByteBits => b + g > c
        BY <1>1, <1>2
      <4>2. b + g > c => g < k
        <5> SUFFICES ASSUME b + g > c PROVE g < k
          OBVIOUS
        <5>1. g # c + 1 - b /\ g \in Nat
          BY <1>1, <1>2
        <5>2. b + g > c + 1 /\ Nth(h) > b /\ g <= Nth(h) - b
          BY <1>1, <1>2, <5>1
        <5>3. h < x.base => nrsack /\ Gap(h, x.base) % ByteBits # 0
          BY <1>3, <2>2 DEF Wraps
        <5>4. Nth(h) - b < k
          BY <1>1, <5>2, <5>3, ScanReaches
        <5>5. k \in Int
          <6>1. h \in Int /\ x.base \in Int /\ TsnSpace \in Nat \ {0}
            BY <1>1, MapNumbers, Widths DEF Tsns
          <6> QED
            BY <1>1, <6>1 DEF ScanBytes
        <5> HIDE DEF k
        <5> QED
          BY <1>1, <5>1, <5>2, <5>4, <5>5
      <4> HIDE DEF k
      <4> QED
        BY <1>4, <4>1, <4>2
    <3> HIDE DEF P
    <3> QED
      BY <3>1, <3>2
  <2> QED
    BY <2>1, <2>2
<1> DEFINE B == {g \in S : b + g > c}
           F == Fit(B, room)
<1>6. B \in SUBSET (0..MaxSent) /\ MaxSent \in Nat
  BY <1>1, <1>2, Widths
<1>7. FitsIn(F, B, room)
  BY <1>6, FitIs
<1>8. {Nth(t) : t \in Reported(x, S, h, nrsack, room)} = {b + g : g \in F}
  <2>1. Reported(x, S, h, nrsack, room) = {Add(x.base, g) : g \in F}
    BY <1>5 DEF Reported
  <2>2. \A g \in F : Nth(Add(x.base, g)) = b + g
    <3>1. F \subseteq B
      BY <1>7 DEF FitsIn
    <3> HIDE DEF F
    <3> QED
      BY <1>2, <3>1
  <2> HIDE DEF F
  <2> QED
    BY <2>1, <2>2
<1>9. {i \in {b + g : g \in S} : i > c} = {b + g : g \in B}
  OBVIOUS
<1>10. /\ FitsIn({b + g : g \in F}, {b + g : g \in B}, room)
       /\ Cardinality(Starts({b + g : g \in F})) = Cardinality(Starts(F))
  <2> HIDE DEF F, B
  <2>1. b \in Nat
    BY <1>1
  <2> HIDE DEF b
  <2> QED
    BY <1>6, <1>7, <2>1, FitShifted
<1>11. Cardinality(Starts(F)) \in 0..room
  <2>1. Starts(F) \in SUBSET (0..MaxSent)
    BY <1>6, <1>7 DEF Starts, FitsIn
  <2>2. Cardinality(Starts(F)) \in Nat /\ Cardinality(Starts(F)) <= room
    BY <1>6, <1>7, <2>1, CountMono DEF FitsIn
  <2> HIDE DEF F
  <2> QED
    BY <2>2
<1> HIDE DEF F
<1> QED
  BY <1>5, <1>8, <1>9, <1>10, <1>11 DEF F

LEMMA SackGapsAre ==
  ASSUME NEW w, NEW x, Slid(w, x), NEW k \in Nat
  PROVE  LET beyond(S) == {n \in {Base(x) + g : g \in S} : n > Cum(x)}
             all == {n \in GotOf(w) : n > Cum(x)}
             nth(S) == {Nth(t) : t \in S}
         IN
         /\ ~Wraps(x, Highest(x)) => FitsIn(nth(SackGaps(x, k)), all, k)
         /\ beyond(x.r) \cup beyond(x.nr) = all
         /\ (\A h \in {x.hi, x.nhi} : Wraps(x, h) => Gap(h, x.base) % ByteBits # 0) =>
              LET first == nth(RevokableGaps(x, k)) IN
              /\ FitsIn(first, beyond(x.r), k)
              /\ FitsIn(nth(NrGaps(x, k)), beyond(x.nr), k - Cardinality(Starts(first)))
<1> DEFINE b == Base(x) c == Cum(x)
           beyond(S) == {n \in {b + g : g \in S} : n > c}
           all == {n \in GotOf(w) : n > c}
           nth(S) == {Nth(t) : t \in S}
           first == nth(RevokableGaps(x, k))
<1>1. /\ MapInv(x) /\ GotOf(x) = GotOf(w)
      /\ b \in 1..(MaxSent + 1) /\ c \in 0..MaxSent /\ c >= b - 1
  BY MapNumbers DEF Slid, MapInv, Good
<1>2. all = beyond(Bits(x))
  <2>1. \A i \in 1..(b - 1) : ~(i > c)
    BY <1>1
  <2> QED
    BY <1>1, <2>1 DEF GotOf
<1>3. beyond(x.r) \cup beyond(x.nr) = all
  BY <1>2 DEF Bits
<1>4. ASSUME ~Wraps(x, Highest(x)) PROVE FitsIn(nth(SackGaps(x, k)), all, k)
  <2>1. /\ Highest(x) \in Tsns /\ Nth(Highest(x)) \in 0..MaxSent
        /\ \A g \in Bits(x) : b + g <= Nth(Highest(x))
    BY <1>1, FirstClearIs
  <2>2. FitsIn(nth(Reported(x, Bits(x), Highest(x), FALSE, k)), beyond(Bits(x)), k)
    BY <1>4, <2>1, ReportedIs
  <2> QED
    BY <1>2, <2>2 DEF SackGaps
<1>5. ASSUME \A h \in {x.hi, x.nhi} : Wraps(x, h) => Gap(h, x.base) % ByteBits # 0
      PROVE  /\ FitsIn(first, beyond(x.r), k)
             /\ FitsIn(nth(NrGaps(x, k)), beyond(x.nr), k - Cardinality(Starts(first)))
  <2> DEFINE n1 == Cardinality(Starts(Fit(Scanned(x, x.r, x.hi, TRUE), k)))
  <2>1. /\ x.hi \in Tsns /\ x.nhi \in Tsns /\ Nth(x.hi) \in 0..MaxSent /\ Nth(x.nhi) \in 0..MaxSent
        /\ \A g \in x.r : b + g <= Nth(x.hi)
        /\ \A g \in x.nr : b + g <= Nth(x.nhi)
        /\ x.r \in SUBSET Bits(x) /\ x.nr \in SUBSET Bits(x)
    BY <1>1, MapNumbers DEF MapInv, Good, Hi, Nhi, Bits
  <2>2. FitsIn(first, beyond(x.r), k) /\ Cardinality(Starts(first)) = n1 /\ n1 \in 0..k
    <3>1. /\ FitsIn(nth(Reported(x, x.r, x.hi, TRUE, k)), beyond(x.r), k)
          /\ Cardinality(Starts(nth(Reported(x, x.r, x.hi, TRUE, k)))) = n1
          /\ n1 \in 0..k
      BY <1>5, <2>1, ReportedIs
    <3> QED
      BY <3>1 DEF RevokableGaps
  <2>3. NrGaps(x, k) = Reported(x, x.nr, x.nhi, TRUE, k - n1)
    BY DEF NrGaps
  <2> HIDE DEF n1, first
  <2>4. k - n1 \in Nat
    BY <2>2
  <2>5. FitsIn(nth(Reported(x, x.nr, x.nhi, TRUE, k - n1)), beyond(x.nr), k - n1)
    BY <1>5, <2>1, <2>4, ReportedIs
  <2> QED
    BY <2>2, <2>3, <2>5
<1> HIDE DEF first, all
<1> QED
  BY <1>3, <1>4, <1>5 DEF first, all

-----------------------------------------------------------------------------
(***************************************************************************)
(* The invariant of the receive side.  Beside the arrays it says that the  *)
(* cumulative TSN is exact unless data of a packet is being processed, and *)
(* that the last SACK was not ahead of it.                                 *)
(***************************************************************************)
PktType == [open : BOOLEAN, data : BOOLEAN, fwd : BOOLEAN, was_a_gap : BOOLEAN]

Inv ==
    /\ MapInv(m)
    /\ ~pkt.data => Exact(m)
    /\ acked \in Nat /\ acked <= Cum(m)
    /\ pkt \in PktType
    /\ pkt.data => pkt.open /\ started
    /\ do_drain \in BOOLEAN /\ delayed_ack \in BOOLEAN
    /\ started \in BOOLEAN /\ send_sack \in BOOLEAN
    /\ dack \in {"off", "on", "stopped"}

\* What a step from arrays x to y with acknowledgements a and b does to the TSNs.
StepOf(x, y, a, b) ==
    \/ b = a /\ GotOf(y) = GotOf(x) /\ KeptOf(x) \subseteq KeptOf(y)
    \/ b = a /\ \E n \in 1..MaxSent : Holds(x, y, {n}) /\ n \notin GotOf(x)
    \/ b = a /\ \E n \in 1..MaxSent : Holds(x, y, 1..n)
    \/ Drops(x, y) /\ (b = a \/ (b = Cum(y) /\ Cum(y) + 1 \notin GotOf(y)))

LEMMA InitInv ==
  ASSUME Init
  PROVE  Inv /\ GotOf(m) = {} /\ KeptOf(m) = {}
<1> DEFINE u == Add(InitialTsn, -1) k == InitBytes * ByteBits
<1>1. /\ InitialTsn \in Tsns /\ Nth(InitialTsn) = 1
      /\ u \in Tsns /\ Nth(u) = 0
  BY WidthAssumption DEF Nth, Gap, Add, TsnSpace, Tsns
<1>2. InitBytes \in Nat /\ k \in Nat \ {0}
  BY WidthAssumption
<1>3. m = [base |-> InitialTsn, cum |-> u, hi |-> u, nhi |-> u,
           r |-> {}, nr |-> {}, size |-> InitBytes]
  BY DEF Init, EmptyMap
<1> HIDE DEF u, k
<1>4. Fields(m, 1, 0, 0, 0, {}, {}, k)
  BY <1>1, <1>2, <1>3 DEF Fields, MapType, Base, Cum, Hi, Nhi, Room, k
<1>5. Good(1, 0, 0, 0, {}, {}, k)
  BY <1>2, Widths DEF Good
<1>6. MapInv(m) /\ Exact(m) /\ Cum(m) = 0 /\ Base(m) = 1 /\ Bits(m) = {} /\ m.nr = {}
  BY <1>4, <1>5, FieldsGood DEF Exact, Fields, Bits
<1>7. pkt \in PktType /\ ~pkt.data /\ acked = 0
  BY DEF Init, Idle, PktType
<1>8. Inv
  <2>1. acked \in Nat /\ acked <= Cum(m)
    BY <1>6, <1>7
  <2>2. /\ do_drain \in BOOLEAN /\ delayed_ack \in BOOLEAN
        /\ started \in BOOLEAN /\ send_sack \in BOOLEAN
        /\ dack \in {"off", "on", "stopped"}
    BY DEF Init
  <2> QED
    BY <1>6, <1>7, <2>1, <2>2, Zenon DEF Inv
<1>9. GotOf(m) = {} /\ KeptOf(m) = {}
  BY <1>6 DEF GotOf, KeptOf
<1> QED
  BY <1>8, <1>9

\* sctp_send_sack, on arrays that may have lost chunks.
LEMMA SackStep ==
  ASSUME MapInv(m), acked \in Nat, acked <= Cum(m), NEW x, Drops(m, x),
         ~started => Exact(x),
         NoSack(x) \/ SackSent(x) \/ SackDeferred(x)
  PROVE  /\ MapInv(m') /\ Exact(m') /\ acked' \in Nat /\ acked' <= Cum(m')
         /\ StepOf(m, m', acked, acked')
         /\ dack' \in {"off", "on", "stopped"}
<1>1. MapInv(x) /\ Cum(m) \in Int /\ Cum(x) \in Int /\ Cum(x) >= Cum(m)
  BY MapNumbers DEF Drops
<1>2. CASE NoSack(x)
  <2>1. m' = x /\ acked' = acked /\ Exact(x) /\ dack' = "off"
    BY <1>2 DEF NoSack
  <2>2. StepOf(m, x, acked, acked')
    BY <2>1 DEF StepOf
  <2>3. acked' \in Nat /\ acked' <= Cum(x)
    BY <1>1, <2>1
  <2> QED
    BY <1>1, <2>1, <2>2, <2>3
<1>3. CASE SackSent(x) \/ SackDeferred(x)
  <2> DEFINE z == Slide(x)
  <2>1. /\ m' = z /\ dack' \in {"off", "on", "stopped"}
        /\ acked' = acked \/ acked' = Cum(z)
    BY <1>3 DEF SackSent, SackDeferred, Cum
  <2>2. Slid(x, z)
    BY <1>1, SlideGood
  <2> HIDE DEF z
  <2>3. Drops(m, z)
    BY <2>2, DropsSlid
  <2>4. MapInv(z) /\ Exact(z) /\ Cum(z) + 1 \notin GotOf(z) /\ Cum(z) \in Nat /\ Cum(z) >= Cum(m)
    BY <2>2, <2>3, MapNumbers DEF Slid, Exact, Drops
  <2>5. acked' \in Nat /\ acked' <= Cum(z)
    BY <1>1, <2>1, <2>4
  <2>6. StepOf(m, z, acked, acked')
    BY <2>1, <2>3, <2>4 DEF StepOf
  <2> QED
    BY <2>1, <2>4, <2>5, <2>6
<1> QED
  BY <1>2, <1>3

\* Data changes arrays and packet, and nothing else of the invariant.
LEMMA DataStep ==
  ASSUME Inv, OpenData, NEW y, m' = y, MapInv(y), Cum(y) >= Cum(m), send_sack' \in BOOLEAN
  PROVE  Inv'
<1>1. pkt \in PktType /\ IsAGap(m) \in BOOLEAN
  BY DEF Inv, IsAGap, TsnGt
<1>2. /\ pkt' = [pkt EXCEPT !.open = TRUE, !.data = TRUE,
                            !.was_a_gap = IF pkt.data THEN @ ELSE IsAGap(m)]
      /\ started' = TRUE /\ do_drain' = do_drain /\ delayed_ack' = delayed_ack
      /\ dack' = dack /\ acked' = acked
  BY DEF OpenData
<1>3. pkt' \in PktType /\ pkt'.data /\ pkt'.open
  BY <1>1, <1>2 DEF PktType
<1>4. acked' \in Nat /\ acked' <= Cum(y)
  <2>1. Cum(m) \in Int /\ Cum(y) \in Int /\ acked \in Nat /\ acked <= Cum(m)
    BY MapNumbers DEF Inv
  <2> QED
    BY <1>2, <2>1
<1>5. MapInv(m)' /\ (acked <= Cum(m))'
  BY <1>4
<1>6. do_drain' \in BOOLEAN /\ delayed_ack' \in BOOLEAN /\ dack' \in {"off", "on", "stopped"}
  BY <1>2 DEF Inv
<1> QED
  BY <1>2, <1>3, <1>4, <1>5, <1>6 DEF Inv

LEMMA DuplicateStep ==
  ASSUME Inv, NEW n \in 1..MaxSent, DuplicateData(n)
  PROVE  Inv' /\ StepOf(m, m', acked, acked')
<1>1. m' = m /\ OpenData /\ send_sack' \in BOOLEAN /\ acked' = acked
  BY DEF DuplicateData, OpenData
<1>2. MapInv(m) /\ Cum(m) \in Int
  BY MapNumbers DEF Inv
<1>3. Inv'
  BY <1>1, <1>2, DataStep
<1>4. StepOf(m, m, acked, acked')
  BY <1>1 DEF StepOf
<1> QED
  BY <1>1, <1>3, <1>4

LEMMA DropStep ==
  ASSUME Inv, NEW n \in 1..MaxSent, DropData(n)
  PROVE  Inv' /\ StepOf(m, m', acked, acked')
<1> DEFINE t == NthTsn(n)
<1>1. ~Duplicate(t) /\ OpenData /\ send_sack' \in BOOLEAN /\ acked' = acked
  BY DEF DropData, MayAskSack, OpenData, Inv
<1>2. MapInv(m) /\ Cum(m) \in Int
  BY MapNumbers DEF Inv
<1>3. m' = m \/ m' = Fitted(t)
  BY DEF DropData
<1>4. ASSUME NEW y, m' = y, y = m \/ y = Fitted(t)
      PROVE  Inv' /\ StepOf(m, m', acked, acked')
  <2>1. MapInv(y) /\ Cum(y) = Cum(m) /\ GotOf(y) = GotOf(m) /\ KeptOf(y) = KeptOf(m)
    BY <1>1, <1>2, <1>4, FittedGood, GrownHolds, GrownGood
  <2>2. Inv'
    BY <1>1, <1>2, <1>4, <2>1, DataStep
  <2>3. StepOf(m, y, acked, acked')
    BY <1>1, <2>1 DEF StepOf
  <2> QED
    BY <1>4, <2>2, <2>3
<1> QED
  BY <1>3, <1>4

LEMMA AcceptStep ==
  ASSUME Inv, NEW n \in 1..MaxSent, ExpressData(n) \/ QueueData(n)
  PROVE  Inv' /\ StepOf(m, m', acked, acked')
<1> DEFINE t == NthTsn(n)
           q == IF do_drain THEN SetR(Fitted(t), t) ELSE SetNr(Fitted(t), t)
<1>1. ~Duplicate(t) /\ OpenData /\ send_sack' \in BOOLEAN /\ acked' = acked
  BY DEF ExpressData, QueueData, MayAskSack, OpenData, Inv
<1>2. MapInv(m)
  BY DEF Inv
<1>3. \E y : m' = y /\ Holds(m, y, {n})
  <2>1. CASE ExpressData(n)
    <3>1. m' = Follow(SetNr(Fitted(t), t), t)
      BY <2>1 DEF ExpressData
    <3> QED
      BY <1>1, <1>2, <3>1, ExpressHolds
  <2>2. CASE QueueData(n)
    <3>1. PICK D \in SUBSET Waiting(q) : m' = Follow(MarkNonRevokable(q, D), t)
      BY <2>2 DEF QueueData
    <3> HIDE DEF t
    <3>2. Holds(m, Follow(MarkNonRevokable(q, D), t), {n})
      BY <1>1, <1>2, QueueHolds DEF t
    <3> QED
      BY <3>1, <3>2
  <2> QED
    BY <2>1, <2>2
<1>4. PICK y : m' = y /\ Holds(m, y, {n})
  BY <1>3
<1>5. Inv'
  BY <1>1, <1>4, DataStep DEF Holds
<1>6. n \notin GotOf(m)
  BY <1>1, <1>2, NotDuplicate
<1>7. StepOf(m, y, acked, acked')
  BY <1>1, <1>4, <1>6 DEF StepOf
<1> QED
  BY <1>4, <1>5, <1>7

LEMMA ForwardStep ==
  ASSUME Inv, NEW n \in 1..MaxSent, ForwardTsn(n)
  PROVE  Inv' /\ StepOf(m, m', acked, acked')
<1> DEFINE t == NthTsn(n)
<1>1. /\ ~pkt.data /\ pkt' = [pkt EXCEPT !.open = TRUE, !.fwd = TRUE]
      /\ started' = started /\ do_drain' = do_drain /\ delayed_ack' = delayed_ack
      /\ dack' = dack /\ acked' = acked /\ send_sack' = send_sack
  BY DEF ForwardTsn
<1>2. /\ MapInv(m) /\ Exact(m) /\ Cum(m) \in Int /\ acked \in Nat /\ acked <= Cum(m)
      /\ pkt \in PktType
  BY <1>1, MapNumbers DEF Inv
<1>3. pkt' \in PktType /\ ~pkt'.data
  BY <1>1, <1>2 DEF PktType
<1>4. \E y : m' = y /\ MapInv(y) /\ Exact(y) /\ Cum(y) >= Cum(m) /\ StepOf(m, y, acked, acked')
  <2>1. CASE TsnGe(m.cum, t)
    <3>1. m' = m
      BY <2>1 DEF ForwardTsn
    <3>2. StepOf(m, m, acked, acked')
      BY <1>1 DEF StepOf
    <3> QED
      BY <1>2, <3>1, <3>2
  <2>2. CASE ~TsnGe(m.cum, t)
    <3> DEFINE x == Forward(m, t)
    <3>1. PICK D \in SUBSET Waiting(x) : m' = Slide(MarkNonRevokable(x, D))
      BY <2>2 DEF ForwardTsn
    <3> DEFINE y == MarkNonRevokable(x, D) z == Slide(y)
    <3> HIDE DEF t
    <3>2. Holds(m, z, 1..n) /\ Slid(y, z)
      BY <1>2, <2>2, ForwardHolds DEF t
    <3> HIDE DEF x, y, z
    <3>3. MapInv(z) /\ Exact(z) /\ Cum(z) >= Cum(m)
      BY <3>2 DEF Slid, Exact, Holds
    <3>4. StepOf(m, z, acked, acked')
      BY <1>1, <3>2 DEF StepOf
    <3> QED
      BY <3>1, <3>3, <3>4 DEF y, z
  <2> QED
    BY <2>1, <2>2
<1>5. PICK y : m' = y /\ MapInv(y) /\ Exact(y) /\ Cum(y) >= Cum(m) /\ StepOf(m, y, acked, acked')
  BY <1>4
<1>6. acked' \in Nat /\ acked' <= Cum(y)
  <2>1. Cum(y) \in Int
    BY <1>5, MapNumbers
  <2> QED
    BY <1>1, <1>2, <1>5, <2>1
<1>7. /\ do_drain' \in BOOLEAN /\ delayed_ack' \in BOOLEAN
      /\ started' \in BOOLEAN /\ send_sack' \in BOOLEAN
      /\ dack' \in {"off", "on", "stopped"}
  BY <1>1 DEF Inv
<1>8. MapInv(m') /\ Exact(m') /\ acked' <= Cum(m')
  BY <1>5, <1>6
<1>9. Inv'
  BY <1>3, <1>6, <1>7, <1>8 DEF Inv
<1> QED
  BY <1>5, <1>9

\* The invariant after a step that leaves no packet open.
LEMMA ClosedInv ==
  ASSUME Inv, MapInv(m'), Exact(m'), acked' \in Nat, acked' <= Cum(m'),
         pkt' \in PktType, ~pkt'.data, do_drain' = do_drain, started' = started,
         delayed_ack' \in BOOLEAN,
         send_sack' \in BOOLEAN, dack' \in {"off", "on", "stopped"}
  PROVE  Inv'
<1>1. do_drain' \in BOOLEAN /\ started' \in BOOLEAN
  BY DEF Inv
<1> QED
  BY <1>1 DEF Inv

\* sctp_send_sack and the note that a SACK is due.
LEMMA SendSackStep ==
  ASSUME Inv, ~pkt.data, NEW x, Drops(m, x), Exact(x), SendSack(x),
         pkt' = pkt, do_drain' = do_drain, delayed_ack' = delayed_ack, started' = started
  PROVE  Inv' /\ StepOf(m, m', acked, acked')
<1>1. /\ MapInv(m) /\ acked \in Nat /\ acked <= Cum(m)
      /\ pkt \in PktType /\ send_sack \in BOOLEAN /\ delayed_ack \in BOOLEAN
  BY DEF Inv
<1>2. send_sack' \in BOOLEAN
  BY <1>1 DEF SendSack, DupsStay, IsAGap, TsnGt
<1>3. NoSack(x) \/ SackSent(x) \/ SackDeferred(x)
  BY DEF SendSack
<1>4. /\ MapInv(m') /\ Exact(m') /\ acked' \in Nat /\ acked' <= Cum(m')
      /\ StepOf(m, m', acked, acked')
      /\ dack' \in {"off", "on", "stopped"}
  BY <1>1, <1>3, SackStep
<1>5. Inv'
  BY <1>1, <1>2, <1>4, ClosedInv
<1> QED
  BY <1>4, <1>5

LEMMA EndPacketStep ==
  ASSUME Inv, EndPacket
  PROVE  Inv' /\ StepOf(m, m', acked, acked')
<1>1. /\ MapInv(m) /\ Cum(m) \in 0..MaxSent /\ Base(m) \in 1..(MaxSent + 1)
      /\ acked \in Nat /\ acked <= Cum(m) /\ pkt \in PktType
      /\ ~started => Exact(m)
  BY MapNumbers DEF Inv
<1>2. /\ pkt' \in PktType /\ ~pkt'.data
      /\ do_drain' = do_drain /\ started' = started /\ delayed_ack' = delayed_ack
      /\ delayed_ack' \in BOOLEAN
  BY DEF EndPacket, Idle, PktType, Inv
<1>3. send_sack' \in BOOLEAN
  BY DEF EndPacket, Inv, PktType, DupsStay, IsAGap, TsnGt
<1>4. CASE NoSack(m) \/ SackSent(m) \/ SackDeferred(m)
  <2>1. /\ MapInv(m') /\ Exact(m') /\ acked' \in Nat /\ acked' <= Cum(m')
        /\ StepOf(m, m', acked, acked')
        /\ dack' \in {"off", "on", "stopped"}
    BY <1>1, <1>4, DropsNothing, SackStep
  <2> QED
    BY <1>2, <1>3, <2>1, ClosedInv
<1>5. CASE ~IsAGap(m) /\ dack' = "on" /\ m' = m /\ acked' = acked
  <2>1. ~(Nth(Highest(m)) > Cum(m))
    <3>1. m.cum \in Tsns /\ Nth(m.cum) = Cum(m) /\ Highest(m) \in Tsns
          /\ Nth(Highest(m)) \in 0..MaxSent
      BY <1>1, MapNumbers, FirstClearIs DEF Cum
    <3> QED
      BY <1>1, <1>5, <3>1, Compare, Widths DEF IsAGap
  <2>2. Exact(m)
    <3> DEFINE g == Cum(m) + 1 - Base(m)
    <3>1. Base(m) + g = Cum(m) + 1 /\ Nth(Highest(m)) \in Int
      BY <1>1, FirstClearIs
    <3> HIDE DEF g
    <3>2. g \notin Bits(m)
      BY <1>1, <2>1, <3>1, FirstClearIs
    <3> QED
      BY <3>2 DEF Exact, g
  <2>3. StepOf(m, m, acked, acked')
    BY <1>5 DEF StepOf
  <2>4. Inv'
    BY <1>1, <1>2, <1>3, <1>5, <2>2, ClosedInv
  <2> QED
    BY <1>5, <2>3, <2>4
<1> QED
  BY <1>4, <1>5 DEF EndPacket

LEMMA SackTimerStep ==
  ASSUME Inv, SackTimer
  PROVE  Inv' /\ StepOf(m, m', acked, acked')
<1>1. MapInv(m) /\ Exact(m) /\ ~pkt.data
  BY DEF Inv, SackTimer
<1>2. /\ pkt' = pkt /\ do_drain' = do_drain /\ delayed_ack' = delayed_ack
      /\ started' = started /\ SendSack(m)
  BY DEF SackTimer
<1> QED
  BY <1>1, <1>2, DropsNothing, SendSackStep

LEMMA NoTimerStep ==
  ASSUME Inv, PiggyBack \/ WindowUpdate
  PROVE  Inv' /\ StepOf(m, m', acked, acked')
<1>1. /\ MapInv(m) /\ Exact(m) /\ acked \in Nat /\ acked <= Cum(m) /\ Cum(m) \in Nat
      /\ pkt \in PktType /\ ~pkt.data /\ send_sack \in BOOLEAN /\ delayed_ack \in BOOLEAN
  BY MapNumbers DEF Inv, PiggyBack, WindowUpdate
<1>2. /\ pkt' = pkt /\ do_drain' = do_drain /\ delayed_ack' = delayed_ack /\ started' = started
      /\ SendSackNoTimer
  BY DEF PiggyBack, WindowUpdate
<1>3. send_sack' \in BOOLEAN /\ dack' \in {"off", "on", "stopped"}
  BY <1>1, <1>2 DEF SendSackNoTimer, SackSent, DupsStay, IsAGap, TsnGt
<1>4. /\ MapInv(m') /\ Exact(m') /\ acked' \in Nat /\ acked' <= Cum(m')
      /\ StepOf(m, m', acked, acked')
  <2>1. CASE m' = m /\ acked' = acked
    <3>1. StepOf(m, m, acked, acked')
      BY <2>1 DEF StepOf
    <3> QED
      BY <1>1, <2>1, <3>1
  <2>2. CASE m' = Slide(m) /\ (acked' = acked \/ acked' = Nth(Slide(m).cum))
    <3> DEFINE z == Slide(m)
    <3>1. m' = z /\ (acked' = acked \/ acked' = Cum(z))
      BY <2>2 DEF Cum
    <3>2. Slid(m, z)
      BY <1>1, SlideGood
    <3> HIDE DEF z
    <3>3. Drops(m, z)
      BY <1>1, <3>2, DropsNothing, DropsSlid
    <3>4. MapInv(z) /\ Exact(z) /\ Cum(z) + 1 \notin GotOf(z) /\ Cum(z) \in Nat /\ Cum(z) >= Cum(m)
      BY <3>2, <3>3, MapNumbers DEF Slid, Exact, Drops
    <3>5. acked' \in Nat /\ acked' <= Cum(z)
      BY <1>1, <3>1, <3>4
    <3>6. StepOf(m, z, acked, acked')
      BY <3>1, <3>3, <3>4 DEF StepOf
    <3> QED
      BY <3>1, <3>4, <3>5, <3>6
  <2> QED
    BY <1>2, <2>1, <2>2 DEF SendSackNoTimer, SackSent
<1>5. Inv'
  BY <1>1, <1>2, <1>3, <1>4, ClosedInv
<1> QED
  BY <1>4, <1>5

LEMMA SetDelayedAckStep ==
  ASSUME Inv, SetDelayedAck
  PROVE  Inv' /\ StepOf(m, m', acked, acked')
<1>1. /\ m' = m /\ do_drain' = do_drain /\ pkt' = pkt /\ started' = started
      /\ send_sack' = send_sack /\ dack' = dack /\ acked' = acked /\ delayed_ack' = TRUE
  BY DEF SetDelayedAck
<1>2. StepOf(m, m, acked, acked')
  BY <1>1 DEF StepOf
<1>3. Inv'
  BY <1>1 DEF Inv
<1> QED
  BY <1>1, <1>2, <1>3

LEMMA DrainStep ==
  ASSUME Inv, Drain
  PROVE  Inv' /\ StepOf(m, m', acked, acked')
<1>1. MapInv(m) /\ Exact(m) /\ ~pkt.data
  BY DEF Inv, Drain
<1>2. pkt' = pkt /\ do_drain' = do_drain /\ delayed_ack' = delayed_ack /\ started' = started
  BY DEF Drain
<1>3. PICK D \in SUBSET {t \in Waiting(m) : TsnGt(t, Add(m.cum, 1))} : SendSack(DrainMap(m, D))
  BY DEF Drain
<1> DEFINE x == DrainMap(m, D)
<1>4. Drops(m, x) /\ Exact(x)
  BY <1>1, DrainDrops
<1>5. SendSack(x)
  BY <1>3
<1> HIDE DEF x
<1> QED
  BY <1>1, <1>2, <1>4, <1>5, SendSackStep

LEMMA NextStep ==
  ASSUME Inv, Next
  PROVE  Inv' /\ StepOf(m, m', acked, acked')
  BY DuplicateStep, DropStep, AcceptStep, ForwardStep, EndPacketStep, SackTimerStep,
     NoTimerStep, SetDelayedAckStep, DrainStep DEF Next, Data

LEMMA SameStep ==
  ASSUME Inv, UNCHANGED vars
  PROVE  Inv'
<1>1. /\ m' = m /\ do_drain' = do_drain /\ delayed_ack' = delayed_ack /\ pkt' = pkt
      /\ started' = started /\ send_sack' = send_sack /\ dack' = dack /\ acked' = acked
  BY DEF vars
<1> QED
  BY <1>1 DEF Inv

LEMMA MapInvariant == Spec => []Inv
<1>1. Init => Inv
  BY InitInv
<1>2. Inv /\ [Next]_vars => Inv'
  BY NextStep, SameStep
<1> QED
  BY <1>1, <1>2, PTL DEF Spec

-----------------------------------------------------------------------------
(***************************************************************************)
(* The theorems.                                                           *)
(***************************************************************************)

\* In every reachable state the receive side has its type: every TSN that the
\* serial arithmetic of sctp_indata.c and sctp_output.c computes, across the
\* wrap too, is a TSN, and every bit of the mapping arrays has an index.
THEOREM MapTypes == Spec => []TypeOK
<1>1. Inv => TypeOK
  BY DEF Inv, TypeOK, MapInv, MapType, PktType
<1> QED
  BY <1>1, MapInvariant, PTL

\* The assertions of sctp_slide_mapping_arrays hold whenever it may be called.
THEOREM SlidesInside == Spec => []SlideAssertions
<1>1. ASSUME Inv PROVE SlideAssertions
  <2> DEFINE c == SlideCum(m) at == FirstClear(m)
  <2>1. MapInv(m)
    BY <1>1 DEF Inv
  <2>2. /\ ~CumPassesHighest(c) /\ Highest(c) = Highest(m) /\ Nth(c.cum) = Base(m) + at - 1
    BY <2>1, SlideCumGood DEF Fields, Cum
  <2>3. ASSUME c.cum = Highest(c), NEW g \in Bits(m) PROVE g < at
    <3>1. g \in Nat /\ Base(m) + g <= Nth(Highest(m)) /\ at \in Nat /\ Base(m) \in Int
      BY <2>1, FirstClearIs, MapNumbers
    <3>2. Base(m) + g <= Base(m) + at - 1
      BY <2>2, <2>3, <3>1
    <3> HIDE DEF at
    <3> QED
      BY <3>1, <3>2
  <2>4. ASSUME c.cum # Highest(c), at >= ByteBits
        PROVE  SlideBytes(m) <= SlideEnd(c) /\ SlideEnd(c) < m.size
    BY <2>1, <2>4, SlideInside
  <2> HIDE DEF c, at
  <2>5. /\ ~CumPassesHighest(c)
        /\ c.cum = Highest(c) => \A g \in Bits(m) : g < at
        /\ c.cum # Highest(c) /\ at >= ByteBits =>
              SlideBytes(m) <= SlideEnd(c) /\ SlideEnd(c) < m.size
    BY <2>2, <2>3, <2>4
  <2> QED
    BY <2>5 DEF SlideAssertions, c, at
<1> QED
  BY <1>1, MapInvariant, PTL

\* A SACK or NR-SACK that sctp_send_sack builds in any reachable state, whatever
\* number of gap blocks fits into it, reports the TSNs received above its
\* cumulative TSN: nothing else, all of them unless the blocks are full, and what
\* is left out is on top; unless TSNs wrap below a highest TSN as SackComplete says.
THEOREM SacksAreComplete == Spec => []SackComplete
<1>1. ASSUME Inv PROVE SackComplete
  <2> DEFINE x == Slide(m)
             beyond(S) == {n \in {Nth(x.base) + g : g \in S} : n > Nth(x.cum)}
             all == {n \in Got : n > Nth(x.cum)}
             nth(S) == {Nth(t) : t \in S}
             scanned == \A h \in {x.hi, x.nhi} : Wraps(x, h) => Gap(h, x.base) % ByteBits # 0
             first(k) == nth(RevokableGaps(x, k))
  <2>1. Slid(m, x)
    BY <1>1, SlideGood DEF Inv
  <2>2. Got = GotOf(m) /\ Nth(x.cum) = Cum(x) /\ Nth(x.base) = Base(x)
    BY DEF Got, GotOf, Base, Cum
  <2> HIDE DEF x
  <2>3. ASSUME NEW k \in 1..MaxBlocks
        PROVE  /\ ~Wraps(x, Highest(x)) => FitsIn(nth(SackGaps(x, k)), all, k)
               /\ scanned =>
                    /\ beyond(x.r) \cup beyond(x.nr) = all
                    /\ FitsIn(first(k), beyond(x.r), k)
                    /\ FitsIn(nth(NrGaps(x, k)), beyond(x.nr), k - Cardinality(Starts(first(k))))
    <3>1. k \in Nat
      BY WidthAssumption
    <3> DEFINE past(S) == {n \in {Base(x) + g : g \in S} : n > Cum(x)}
               got == {n \in GotOf(m) : n > Cum(x)}
    <3>2. /\ ~Wraps(x, Highest(x)) => FitsIn(nth(SackGaps(x, k)), got, k)
          /\ past(x.r) \cup past(x.nr) = got
          /\ scanned => /\ FitsIn(first(k), past(x.r), k)
                        /\ FitsIn(nth(NrGaps(x, k)), past(x.nr),
                                  k - Cardinality(Starts(first(k))))
      BY <2>1, <3>1, SackGapsAre
    <3>3. got = all /\ past(x.r) = beyond(x.r) /\ past(x.nr) = beyond(x.nr)
      BY <2>2
    <3> HIDE DEF past, got, beyond, all, nth, first, scanned
    <3> QED
      BY <3>2, <3>3
  <2> QED
    BY <2>3 DEF SackComplete, x
<1> QED
  BY <1>1, MapInvariant, PTL

\* Between packets, what was received has been acknowledged, or the delayed-ack
\* timer is there to do it, or the next packet brings a SACK, whatever
\* sctp_send_sack found of memory and whether SACKs are delayed or not, unless
\* its caller stopped the timer.
THEOREM AcksAreNotForgotten == Spec => []AckPending
<1>1. Init => AckPending
  BY DEF Init, AckPending
<1>2. ASSUME Inv, AckPending, [Next]_vars PROVE AckPending'
  <2>1. ASSUME NEW n \in 1..MaxSent, Data(n) \/ ForwardTsn(n) PROVE AckPending'
    <3>1. pkt \in PktType
      BY <1>2 DEF Inv
    <3>2. pkt'.open
      BY <2>1, <3>1 DEF Data, DuplicateData, DropData, ExpressData, QueueData, ForwardTsn,
                        OpenData, PktType
    <3> QED
      BY <3>2 DEF AckPending
  <2>2. ASSUME NEW x, started' = started,
               \/ NoSack(x) \/ SackSent(x)
               \/ SackDeferred(x) /\ (delayed_ack \/ send_sack')
        PROVE  AckPending'
    <3>1. started' => acked' = Nth(m'.cum) \/ dack' = "on" \/ send_sack'
      BY <2>2 DEF NoSack, SackSent, SackDeferred
    <3> QED
      BY <3>1 DEF AckPending
  <2>3. CASE EndPacket
    <3>1. /\ started' = started
          /\ \/ dack' = "on" \/ NoSack(m) \/ SackSent(m)
             \/ SackDeferred(m) /\ (delayed_ack \/ send_sack')
      BY <2>3 DEF EndPacket
    <3> QED
      BY <2>2, <3>1 DEF AckPending
  <2>4. ASSUME NEW x, SendSack(x), started' = started PROVE AckPending'
    <3>1. \/ NoSack(x) \/ SackSent(x)
          \/ SackDeferred(x) /\ (delayed_ack \/ send_sack')
      BY <2>4 DEF SendSack
    <3> QED
      BY <2>2, <2>4, <3>1
  <2>5. CASE SackTimer
    BY <2>4, <2>5 DEF SackTimer
  <2>6. CASE PiggyBack \/ WindowUpdate
    <3>1. SendSackNoTimer /\ started' = started
      BY <2>6 DEF PiggyBack, WindowUpdate
    <3> QED
      BY <3>1 DEF SendSackNoTimer, SackSent, AckPending
  <2>7. CASE SetDelayedAck
    BY <1>2, <2>7 DEF SetDelayedAck, AckPending
  <2>8. CASE Drain
    <3>1. PICK x : started' = started /\ SendSack(x)
      BY <2>8 DEF Drain
    <3> QED
      BY <2>4, <3>1
  <2>9. CASE UNCHANGED vars
    BY <1>2, <2>9 DEF vars, AckPending
  <2> QED
    BY <1>2, <2>1, <2>3, <2>5, <2>6, <2>7, <2>8, <2>9 DEF Next
<1> QED
  BY <1>1, <1>2, MapInvariant, PTL DEF Spec

-----------------------------------------------------------------------------
(***************************************************************************)
(* The arrays implement ReceivedSet.                                       *)
(***************************************************************************)
LEMMA SetsAre == Got = GotOf(m) /\ Kept = KeptOf(m)
  BY DEF Got, GotOf, Kept, KeptOf, Base, Cum

LEMMA SetsAreNext == Got' = GotOf(m') /\ Kept' = KeptOf(m')
  BY DEF Got, GotOf, Kept, KeptOf, Base, Cum, Bits

LEMMA StepImplements ==
  ASSUME MapInv(m), MapInv(m'), acked \in Nat, acked <= Cum(m), acked' \in Nat,
         StepOf(m, m', acked, acked')
  PROVE  RS!Next
<1>1. Got = GotOf(m) /\ Kept = KeptOf(m) /\ Got' = GotOf(m') /\ Kept' = KeptOf(m')
  BY SetsAre, SetsAreNext
<1>2. Kept' \subseteq Got'
  BY <1>1, GotMember
<1>3. Cum(m) \in Nat /\ Cum(m') \in Nat
  BY MapNumbers
<1>4. CASE acked' = acked /\ GotOf(m') = GotOf(m) /\ KeptOf(m) \subseteq KeptOf(m')
  BY <1>1, <1>2, <1>4 DEF RS!Next, RS!Deliver, RS!Keep
<1>5. CASE acked' = acked /\ \E n \in 1..MaxSent : Holds(m, m', {n}) /\ n \notin GotOf(m)
  <2>1. PICK n \in 1..MaxSent : Holds(m, m', {n}) /\ n \notin GotOf(m)
    BY <1>5
  <2>2. n \in Got' \ Got /\ Got' = Got \cup {n} /\ Kept \subseteq Kept'
    BY <1>1, <2>1 DEF Holds
  <2> QED
    BY <1>2, <1>5, <2>2 DEF RS!Next, RS!Accept, RS!Keep
<1>6. CASE acked' = acked /\ \E n \in 1..MaxSent : Holds(m, m', 1..n)
  <2>1. PICK n \in 1..MaxSent : Holds(m, m', 1..n)
    BY <1>6
  <2>2. n \in Got' /\ Got' = Got \cup 1..n /\ Kept \subseteq Kept'
    <3>1. n \in 1..n
      OBVIOUS
    <3> QED
      BY <1>1, <2>1, <3>1 DEF Holds
  <2> QED
    BY <1>2, <1>6, <2>2 DEF RS!Next, RS!Skip, RS!Keep
<1>7. CASE /\ Drops(m, m')
           /\ acked' = acked \/ (acked' = Cum(m') /\ Cum(m') + 1 \notin GotOf(m'))
  <2>1. /\ Got' \subseteq Got /\ Kept \subseteq Kept'
        /\ \A n \in Got \ Got' : n \notin Kept /\ ~(1..(n - 1) \subseteq Got)
    BY <1>1, <1>7 DEF Drops
  <2>2. ASSUME acked' = Cum(m'), Cum(m') + 1 \notin GotOf(m') PROVE RS!Report
    <3>1. 1..Cum(m') \subseteq Got'
      BY <1>1, GotMember DEF KeptOf
    <3>2. acked' >= acked
      BY <1>3, <1>7, <2>2 DEF Drops
    <3> QED
      BY <1>1, <1>3, <2>2, <3>1, <3>2 DEF RS!Report, RS!IsPrefixEnd
  <2> QED
    BY <1>2, <1>7, <2>1, <2>2 DEF RS!Next, RS!Renege, RS!Keep
<1> QED
  BY <1>4, <1>5, <1>6, <1>7 DEF StepOf

\* SctpTsnMap implements ReceivedSet: a chunk is taken once, a SACK's cumulative
\* TSN is exact and never goes back, sliding, growing and wrapping lose nothing,
\* and memory pressure takes only revokable chunks with a hole before them.
THEOREM MapImplementsSet == Spec => ImplementsReceivedSet
<1>1. Init => RS!Init
  BY InitInv, SetsAre DEF Init, RS!Init
<1>2. Inv /\ Inv' /\ [Next]_vars => [RS!Next]_RS!setVars
  <2>1. ASSUME Inv, Inv', Next PROVE RS!Next
    <3>1. /\ MapInv(m) /\ MapInv(m') /\ acked \in Nat /\ acked <= Cum(m) /\ acked' \in Nat
          /\ StepOf(m, m', acked, acked')
      BY <2>1, NextStep DEF Inv
    <3> QED
      BY <3>1, StepImplements
  <2>2. ASSUME UNCHANGED vars PROVE UNCHANGED RS!setVars
    <3>1. m' = m /\ acked' = acked
      BY <2>2 DEF vars
    <3>2. Got' = Got /\ Kept' = Kept
      BY <3>1, SetsAre, SetsAreNext
    <3> QED
      BY <3>1, <3>2 DEF RS!setVars
  <2> QED
    BY <2>1, <2>2
<1> QED
  BY <1>1, <1>2, MapInvariant, PTL DEF Spec, ImplementsReceivedSet, RS!Safety
=============================================================================

--------------------------- MODULE SctpFreeProofs ---------------------------
(***************************************************************************)
(* What SctpFree shows on small instances holds for any number of          *)
(* associations, threads and calls.  The inductive invariant FreeInv says  *)
(* of every thread which locks it holds at its label, which references,    *)
(* and what it may take for granted; every other property follows.         *)
(***************************************************************************)
EXTENDS SctpFree, FiniteSetTheorems, TLAPS

-----------------------------------------------------------------------------
(* The invariant. *)

Wants == {<<>>} \cup [{1} -> Locks] \cup [1..2 -> Locks] \cup [1..3 -> Locks]

ThreadRec ==
    [at : Labels, want : Wants, t : Tcbs \cup {"none"}, force : BOOLEAN, abort : BOOLEAN,
     todo : SUBSET Tcbs, left : BOOLEAN, ret : {"none", "decr"},
     timer : {"none", "kill", "rxt", "inpkill"}, ref : BOOLEAN]

\* Before it is known that a count does not go below zero.
TcbRec == [alloc : BOOLEAN, dead : BOOLEAN, about : BOOLEAN, accept : BOOLEAN,
           ref : Int, kill : Timers, as : Uses, rxt : Timers]
InpRec == [alloc : BOOLEAN, allgone : BOOLEAN, gone : BOOLEAN, close_ip : BOOLEAN,
           ref : Int, kill : Timers]

\* Labels inside sctp_inpcb_free, the forced frees of its loops apart.
InpLabels == {"inpfree", "enter", "loop", "each", "inpdestroy"}
FreeLabels == {"free", "check", "kill", "destroy"}
SendLabels == {"first", "refer", "copy", "queue", "leave", "userabort", "pick", "reset"}
PacketLabels == {"lookup", "found", "locked"}
EarlyTick == {"called", "referred", "checks"}

\* Labels at which a thread has an association that may not be freed.
UseLabels == {"free", "check", "kill", "each", "found", "locked", "refer", "copy", "queue",
              "leave", "userabort", "reset", "expired"}

InInp(r) == r.at \in InpLabels \/ r.force

\* The locks a thread still waits for belong to its label.
WantOK(r) ==
    /\ r.at = "check" =>
          r.want \in {<<>>, <<r.t>>, <<"inp", r.t>>, <<"info", "inp", r.t>>}
    /\ r.force => r.want = <<>>
    /\ r.at \in {"callback", "first", "pick"} => r.want \in {<<>>, <<"inp">>}
    /\ r.at = "enter" => r.want \in {<<>>, <<"inp">>, <<"info", "inp">>}
    /\ r.at \in {"each", "refer", "queue", "userabort", "reset"} => r.want \in {<<>>, <<r.t>>}
    /\ r.at = "lookup" => r.want \in {<<>>, <<"info">>}
    /\ r.at = "found" => r.want \in {<<>>, <<r.t>>, <<"inp", r.t>>}
    /\ r.at = "checks" => r.want = <<>> \/ (r.t \in Tcbs /\ r.want = <<r.t>>)
    /\ r.at \in {"idle", "free", "kill", "destroy", "inpfree", "loop", "inpdestroy", "locked",
                 "copy", "leave", "called", "referred", "expired"} => r.want = <<>>

\* Who may be where, and what a thread's variables say there.
RoleOK(x, r) ==
    /\ r.at \in SendLabels \cup PacketLabels => x \in Workers
    /\ r.at \in EarlyTick \cup {"expired"} => x = "tick"
    /\ x = "close" => r.at \in {"idle"} \cup InpLabels \cup FreeLabels
                   /\ (r.at \in FreeLabels => r.force)
    /\ x = "tick" => (r.timer = "none" <=> r.at = "idle")
    /\ r.at = "idle" => r = Idle
    /\ r.force => r.at \in FreeLabels
    /\ r.at \in UseLabels \cup {"destroy"} => r.t \in Tcbs
    /\ r.ref => x = "tick" /\ r.timer \in {"rxt", "kill"} /\ r.at \notin EarlyTick
    /\ r.at = "expired" => r.ref
    /\ r.ret = "decr" => InInp(r) /\ x # "close"
    /\ InInp(r) => x = "close" \/ r.ret = "decr" \/ r.timer = "inpkill"
    /\ r.timer = "inpkill" => x = "tick" /\ r.ret = "none" /\ (r.at \in EarlyTick \/ InInp(r))
    /\ r.at = "inpdestroy" => r.ret = "none" /\ ~r.ref
    /\ r.at \in EarlyTick => (r.timer = "inpkill" <=> r.t = "none")
    /\ r.todo # {} => r.at \in {"loop", "each"} \/ r.force
    /\ r.at = "each" \/ r.force => r.t \notin r.todo

Shape == \A x \in Threads : WantOK(th[x]) /\ RoleOK(x, th[x])

\* The locks a thread holds: those of its label, but for those it waits for.
HasInfo(r) ==
    \/ r.force
    \/ r.at \in {"loop", "each", "found", "kill", "destroy"}
    \/ r.at = "check" /\ Len(r.want) < 3
    \/ r.at = "enter" /\ Len(r.want) < 2
    \/ r.at = "lookup" /\ Len(r.want) < 1
HasInp(r) ==
    \/ r.force
    \/ r.at \in {"loop", "each", "kill", "refer", "reset"}
    \/ r.at \in {"check", "found"} /\ Len(r.want) < 2
    \/ r.at \in {"enter", "first", "pick", "callback"} /\ Len(r.want) < 1
HasTcb(r) ==
    \/ r.at \in {"free", "kill", "destroy", "locked", "expired"}
    \/ r.at \in {"check", "each", "found", "refer", "queue", "userabort", "reset", "checks"}
          /\ Len(r.want) < 1
Holds(r, l) ==
    \/ l = "info" /\ HasInfo(r)
    \/ l = "inp" /\ HasInp(r)
    \/ l = r.t /\ l \in Tcbs /\ HasTcb(r)

LocksHeld == \A x \in Threads, l \in Locks : owner[l] = x <=> Holds(th[x], l)

\* The references a thread holds on an association and on the endpoint.
Refers(r, t) ==
    /\ r.t = t
    /\ \/ r.at \in {"copy", "queue", "leave", "userabort", "referred", "checks"}
       \/ r.at = "check" /\ ~r.force
Holders(t) == {x \in Threads : Refers(th[x], t)}
TcbRefs == \A t \in Tcbs : tcb[t].ref = Cardinality(Holders(t))

Entering(r) == r.ret = "decr" \/ r.at = "callback" \/ (r.at = "destroy" /\ ~r.force)
Serving(r) == r.at \in {"referred", "checks"} /\ ~r.ref
InpRefs ==
    inp.ref = Cardinality({x \in Threads : th[x].ref})
              + Cardinality({x \in Threads : Entering(th[x])})
              + Bit(Serving(th["tick"]))

\* What is freed is dead, and what is dead has no kill timer.
TcbStates ==
    \A t \in Tcbs : (~tcb[t].alloc => tcb[t].dead) /\ (tcb[t].dead => tcb[t].kill = "off")

\* What a thread works with is alive; the loops of sctp_inpcb_free miss no
\* association; what belongs to the time before and after a close.
Placed(r) ==
    /\ r.at \in UseLabels => ~tcb[r.t].dead
    /\ r.at = "destroy" => tcb[r.t].dead /\ tcb[r.t].alloc
    /\ \A t \in r.todo : ~tcb[t].dead
    /\ (r.at \in {"loop", "each"} \/ r.force) /\ ~r.left =>
          \A t \in Tcbs : tcb[t].dead \/ t \in r.todo \/ (r.t = t /\ r.at # "loop")
    /\ InInp(r) \/ r.timer = "inpkill" => inp.gone
    /\ r.at \in SendLabels => ~inp.gone
    /\ r.at = "inpdestroy" => inp.allgone

AllPlaced == \A x \in Threads : Placed(th[x])

\* A thread that goes on to free an association is alone with it.
Apart(r, s) ==
    r.t = s.t =>
        /\ r.at = "kill" => s.at \notin {"check", "copy", "queue", "leave", "userabort"}
        /\ r.at = "check" => s.at # "check"

Alone == \A x, y \in Threads : x # y => Apart(th[x], th[y])

InpStates ==
    /\ inp.kill # "off" => inp.gone
    /\ inp.allgone => inp.gone /\ \A t \in Tcbs : tcb[t].dead
    /\ ~inp.alloc => inp.allgone
    /\ th["close"].at \in {"inpfree", "enter"} => inp.close_ip

\* The endpoint is freed by close or by its kill timer, not by both.
GoneLabels == {"idle", "lookup", "called", "referred", "checks", "inpdestroy"}
OneDestroyer ==
    /\ th["tick"].timer = "inpkill" => th["close"].at = "idle"
    /\ inp.allgone =>
         /\ \A x \in Threads : th[x].at \in GoneLabels
         /\ th["tick"].timer = "inpkill" => th["tick"].at = "inpdestroy"
    /\ inp.allgone /\ inp.alloc => \E x \in {"tick", "close"} : th[x].at = "inpdestroy"
    /\ ~inp.alloc => inp.kill = "off" /\ \A x \in Threads : th[x].at # "inpdestroy"
    /\ \A x, y \in Threads : th[x].at = "inpdestroy" /\ th[y].at = "inpdestroy" => x = y

\* Why an association that is about to be freed will be, if its callout runs as
\* what it should.
Frees(r, t) == r.t = t /\ r.at \in FreeLabels
Visits(r, t) == r.at \in {"inpfree", "enter"} \/ t \in r.todo \/ (r.at = "each" /\ r.t = t)

Reason(t) ==
  \/ \E x \in Threads : Frees(th[x], t)
  \/ tcb[t].kill # "off"
  \/ tcb[t].accept /\ (~inp.gone \/ \E x \in Threads : Visits(th[x], t))

WillBeFreed == \A t \in Tcbs : tcb[t].about /\ ~tcb[t].dead => Reason(t)

\* A packet is processed, and a protocol timer served, for an association that is not
\* about to be freed; what is about to be freed has its callout as the kill timer.
Lively == \A x \in Threads : th[x].at \in {"locked", "expired"} => ~tcb[th[x].t].about
Fits(a) == a.about /\ ~a.dead /\ a.kill # "off" => a.as = "kill"
SlotInv == Lively /\ (~LateResets => \A t \in Tcbs : Fits(tcb[t]))

FreeInv ==
    /\ TypeOK /\ Shape /\ LocksHeld /\ TcbRefs /\ InpRefs /\ TcbStates /\ AllPlaced
    /\ Alone /\ InpStates
    /\ ~SlowClose => OneDestroyer
    /\ ~AcceptAborted => WillBeFreed

-----------------------------------------------------------------------------
(* Tuples of locks, threads and what is counted. *)

LEMMA TupleTypes ==
  ASSUME NEW a \in Locks, NEW b \in Locks, NEW c \in Locks
  PROVE  <<>> \in Wants /\ <<a>> \in Wants /\ <<a, b>> \in Wants /\ <<a, b, c>> \in Wants
<1>1. <<a>> \in [{1} -> Locks]
  OBVIOUS
<1>2. <<a, b>> \in [1..2 -> Locks]
  OBVIOUS
<1>3. <<a, b, c>> \in [1..3 -> Locks]
  OBVIOUS
<1> QED
  BY <1>1, <1>2, <1>3 DEF Wants

LEMMA Tuples ==
  ASSUME NEW a, NEW b, NEW c
  PROVE  /\ <<a>> # <<>> /\ Head(<<a>>) = a /\ Tail(<<a>>) = <<>>
         /\ <<a, b>> # <<>> /\ Head(<<a, b>>) = a /\ Tail(<<a, b>>) = <<b>>
         /\ <<a, b, c>> # <<>> /\ Head(<<a, b, c>>) = a /\ Tail(<<a, b, c>>) = <<b, c>>
         /\ Len(<<>>) = 0 /\ Len(<<a>>) = 1 /\ Len(<<a, b>>) = 2 /\ Len(<<a, b, c>>) = 3
OBVIOUS

LEMMA ThreadFacts ==
  /\ "tick" \in Threads /\ "close" \in Threads /\ Workers \subseteq Threads
  /\ "tick" \notin Workers /\ "close" \notin Workers
  /\ "none" \notin Threads /\ "none" \notin Tcbs
  /\ "info" \in Locks /\ "inp" \in Locks /\ Tcbs \subseteq Locks
  /\ "info" \notin Tcbs /\ "inp" \notin Tcbs
BY FreeAssumption DEF Threads, Locks

LEMMA ThreadsFinite ==
  ASSUME NEW S \in SUBSET Threads
  PROVE  IsFiniteSet(S) /\ Cardinality(S) \in Nat
<1>1. IsFiniteSet(Workers \cup {"tick"})
  BY FreeAssumption, FS_AddElement
<1>2. IsFiniteSet((Workers \cup {"tick"}) \cup {"close"})
  BY <1>1, FS_AddElement
<1>3. IsFiniteSet(Threads)
  <2>1. Threads = (Workers \cup {"tick"}) \cup {"close"}
    BY DEF Threads
  <2> QED
    BY <1>2, <2>1
<1> QED
  BY <1>3, FS_Subset, FS_CardinalityType

\* One thread comes to a set, or leaves it.
LEMMA CountStep ==
  ASSUME NEW S \in SUBSET Threads, NEW R \in SUBSET Threads, NEW x \in Threads,
         \A y \in Threads : y # x => (y \in S <=> y \in R)
  PROVE  Cardinality(R) = Cardinality(S) + Bit(x \in R) - Bit(x \in S)
<1>1. CASE x \in S /\ x \in R
  <2>1. S = R
    BY <1>1
  <2> QED
    BY <2>1, <1>1, ThreadsFinite DEF Bit
<1>2. CASE x \notin S /\ x \notin R
  <2>1. S = R
    BY <1>2
  <2> QED
    BY <2>1, <1>2, ThreadsFinite DEF Bit
<1>3. CASE x \notin S /\ x \in R
  <2>1. R = S \cup {x}
    BY <1>3
  <2>2. Cardinality(R) = Cardinality(S) + 1
    BY <2>1, <1>3, ThreadsFinite, FS_AddElement
  <2> QED
    BY <2>2, <1>3, ThreadsFinite DEF Bit
<1>4. CASE x \in S /\ x \notin R
  <2>1. S = R \cup {x}
    BY <1>4
  <2>2. Cardinality(S) = Cardinality(R) + 1
    BY <2>1, <1>4, ThreadsFinite, FS_AddElement
  <2> QED
    BY <2>2, <1>4, ThreadsFinite DEF Bit
<1> QED
  BY <1>1, <1>2, <1>3, <1>4

LEMMA CountPositive ==
  ASSUME NEW S \in SUBSET Threads, NEW x \in S
  PROVE  Cardinality(S) > 0
BY ThreadsFinite, FS_EmptySet

LEMMA CountOne ==
  ASSUME NEW S \in SUBSET Threads, NEW x \in S, Cardinality(S) <= 1
  PROVE  S = {x}
<1>1. S \ {x} \in SUBSET Threads
  OBVIOUS
<1>2. Cardinality(S \ {x}) = Cardinality(S) - 1
  BY ThreadsFinite, FS_RemoveElement
<1>3. Cardinality(S \ {x}) = 0
  BY <1>1, <1>2, ThreadsFinite
<1> QED
  BY <1>1, <1>3, ThreadsFinite, FS_EmptySet

-----------------------------------------------------------------------------
(* What a step of one thread does to each part of the invariant. *)

TypeInv == /\ tcb \in [Tcbs -> TcbRec] /\ inp \in InpRec
           /\ th \in [Threads -> ThreadRec]
           /\ owner \in [Locks -> Threads \cup {"none"}]
           /\ calls \in [Workers -> 0..MaxCalls]

LEMMA TypeParts == ASSUME TypeOK PROVE TypeInv
<1>1. tcb \in [Tcbs -> TcbRec] /\ inp \in InpRec
  BY DEF TypeOK, TcbRec, InpRec
<1>2. th \in [Threads -> ThreadRec]
  BY DEF TypeOK, ThreadRec, Wants
<1> QED
  BY <1>1, <1>2 DEF TypeOK, TypeInv

LEMMA TypeWhole ==
  ASSUME TypeInv, TcbRefs, InpRefs
  PROVE  TypeOK
<1>1. \A t \in Tcbs : tcb[t].ref \in Nat
  BY ThreadsFinite DEF TcbRefs, Holders
<1>2. inp.ref \in Nat
  <2>1. /\ Cardinality({x \in Threads : th[x].ref}) \in Nat
        /\ Cardinality({x \in Threads : Entering(th[x])}) \in Nat
    BY ThreadsFinite
  <2> QED
    BY <2>1 DEF InpRefs, Bit
<1>3. tcb \in [Tcbs -> [alloc : BOOLEAN, dead : BOOLEAN, about : BOOLEAN, accept : BOOLEAN,
                        ref : Nat, kill : Timers, as : Uses, rxt : Timers]]
  BY <1>1 DEF TypeInv, TcbRec
<1>4. inp \in [alloc : BOOLEAN, allgone : BOOLEAN, gone : BOOLEAN, close_ip : BOOLEAN,
               ref : Nat, kill : Timers]
  BY <1>2 DEF TypeInv, InpRec
<1> QED
  BY <1>3, <1>4 DEF TypeInv, TypeOK, ThreadRec, Wants

\* The thread x goes on as q, and gives up the locks of L.
Onward(x, q) ==
  /\ q \in ThreadRec /\ th' = [th EXCEPT ![x] = q]
  /\ WantOK(q) /\ RoleOK(x, q)

Moves(x, q, L) ==
  /\ Onward(x, q)
  /\ owner' = [l \in Locks |-> IF l \in L THEN "none" ELSE owner[l]]
  /\ \A l \in Locks : /\ Holds(q, l) <=> Holds(th[x], l) /\ l \notin L
                      /\ l \in L => Holds(th[x], l)

\* The references that x has as q are counted.
Counted(x, q) ==
  /\ tcb' \in [Tcbs -> TcbRec] /\ inp' \in InpRec
  /\ calls' \in [Workers -> 0..MaxCalls]
  /\ \A t \in Tcbs : tcb'[t].ref = tcb[t].ref + Bit(Refers(q, t)) - Bit(Refers(th[x], t))
  /\ inp'.ref = inp.ref + Bit(q.ref) - Bit(th[x].ref)
                + Bit(Entering(q)) - Bit(Entering(th[x]))
                + Bit(Serving(q)) - Bit(Serving(th[x]))

LEMMA Moved ==
  ASSUME TypeInv, NEW x \in Threads, NEW q \in ThreadRec, th' = [th EXCEPT ![x] = q]
  PROVE  /\ th' \in [Threads -> ThreadRec] /\ th'[x] = q
         /\ \A y \in Threads : y # x => th'[y] = th[y]
BY DEF TypeInv

LEMMA ShapeStep ==
  ASSUME TypeInv, Shape, NEW x \in Threads, NEW q, Onward(x, q)
  PROVE  Shape'
BY Moved DEF Onward, Shape

LEMMA LockStep ==
  ASSUME TypeInv, LocksHeld, NEW x \in Threads, NEW q, NEW L, Moves(x, q, L)
  PROVE  LocksHeld' /\ owner' \in [Locks -> Threads \cup {"none"}]
<1>1. owner' \in [Locks -> Threads \cup {"none"}]
  BY DEF Moves, Onward, TypeInv
<1>2. ASSUME NEW y \in Threads, NEW l \in Locks
      PROVE  owner'[l] = y <=> Holds(th'[y], l)
  <2>1. CASE y = x
    <3>1. th'[y] = q
      BY <2>1, Moved DEF Moves, Onward
    <3>2. owner[l] = y <=> Holds(th[y], l)
      BY DEF LocksHeld
    <3> QED
      BY <2>1, <3>1, <3>2, ThreadFacts DEF Moves, Onward
  <2>2. CASE y # x
    <3>1. th'[y] = th[y]
      BY <2>2, Moved DEF Moves, Onward
    <3>2. /\ owner[l] = y <=> Holds(th[y], l)
          /\ owner[l] = x <=> Holds(th[x], l)
      BY DEF LocksHeld
    <3> QED
      BY <2>2, <3>1, <3>2, ThreadFacts DEF Moves, Onward
  <2> QED
    BY <2>1, <2>2
<1> QED
  BY <1>1, <1>2 DEF LocksHeld

LEMMA RefStep ==
  ASSUME TypeInv, Shape, Shape', TcbRefs, InpRefs, NEW x \in Threads, NEW q,
         Onward(x, q), Counted(x, q)
  PROVE  TcbRefs' /\ InpRefs'
<1>1. /\ th'[x] = q
      /\ \A y \in Threads : y # x => th'[y] = th[y]
  BY Moved DEF Onward
<1>2. ASSUME NEW t \in Tcbs
      PROVE  tcb'[t].ref = Cardinality(Holders(t)')
  <2> DEFINE S == Holders(t)
             R == {y \in Threads : Refers(th'[y], t)}
  <2>1. S \in SUBSET Threads /\ R \in SUBSET Threads
    BY DEF Holders
  <2>2. \A y \in Threads : y # x => (y \in S <=> y \in R)
    BY <1>1 DEF Holders
  <2>3. (x \in R <=> Refers(q, t)) /\ (x \in S <=> Refers(th[x], t))
    BY <1>1 DEF Holders
  <2>4. Cardinality(R) = Cardinality(S) + Bit(x \in R) - Bit(x \in S)
    <3> HIDE DEF S, R
    <3> QED
      BY <2>1, <2>2, CountStep
  <2>5. tcb'[t].ref = tcb[t].ref + Bit(x \in R) - Bit(x \in S)
    BY <2>3 DEF Counted, Bit
  <2>6. tcb[t].ref = Cardinality(S)
    BY DEF TcbRefs
  <2>7. R = Holders(t)'
    BY DEF Holders
  <2> QED
    BY <2>4, <2>5, <2>6, <2>7
<1>3. InpRefs'
  <2> DEFINE S1 == {y \in Threads : th[y].ref}
             R1 == {y \in Threads : th'[y].ref}
             S2 == {y \in Threads : Entering(th[y])}
             R2 == {y \in Threads : Entering(th'[y])}
             n1 == Cardinality(S1)
             n2 == Cardinality(S2)
  <2>1. Cardinality(R1) = n1 + Bit(x \in R1) - Bit(x \in S1)
    <3>1. S1 \in SUBSET Threads /\ R1 \in SUBSET Threads
      OBVIOUS
    <3>2. \A y \in Threads : y # x => (y \in S1 <=> y \in R1)
      BY <1>1
    <3> HIDE DEF S1, R1
    <3> QED
      BY <3>1, <3>2, CountStep
  <2>2. Cardinality(R2) = n2 + Bit(x \in R2) - Bit(x \in S2)
    <3>1. S2 \in SUBSET Threads /\ R2 \in SUBSET Threads
      OBVIOUS
    <3>2. \A y \in Threads : y # x => (y \in S2 <=> y \in R2)
      BY <1>1
    <3> HIDE DEF S2, R2
    <3> QED
      BY <3>1, <3>2, CountStep
  <2>3. /\ x \in R1 <=> q.ref
        /\ x \in S1 <=> th[x].ref
        /\ x \in R2 <=> Entering(q)
        /\ x \in S2 <=> Entering(th[x])
    BY <1>1
  <2>4. Bit(Serving(th'["tick"])) = Bit(Serving(th["tick"]))
                                    + Bit(Serving(q)) - Bit(Serving(th[x]))
    <3>1. CASE x = "tick"
      BY <3>1, <1>1 DEF Bit
    <3>2. CASE x # "tick"
      <4>1. ~Serving(q) /\ ~Serving(th[x])
        BY <3>2 DEF Serving, Onward, Shape, RoleOK, EarlyTick
      <4>2. th'["tick"] = th["tick"]
        BY <3>2, <1>1, ThreadFacts
      <4> QED
        BY <4>1, <4>2 DEF Bit
    <3> QED
      BY <3>1, <3>2
  <2>5. n1 \in Nat /\ n2 \in Nat
    BY ThreadsFinite
  <2>6. inp.ref = n1 + n2 + Bit(Serving(th["tick"]))
    BY DEF InpRefs
  <2>7. inp'.ref = inp.ref + Bit(x \in R1) - Bit(x \in S1) + Bit(x \in R2) - Bit(x \in S2)
                   + Bit(Serving(q)) - Bit(Serving(th[x]))
    BY <2>3 DEF Counted, Bit
  <2>8. inp'.ref = Cardinality(R1) + Cardinality(R2) + Bit(Serving(th'["tick"]))
    <3> HIDE DEF S1, R1, S2, R2, n1, n2
    <3> QED
      BY <2>1, <2>2, <2>4, <2>5, <2>6, <2>7 DEF Bit
  <2> QED
    BY <2>8 DEF InpRefs, Entering, Serving
<1> QED
  BY <1>2, <1>3 DEF TcbRefs

LEMMA BaseStep ==
  ASSUME TypeInv, Shape, LocksHeld, TcbRefs, InpRefs, NEW x \in Threads, NEW q,
         Onward(x, q), LocksHeld', owner' \in [Locks -> Threads \cup {"none"}],
         Counted(x, q)
  PROVE  TypeInv' /\ Shape' /\ LocksHeld' /\ TcbRefs' /\ InpRefs'
<1>1. Shape'
  BY ShapeStep
<1>2. th' \in [Threads -> ThreadRec]
  BY Moved DEF Onward
<1> QED
  BY <1>1, <1>2, RefStep DEF Counted, TypeInv

-----------------------------------------------------------------------------
(* Steps that free nothing. *)

\* No association and no endpoint is freed, closed or destroyed, and x may be where
\* it is as q.
Quiet(x, q) ==
  /\ \A t \in Tcbs : /\ tcb'[t].dead = tcb[t].dead /\ tcb'[t].alloc = tcb[t].alloc
                     /\ tcb[t].dead => tcb'[t].kill = "off"
  /\ inp'.gone = inp.gone /\ inp'.allgone = inp.allgone /\ inp'.alloc = inp.alloc
  /\ inp'.kill # "off" => inp.gone
  /\ x # "close" => inp'.close_ip = inp.close_ip
  /\ x = "close" /\ q.at \in {"inpfree", "enter"} => inp'.close_ip
  /\ Placed(q)

LEMMA QuietStep ==
  ASSUME TypeInv, Shape, TcbStates, AllPlaced, InpStates, NEW x \in Threads, NEW q,
         Onward(x, q), Quiet(x, q)
  PROVE  TcbStates' /\ AllPlaced' /\ InpStates'
<1>1. /\ th'[x] = q
      /\ \A y \in Threads : y # x => th'[y] = th[y]
  BY Moved DEF Onward
<1>2. TcbStates'
  BY DEF TcbStates, Quiet
<1>3. ASSUME NEW y \in Threads
      PROVE  Placed(th[y])' 
  <2>1. Placed(th'[y])
    BY <1>1 DEF AllPlaced, Quiet
  <2>2. WantOK(th'[y]) /\ RoleOK(y, th'[y]) /\ th'[y] \in ThreadRec
    BY <1>1, Moved DEF Onward, Shape
  <2>3. /\ th'[y].at \in UseLabels \cup {"destroy"} => th'[y].t \in Tcbs
        /\ th'[y].todo \in SUBSET Tcbs
    BY <2>2 DEF RoleOK, ThreadRec
  <2> QED
    BY <2>1, <2>3 DEF Quiet, Placed, InInp
<1>4. AllPlaced'
  BY <1>3 DEF AllPlaced
<1>5. InpStates'
  BY <1>1, ThreadFacts DEF InpStates, Quiet
<1> QED
  BY <1>2, <1>4, <1>5

Parted(x, q) == \A y \in Threads : y # x => Apart(q, th[y]) /\ Apart(th[y], q)

LEMMA AloneStep ==
  ASSUME TypeInv, Alone, NEW x \in Threads, NEW q, Onward(x, q), Parted(x, q)
  PROVE  Alone'
<1>1. /\ th'[x] = q
      /\ \A y \in Threads : y # x => th'[y] = th[y]
  BY Moved DEF Onward
<1>2. ASSUME NEW y \in Threads, NEW z \in Threads, y # z
      PROVE  Apart(th'[y], th'[z])
  BY <1>1, <1>2 DEF Alone, Parted
<1> QED
  BY <1>2 DEF Alone, Apart

PairLabels == {"check", "kill", "copy", "queue", "leave", "userabort"}

LEMMA PartedOut ==
  ASSUME NEW x \in Threads, NEW q, q.at \notin PairLabels
  PROVE  Parted(x, q)
BY DEF Parted, Apart, PairLabels

LEMMA PartedSame ==
  ASSUME Alone, NEW x \in Threads, NEW q, q.t = th[x].t,
         \/ q.at = th[x].at
         \/ {q.at, th[x].at} \subseteq {"copy", "queue", "leave", "userabort"}
  PROVE  Parted(x, q)
BY DEF Parted, Alone, Apart

\* The endpoint's destroyers stay the same.
Steady(x, q) ==
  /\ th[x].at \in GoneLabels /\ inp.allgone => q.at \in GoneLabels
  /\ q.at = "inpdestroy" <=> th[x].at = "inpdestroy"
  /\ x = "tick" /\ q.timer = "inpkill" =>
        th[x].timer = "inpkill" \/ (th["close"].at = "idle" /\ ~inp.allgone)
  /\ x = "close" /\ th[x].at = "idle" => q.at = "idle"
  /\ ~inp.alloc /\ inp.kill = "off" => inp'.kill = "off"

LEMMA SteadyStep ==
  ASSUME TypeInv, OneDestroyer, NEW x \in Threads, NEW q,
         Onward(x, q), inp'.allgone = inp.allgone, inp'.alloc = inp.alloc, Steady(x, q)
  PROVE  OneDestroyer'
<1>1. /\ th'[x] = q
      /\ \A y \in Threads : y # x => th'[y] = th[y]
  BY Moved DEF Onward
<1>2. /\ inp'.allgone = inp.allgone /\ inp'.alloc = inp.alloc
      /\ ~inp.alloc => inp'.kill = "off"
  BY DEF Steady, OneDestroyer
<1>3. \A y \in Threads : th'[y].at = "inpdestroy" <=> th[y].at = "inpdestroy"
  BY <1>1 DEF Steady
<1>4. inp.allgone => \A y \in Threads : th'[y].at \in GoneLabels
  BY <1>1 DEF Steady, OneDestroyer
<1>5. /\ th'["tick"].timer = "inpkill" => th'["close"].at = "idle"
      /\ inp.allgone /\ th'["tick"].timer = "inpkill" => th["tick"].timer = "inpkill"
  <2>1. CASE x = "tick"
    BY <2>1, <1>1, ThreadFacts DEF Steady, OneDestroyer
  <2>2. CASE x = "close"
    BY <2>2, <1>1, ThreadFacts DEF Steady, OneDestroyer
  <2>3. CASE x \notin {"tick", "close"}
    BY <2>3, <1>1, ThreadFacts DEF OneDestroyer
  <2> QED
    BY <2>1, <2>2, <2>3
<1> QED
  BY <1>2, <1>3, <1>4, <1>5, ThreadFacts DEF OneDestroyer

Undisturbed(x, q, t) ==
  /\ tcb[t].about /\ ~tcb[t].dead
  /\ tcb'[t].kill = "off" => tcb[t].kill = "off"
  /\ tcb'[t].accept = tcb[t].accept /\ (tcb[t].accept => inp'.gone = inp.gone)
  /\ ~Frees(th[x], t)
  /\ tcb[t].accept /\ Visits(th[x], t) => Visits(q, t)

Kept(x, q) ==
  \A t \in Tcbs : tcb'[t].about /\ ~tcb'[t].dead =>
    \/ Frees(q, t) \/ tcb'[t].kill # "off"
    \/ tcb'[t].accept /\ (~inp'.gone \/ Visits(q, t))
    \/ Undisturbed(x, q, t)

LEMMA KillStep ==
  ASSUME TypeInv, WillBeFreed, NEW x \in Threads, NEW q,
         Onward(x, q), Kept(x, q)
  PROVE  WillBeFreed'
<1>1. /\ th'[x] = q
      /\ \A y \in Threads : y # x => th'[y] = th[y]
  BY Moved DEF Onward
<1>2. ASSUME NEW t \in Tcbs, tcb'[t].about, ~tcb'[t].dead
      PROVE  Reason(t)'
  <2>1. CASE Undisturbed(x, q, t)
    <3>1. Reason(t)
      BY <2>1 DEF WillBeFreed, Undisturbed
    <3>2. CASE \E y \in Threads : Frees(th[y], t)
      <4>1. PICK y \in Threads : Frees(th[y], t)
        BY <3>2
      <4>2. th'[y] = th[y]
        BY <1>1, <2>1, <4>1 DEF Undisturbed
      <4> QED
        BY <4>1, <4>2 DEF Reason, Frees
    <3>3. CASE tcb[t].kill # "off"
      BY <3>3, <2>1 DEF Reason, Undisturbed
    <3>4. CASE tcb[t].accept /\ ~inp.gone
      BY <3>4, <2>1 DEF Reason, Undisturbed
    <3>5. CASE tcb[t].accept /\ \E y \in Threads : Visits(th[y], t)
      <4>1. PICK y \in Threads : Visits(th[y], t)
        BY <3>5
      <4>2. Visits(th'[y], t) /\ tcb'[t].accept
        BY <1>1, <2>1, <3>5, <4>1 DEF Undisturbed
      <4> QED
        BY <4>2 DEF Reason, Visits
    <3> QED
      BY <3>1, <3>2, <3>3, <3>4, <3>5 DEF Reason
  <2>2. CASE Frees(q, t) \/ tcb'[t].kill # "off"
    BY <2>2, <1>1 DEF Reason, Frees
  <2>3. CASE tcb'[t].accept /\ (~inp'.gone \/ Visits(q, t))
    BY <2>3, <1>1 DEF Reason, Visits
  <2> QED
    BY <2>1, <2>2, <2>3, <1>2 DEF Kept
<1> QED
  BY <1>2 DEF WillBeFreed

LEMMA StepWhole ==
  ASSUME FreeInv, NEW x \in Threads, NEW q,
         Onward(x, q), LocksHeld', owner' \in [Locks -> Threads \cup {"none"}],
         Counted(x, q), Parted(x, q), TcbStates', AllPlaced', InpStates',
         ~SlowClose => OneDestroyer', ~AcceptAborted => Kept(x, q)
  PROVE  FreeInv'
<1>1. TypeInv
  BY TypeParts DEF FreeInv
<1>2. TypeInv' /\ Shape' /\ LocksHeld' /\ TcbRefs' /\ InpRefs'
  BY <1>1, BaseStep DEF FreeInv
<1>3. TypeOK'
  BY <1>2, TypeWhole, PTL
<1>4. Alone'
  BY <1>1, AloneStep DEF FreeInv
<1>5. ~AcceptAborted => WillBeFreed'
  BY <1>1, KillStep DEF FreeInv
<1> QED
  BY <1>2, <1>3, <1>4, <1>5 DEF FreeInv

LEMMA StepParts ==
  ASSUME FreeInv, NEW x \in Threads, NEW q, NEW L,
         Moves(x, q, L), Counted(x, q), Parted(x, q), TcbStates', AllPlaced', InpStates',
         ~SlowClose => OneDestroyer', ~AcceptAborted => Kept(x, q)
  PROVE  FreeInv'
<1>1. TypeInv
  BY TypeParts DEF FreeInv
<1>2. Onward(x, q) /\ LocksHeld' /\ owner' \in [Locks -> Threads \cup {"none"}]
  BY <1>1, LockStep DEF Moves, FreeInv
<1> QED
  BY <1>2, StepWhole

\* The parts that a quiet step keeps.
LEMMA QuietParts ==
  ASSUME FreeInv, NEW x \in Threads, NEW q, Onward(x, q), Quiet(x, q),
         ~SlowClose => Steady(x, q)
  PROVE  TcbStates' /\ AllPlaced' /\ InpStates' /\ (~SlowClose => OneDestroyer')
<1>1. TypeInv
  BY TypeParts DEF FreeInv
<1>2. TcbStates' /\ AllPlaced' /\ InpStates'
  BY <1>1, QuietStep DEF FreeInv
<1>3. inp'.allgone = inp.allgone /\ inp'.alloc = inp.alloc
  BY DEF Quiet
<1>4. ~SlowClose => OneDestroyer'
  BY <1>1, <1>3, SteadyStep DEF FreeInv
<1> QED
  BY <1>2, <1>4

LEMMA StepInv ==
  ASSUME FreeInv, NEW x \in Threads, NEW q, NEW L,
         Moves(x, q, L), Counted(x, q), Quiet(x, q), Parted(x, q),
         ~SlowClose => Steady(x, q), ~AcceptAborted => Kept(x, q)
  PROVE  FreeInv'
<1>1. Onward(x, q)
  BY DEF Moves
<1> QED
  BY <1>1, QuietParts, StepParts

-----------------------------------------------------------------------------
(* What the actions have in common. *)

USE DEF InpLabels, FreeLabels, SendLabels, PacketLabels, EarlyTick, UseLabels, GoneLabels,
        PairLabels

LEMMA Here ==
  ASSUME FreeInv, NEW x \in Threads
  PROVE  /\ TypeInv /\ th[x] \in ThreadRec /\ WantOK(th[x]) /\ RoleOK(x, th[x])
         /\ Placed(th[x])
BY TypeParts DEF FreeInv, TypeInv, Shape, AllPlaced

LEMMA NoUnlock ==
  ASSUME TypeInv, UNCHANGED owner
  PROVE  owner' = [l \in Locks |-> IF l \in {} THEN "none" ELSE owner[l]]
BY DEF TypeInv

\* The thread x goes on at label l and changes nothing else.
Goes(q, r, l, w) ==
  /\ q \in ThreadRec /\ q.at = l /\ q.want = w
  /\ q.t = r.t /\ q.force = r.force /\ q.abort = r.abort /\ q.todo = r.todo
  /\ q.left = r.left /\ q.ret = r.ret /\ q.timer = r.timer /\ q.ref = r.ref

LEMMA GotoStep ==
  ASSUME TypeInv, NEW x \in Threads, NEW l \in Labels, NEW w \in Wants, Goto(x, l, w)
  PROVE  th' = [th EXCEPT ![x] = th'[x]] /\ Goes(th'[x], th[x], l, w)
<1> DEFINE r == th[x]
           s == [r EXCEPT !.at = l, !.want = w]
<1>1. th \in [Threads -> ThreadRec] /\ r \in ThreadRec
  BY DEF TypeInv
<1>2. s \in ThreadRec
  BY <1>1 DEF ThreadRec
<1>3. /\ s.at = l /\ s.want = w
      /\ s.t = r.t /\ s.force = r.force /\ s.abort = r.abort /\ s.todo = r.todo
      /\ s.left = r.left /\ s.ret = r.ret /\ s.timer = r.timer /\ s.ref = r.ref
  BY <1>1 DEF ThreadRec
<1>4. th' = [th EXCEPT ![x] = s]
  BY <1>1 DEF Goto
<1>5. th' = [th EXCEPT ![x] = th'[x]] /\ th'[x] = s
  BY <1>1, <1>4
<1> HIDE DEF s
<1> QED
  BY <1>2, <1>3, <1>5 DEF Goes

\* A call of the user or a packet is one more.
LEMMA CallStep ==
  ASSUME TypeInv, NEW x \in Workers, Call(x)
  PROVE  calls' \in [Workers -> 0..MaxCalls]
BY FreeAssumption DEF TypeInv, Call

\* Nothing is counted where nothing is referred to.
LEMMA CountedSame ==
  ASSUME TypeInv, NEW x \in Threads, NEW q, UNCHANGED <<tcb, inp>>,
         calls' \in [Workers -> 0..MaxCalls],
         \A t \in Tcbs : Refers(q, t) <=> Refers(th[x], t),
         q.ref <=> th[x].ref, Entering(q) <=> Entering(th[x]), Serving(q) <=> Serving(th[x])
  PROVE  Counted(x, q)
<1>1. \A t \in Tcbs : tcb[t].ref \in Int
  BY DEF TypeInv, TcbRec
<1>2. inp.ref \in Int
  BY DEF TypeInv, InpRec
<1> QED
  BY <1>1, <1>2 DEF Counted, TypeInv, Bit

LEMMA IdleRec ==
  /\ Idle \in ThreadRec /\ Idle.at = "idle" /\ Idle.want = <<>> /\ Idle.t = "none"
  /\ Idle.force = FALSE /\ Idle.abort = FALSE /\ Idle.todo = {} /\ Idle.left = FALSE
  /\ Idle.ret = "none" /\ Idle.timer = "none" /\ Idle.ref = FALSE
<1>1. <<>> \in Wants
  BY DEF Wants
<1> QED
  BY <1>1 DEF Idle, ThreadRec, Labels

LEMMA IdleOK ==
  ASSUME NEW x \in Threads
  PROVE  /\ WantOK(Idle) /\ RoleOK(x, Idle) /\ Placed(Idle) /\ Parted(x, Idle)
         /\ \A l \in Locks : ~Holds(Idle, l)
         /\ \A t \in Tcbs : ~Refers(Idle, t) /\ ~Frees(Idle, t) /\ ~Visits(Idle, t)
         /\ ~Entering(Idle) /\ ~Serving(Idle)
<1>1. WantOK(Idle)
  BY IdleRec DEF WantOK
<1>2. RoleOK(x, Idle)
  BY IdleRec DEF RoleOK, InInp, SendLabels, PacketLabels, EarlyTick, UseLabels, InpLabels,
     FreeLabels
<1>3. Placed(Idle)
  BY IdleRec DEF Placed, InInp, InpLabels, UseLabels, SendLabels
<1>4. Parted(x, Idle)
  BY IdleRec, PartedOut DEF PairLabels
<1>5. \A l \in Locks : ~Holds(Idle, l)
  BY IdleRec DEF Holds, HasInfo, HasInp, HasTcb
<1> QED
  BY <1>1, <1>2, <1>3, <1>4, <1>5, IdleRec
  DEF Refers, Frees, Visits, Entering, Serving, FreeLabels

LEMMA ReturnStep ==
  ASSUME TypeInv, NEW x \in Threads, Return(x)
  PROVE  th' = [th EXCEPT ![x] = Idle] /\ th'[x] = Idle
BY DEF Return, TypeInv

LEMMA TcbStep ==
  ASSUME TypeInv, NEW t \in Tcbs, NEW s \in TcbRec, tcb' = [tcb EXCEPT ![t] = s]
  PROVE  /\ tcb' \in [Tcbs -> TcbRec] /\ tcb'[t] = s
         /\ \A u \in Tcbs : u # t => tcb'[u] = tcb[u]
BY DEF TypeInv

LEMMA InpStep ==
  ASSUME TypeInv, NEW n \in Int, inp' = [inp EXCEPT !.ref = n]
  PROVE  /\ inp' \in InpRec /\ inp'.ref = n
         /\ inp'.alloc = inp.alloc /\ inp'.allgone = inp.allgone /\ inp'.gone = inp.gone
         /\ inp'.close_ip = inp.close_ip /\ inp'.kill = inp.kill
BY DEF TypeInv, InpRec

\* What is typed in the endpoint and in an association.
LEMMA Typed ==
  ASSUME TypeInv
  PROVE  /\ inp.ref \in Int /\ inp.kill \in Timers /\ inp.gone \in BOOLEAN
         /\ inp.allgone \in BOOLEAN /\ inp.alloc \in BOOLEAN /\ inp.close_ip \in BOOLEAN
         /\ \A t \in Tcbs : /\ tcb[t] \in TcbRec /\ tcb[t].ref \in Int
                            /\ tcb[t].dead \in BOOLEAN /\ tcb[t].about \in BOOLEAN
                            /\ tcb[t].accept \in BOOLEAN /\ tcb[t].alloc \in BOOLEAN
                            /\ tcb[t].kill \in Timers /\ tcb[t].rxt \in Timers
BY DEF TypeInv, InpRec, TcbRec

\* The shared callout is started or stopped; nothing else changes.
SlotOnly(a, s) ==
  /\ s \in TcbRec
  /\ s.alloc = a.alloc /\ s.dead = a.dead /\ s.about = a.about /\ s.accept = a.accept
  /\ s.ref = a.ref /\ s.rxt = a.rxt

LEMMA Slots ==
  ASSUME NEW a \in TcbRec
  PROVE  /\ SlotOnly(a, StartKill(a)) /\ StartKill(a).kill = "queued"
         /\ SlotOnly(a, StartReset(a)) /\ StartReset(a).kill = "queued"
         /\ SlotOnly(a, StopReset(a)) /\ StopReset(a).kill \in {"off", a.kill}
BY DEF TcbRec, StartKill, StartReset, StopReset, SlotOnly, Timers, Uses

-----------------------------------------------------------------------------
(* sctp_free_assoc *)

\* The loop of sctp_inpcb_free goes on after a forced free.
LEMMA AfterForced ==
  ASSUME TypeInv, NEW x \in Threads, WantOK(th[x]), RoleOK(x, th[x]), th[x].force,
         NEW left \in BOOLEAN, AfterFree(x, left)
  PROVE  LET q == th'[x]  r == th[x] IN
         /\ th' = [th EXCEPT ![x] = q] /\ q \in ThreadRec /\ inp' = inp
         /\ q.at = "loop" /\ q.want = <<>> /\ q.t = r.t /\ q.force = FALSE
         /\ q.abort = r.abort /\ q.todo = r.todo /\ q.left = (r.left \/ left)
         /\ q.ret = r.ret /\ q.timer = r.timer /\ q.ref = r.ref
         /\ WantOK(q) /\ RoleOK(x, q)
         /\ \A l \in Locks : Holds(q, l) <=> l \in {"info", "inp"}
<1> DEFINE q == th'[x]  r == th[x]
<1>1. th \in [Threads -> ThreadRec] /\ "loop" \in Labels /\ r.left \in BOOLEAN
  BY DEF TypeInv, Labels, ThreadRec
<1>2. r.want = <<>>
  BY DEF WantOK
<1>3. /\ th' = [th EXCEPT ![x] = q] /\ q \in ThreadRec /\ inp' = inp
      /\ q.at = "loop" /\ q.want = <<>> /\ q.t = r.t /\ q.force = FALSE
      /\ q.abort = r.abort /\ q.todo = r.todo /\ q.left = (r.left \/ left)
      /\ q.ret = r.ret /\ q.timer = r.timer /\ q.ref = r.ref
  BY <1>1, <1>2 DEF AfterFree, ThreadRec
<1> HIDE DEF q
<1>4. WantOK(q)
  BY <1>3 DEF WantOK
<1>5. RoleOK(x, q)
  BY <1>3 DEF RoleOK, InInp
<1>6. \A l \in Locks : Holds(q, l) <=> l \in {"info", "inp"}
  BY <1>3 DEF Holds, HasInfo, HasInp, HasTcb
<1> QED
  BY <1>3, <1>4, <1>5, <1>6 DEF q

LEMMA AfterOwn ==
  ASSUME TypeInv, NEW x \in Threads, ~th[x].force, NEW left, AfterFree(x, left)
  PROVE  /\ th' = [th EXCEPT ![x] = Idle] /\ th'[x] = Idle
         /\ inp' \in InpRec /\ inp'.ref = inp.ref - Bit(th[x].ref)
         /\ inp'.alloc = inp.alloc /\ inp'.allgone = inp.allgone /\ inp'.gone = inp.gone
         /\ inp'.close_ip = inp.close_ip /\ inp'.kill = inp.kill
<1>1. Return(x) /\ inp' = [inp EXCEPT !.ref = inp.ref - Bit(th[x].ref)]
  BY DEF AfterFree, Bit
<1>2. inp.ref - Bit(th[x].ref) \in Int
  BY Typed DEF Bit
<1> QED
  BY <1>1, <1>2, ReturnStep, InpStep

\* sctp_free_assoc gives up for now: an association that somebody refers to, or that
\* waits to be accepted.
LEMMA Deferred ==
  ASSUME FreeInv, NEW x \in Threads, NEW t, t = th[x].t, th[x].at \in {"free", "check"},
         th[x].want = <<>>, NEW s \in TcbRec, tcb' = [tcb EXCEPT ![t] = s],
         s.dead = tcb[t].dead, s.alloc = tcb[t].alloc,
         s.ref = tcb[t].ref - Bit(Refers(th[x], t)),
         s.kill # "off" \/ (s.accept /\ ~inp.gone),
         Unlock(IF th[x].force \/ th[x].at = "free" THEN {t} ELSE {t, "info", "inp"}),
         AfterFree(x, TRUE), UNCHANGED calls
  PROVE  FreeInv'
<1> DEFINE q == th'[x]
           r == th[x]
           L == IF r.force \/ r.at = "free" THEN {t} ELSE {t, "info", "inp"}
<1>1. TypeInv /\ r \in ThreadRec /\ WantOK(r) /\ RoleOK(x, r) /\ Placed(r)
  BY Here
<1>2. t \in Tcbs /\ ~tcb[t].dead
  BY <1>1 DEF RoleOK, Placed
<1>3. /\ tcb' \in [Tcbs -> TcbRec] /\ tcb'[t] = s
      /\ \A u \in Tcbs : u # t => tcb'[u] = tcb[u]
  BY <1>1, <1>2, TcbStep
<1>4. \A l \in Locks : Holds(r, l) <=>
          l = t \/ (l \in {"info", "inp"} /\ (r.force \/ r.at = "check"))
  BY <1>2, Tuples, ThreadFacts DEF Holds, HasInfo, HasInp, HasTcb
<1>5. \A u \in Tcbs : Refers(r, u) => u = t
  BY DEF Refers
<1>6. r.force \in BOOLEAN /\ r.ref \in BOOLEAN
  BY <1>1 DEF ThreadRec
<1>7. CASE r.force
  <2>1. /\ th' = [th EXCEPT ![x] = q] /\ q \in ThreadRec /\ inp' = inp
        /\ q.at = "loop" /\ q.want = <<>> /\ q.t = r.t /\ q.force = FALSE
        /\ q.abort = r.abort /\ q.todo = r.todo /\ q.left = TRUE
        /\ q.ret = r.ret /\ q.timer = r.timer /\ q.ref = r.ref
        /\ WantOK(q) /\ RoleOK(x, q)
        /\ \A l \in Locks : Holds(q, l) <=> l \in {"info", "inp"}
    BY <1>1, <1>7, AfterForced
  <2> HIDE DEF q
  <2>2. Moves(x, q, L)
    BY <1>4, <1>7, <2>1, <1>2, ThreadFacts DEF Moves, Onward, Unlock
  <2>3. Counted(x, q)
    <3>1. \A u \in Tcbs : ~Refers(q, u) /\ ~Refers(r, u)
      BY <1>7, <2>1, <1>1 DEF Refers, RoleOK
    <3>2. (Entering(q) <=> Entering(r)) /\ ~Serving(q) /\ ~Serving(r) /\ q.ref = r.ref
      BY <1>7, <2>1, <1>1 DEF Entering, Serving, RoleOK
    <3> QED
      BY <3>1, <3>2, <2>1, <1>1, <1>2, <1>3, Typed DEF Counted, Bit, TypeInv
  <2>4. Quiet(x, q)
    <3>1. Placed(q)
      BY <1>1, <1>7, <2>1 DEF Placed, InInp
    <3> QED
      BY <3>1, <2>1, <1>2, <1>3 DEF Quiet, FreeInv, TcbStates, InpStates
  <2>5. Parted(x, q)
    BY <2>1, PartedOut
  <2>6. Steady(x, q)
    BY <2>1, <1>1, <1>7 DEF Steady, RoleOK
  <2>7. Kept(x, q)
    BY <2>1, <1>1, <1>2, <1>3 DEF Kept, Undisturbed, Frees, Visits
  <2> QED
    BY <2>2, <2>3, <2>4, <2>5, <2>6, <2>7, StepInv
<1>8. CASE ~r.force
  <2>1. /\ th' = [th EXCEPT ![x] = Idle] /\ th'[x] = Idle
        /\ inp' \in InpRec /\ inp'.ref = inp.ref - Bit(th[x].ref)
        /\ inp'.alloc = inp.alloc /\ inp'.allgone = inp.allgone /\ inp'.gone = inp.gone
        /\ inp'.close_ip = inp.close_ip /\ inp'.kill = inp.kill
    BY <1>1, <1>8, AfterOwn
  <2>2. Moves(x, Idle, L)
    BY <1>2, <1>4, <1>8, <2>1, IdleOK, IdleRec, ThreadFacts DEF Moves, Onward, Unlock
  <2>3. Counted(x, Idle)
    <3>1. ~Entering(r) /\ ~Serving(r)
      BY <1>1, <1>8 DEF Entering, Serving, RoleOK, InInp
    <3> QED
      BY <3>1, <2>1, <1>1, <1>2, <1>3, <1>5, IdleOK, IdleRec, Typed
      DEF Counted, Bit, TypeInv
  <2>4. Quiet(x, Idle)
    BY <2>1, <1>2, <1>3, IdleOK, IdleRec DEF Quiet, FreeInv, TcbStates, InpStates
  <2>5. Steady(x, Idle)
    BY <2>1, IdleRec DEF Steady
  <2>6. Kept(x, Idle)
    BY <2>1, <1>1, <1>2, <1>3, <1>8 DEF Kept, Undisturbed, Frees, Visits, RoleOK
  <2> QED
    BY <2>2, <2>3, <2>4, <2>5, <2>6, IdleOK, StepInv
<1> QED
  BY <1>6, <1>7, <1>8

LEMMA OneHolder ==
  ASSUME FreeInv, NEW x \in Threads, NEW y \in Threads, NEW l \in Locks,
         Holds(th[x], l), Holds(th[y], l)
  PROVE  x = y
BY DEF FreeInv, LocksHeld

LEMMA NoReference ==
  ASSUME FreeInv, NEW t \in Tcbs, tcb[t].ref = 0, NEW y \in Threads
  PROVE  ~Refers(th[y], t)
<1>1. Holders(t) \in SUBSET Threads
  BY DEF Holders
<1>2. Cardinality(Holders(t)) = 0
  BY DEF FreeInv, TcbRefs
<1>3. Holders(t) = {}
  BY <1>1, <1>2, ThreadsFinite, FS_EmptySet
<1> QED
  BY <1>3 DEF Holders

LEMMA OneReference ==
  ASSUME FreeInv, NEW t \in Tcbs, tcb[t].ref <= 1, NEW x \in Threads, Refers(th[x], t),
         NEW y \in Threads, Refers(th[y], t)
  PROVE  x = y
<1>1. Holders(t) \in SUBSET Threads /\ x \in Holders(t) /\ y \in Holders(t)
  BY DEF Holders
<1>2. Cardinality(Holders(t)) <= 1
  BY DEF FreeInv, TcbRefs
<1> QED
  BY <1>1, <1>2, CountOne

LEMMA FreeAssocInv ==
  ASSUME FreeInv, NEW x \in Threads, FreeAssoc(x)
  PROVE  FreeInv'
<1> DEFINE q == th'[x]
           r == th[x]
           t == th[x].t
           a == tcb[t]
           idle == [a EXCEPT !.rxt = "off", !.kill = "off"]
<1>1. /\ TypeInv /\ r \in ThreadRec /\ WantOK(r) /\ RoleOK(x, r) /\ Placed(r)
      /\ r.at = "free" /\ r.want = <<>>
  BY Here DEF FreeAssoc, At
<1>2. t \in Tcbs /\ a \in TcbRec /\ ~a.dead /\ a.ref \in Int
  BY <1>1, Typed DEF RoleOK, Placed
<1>3. "off" \in Timers /\ "queued" \in Timers
  BY DEF Timers
<1>4. ~Refers(r, t)
  BY <1>1 DEF Refers
<1>5. \A l \in Locks : Holds(r, l) <=> l = t \/ (l \in {"info", "inp"} /\ r.force)
  BY <1>1, <1>2, Tuples, ThreadFacts DEF Holds, HasInfo, HasInp, HasTcb
<1>6. ASSUME tcb' = [tcb EXCEPT ![t] = StartKill(@)], Unlock({t}), AfterFree(x, TRUE),
             UNCHANGED calls
      PROVE  FreeInv'
  <2> DEFINE s == StartKill(a)
  <2>1. tcb' = [tcb EXCEPT ![t] = s]
    BY <1>6
  <2>2. /\ s \in TcbRec /\ s.kill = "queued" /\ s.dead = a.dead /\ s.alloc = a.alloc
        /\ s.ref = a.ref
    BY <1>2, Slots DEF SlotOnly
  <2> HIDE DEF s
  <2>3. s.ref = tcb[t].ref - Bit(Refers(r, t))
    BY <1>2, <1>4, <2>2 DEF Bit
  <2> QED
    BY <1>1, <1>6, <2>1, <2>2, <2>3, Deferred
<1>7. ASSUME a.ref > 0 \/ a.accept,
             tcb' = [tcb EXCEPT ![t] =
                IF a.ref > 0 \/ inp.gone
                THEN [StartKill(StopTimers(a)) EXCEPT !.about = TRUE, !.accept = FALSE]
                ELSE [StopTimers(a) EXCEPT !.about = TRUE]],
             Unlock({t}), AfterFree(x, TRUE), UNCHANGED calls
      PROVE  FreeInv'
  <2> DEFINE s == IF a.ref > 0 \/ inp.gone
                  THEN [StartKill(idle) EXCEPT !.about = TRUE, !.accept = FALSE]
                  ELSE [idle EXCEPT !.about = TRUE]
  <2>1. tcb' = [tcb EXCEPT ![t] = s]
    BY <1>7 DEF StopTimers
  <2>2. /\ s \in TcbRec /\ s.dead = a.dead /\ s.alloc = a.alloc /\ s.ref = a.ref
        /\ s.kill # "off" \/ (s.accept /\ ~inp.gone)
    <3>1. CASE a.ref > 0 \/ inp.gone
      <4>1. idle \in TcbRec /\ idle.dead = a.dead /\ idle.alloc = a.alloc /\ idle.ref = a.ref
        BY <1>2, <1>3 DEF TcbRec
      <4> DEFINE p == StartKill(idle)
      <4>2. /\ p \in TcbRec /\ p.kill = "queued" /\ p.dead = a.dead /\ p.alloc = a.alloc
            /\ p.ref = a.ref
        BY <4>1, Slots DEF SlotOnly
      <4> HIDE DEF p, idle
      <4>3. s = [p EXCEPT !.about = TRUE, !.accept = FALSE]
        BY <3>1 DEF p
      <4> QED
        BY <4>2, <4>3 DEF TcbRec
    <3>2. CASE ~(a.ref > 0 \/ inp.gone)
      BY <1>2, <1>3, <1>7, <3>2 DEF TcbRec
    <3> QED
      BY <3>1, <3>2
  <2> HIDE DEF s
  <2>3. s.ref = tcb[t].ref - Bit(Refers(r, t))
    BY <1>2, <1>4, <2>2 DEF Bit
  <2>4. Unlock({t}) /\ AfterFree(x, TRUE) /\ UNCHANGED calls
    BY <1>7
  <2> QED
    BY <1>1, <2>1, <2>2, <2>3, <2>4, Deferred
<1>8. ASSUME a.ref = 0, ~a.accept,
             tcb' = [tcb EXCEPT ![t] =
                [StopTimers(a) EXCEPT !.about = TRUE, !.ref = IF r.force THEN 0 ELSE 1]],
             IF r.force
             THEN UNCHANGED owner /\ Goto(x, "check", <<>>)
             ELSE Unlock({t}) /\ Goto(x, "check", <<"info", "inp", t>>),
             UNCHANGED <<inp, calls>>
      PROVE  FreeInv'
  <2> DEFINE m == IF r.force THEN 0 ELSE 1
             s == [idle EXCEPT !.about = TRUE, !.ref = m]
             w == IF r.force THEN <<>> ELSE <<"info", "inp", t>>
             L == IF r.force THEN {} ELSE {t}
  <2>1. tcb' = [tcb EXCEPT ![t] = s]
    BY <1>8 DEF StopTimers
  <2>2. /\ s \in TcbRec /\ s.dead = a.dead /\ s.alloc = a.alloc /\ s.kill = "off"
        /\ s.ref = m
    <3>1. m \in Int
      OBVIOUS
    <3> HIDE DEF m
    <3> QED
      BY <1>2, <1>3, <3>1 DEF TcbRec
  <2> HIDE DEF s
  <2>3. /\ tcb' \in [Tcbs -> TcbRec] /\ tcb'[t] = s
        /\ \A u \in Tcbs : u # t => tcb'[u] = tcb[u]
    BY <1>1, <1>2, <2>1, <2>2, TcbStep
  <2>4. th' = [th EXCEPT ![x] = q] /\ Goes(q, r, "check", w)
    <3>1. w \in Wants /\ "check" \in Labels
      BY <1>2, TupleTypes, ThreadFacts DEF Labels
    <3>2. Goto(x, "check", w)
      BY <1>8
    <3> HIDE DEF w
    <3> QED
      BY <1>1, <3>1, <3>2, GotoStep
  <2> HIDE DEF q
  <2>5. owner' = [l \in Locks |-> IF l \in L THEN "none" ELSE owner[l]]
    BY <1>1, <1>8, NoUnlock DEF Unlock
  <2>6. Moves(x, q, L)
    <3>1. WantOK(q)
      BY <2>4, <1>1 DEF Goes, WantOK
    <3>2. RoleOK(x, q)
      BY <2>4, <1>1 DEF Goes, RoleOK, InInp
    <3>3. \A l \in Locks : Holds(q, l) <=> r.force /\ l \in {t, "info", "inp"}
      BY <2>4, <1>2, Tuples, ThreadFacts DEF Goes, Holds, HasInfo, HasInp, HasTcb
    <3> QED
      BY <2>4, <2>5, <3>1, <3>2, <3>3, <1>2, <1>5, ThreadFacts DEF Moves, Onward, Goes
  <2>7. Counted(x, q)
    <3>1. /\ \A u \in Tcbs : u # t => ~Refers(q, u) /\ ~Refers(r, u)
          /\ Refers(q, t) <=> ~r.force
          /\ Entering(q) <=> Entering(r)
          /\ ~Serving(q) /\ ~Serving(r) /\ q.ref = r.ref
      BY <1>1, <2>4 DEF Goes, Refers, Entering, Serving
    <3> QED
      BY <1>1, <1>2, <1>4, <1>8, <2>2, <2>3, <3>1, Typed DEF Counted, Bit, TypeInv
  <2>8. Quiet(x, q)
    <3>1. Placed(q)
      BY <1>1, <2>4 DEF Placed, InInp, Goes
    <3> QED
      BY <1>1, <1>2, <1>8, <2>2, <2>3, <2>4, <3>1
      DEF Quiet, FreeInv, TcbStates, InpStates, Goes
  <2>9. Parted(x, q)
    <3>1. ASSUME NEW y \in Threads, y # x, th[y].t = t
          PROVE  th[y].at \notin {"check", "kill"}
      <4>1. ~Holds(th[y], t)
        BY <1>2, <1>5, <3>1, OneHolder, ThreadFacts
      <4>2. ~Refers(th[y], t)
        BY <1>2, <1>8, NoReference
      <4>3. WantOK(th[y])
        BY <3>1, Here
      <4> QED
        BY <1>2, <3>1, <4>1, <4>2, <4>3, Tuples DEF Holds, HasTcb, Refers, WantOK
    <3> QED
      BY <2>4, <3>1 DEF Goes, Parted, Apart
  <2>10. Steady(x, q)
    BY <1>1, <1>8, <2>4 DEF Goes, Steady
  <2>11. Kept(x, q)
    BY <1>1, <1>2, <1>8, <2>3, <2>4 DEF Goes, Kept, Undisturbed, Frees, Visits
  <2> QED
    BY <2>6, <2>7, <2>8, <2>9, <2>10, <2>11, StepInv
<1> QED
  BY <1>6, <1>7, <1>8 DEF FreeAssoc

LEMMA FreeCheckInv ==
  ASSUME FreeInv, NEW x \in Threads, FreeCheck(x)
  PROVE  FreeInv'
<1> DEFINE q == th'[x]
           r == th[x]
           t == th[x].t
           a == tcb[t]
           n == tcb[t].ref - (IF th[x].force THEN 0 ELSE 1)
<1>1. /\ TypeInv /\ r \in ThreadRec /\ WantOK(r) /\ RoleOK(x, r) /\ Placed(r)
      /\ r.at = "check" /\ r.want = <<>>
  BY Here DEF FreeCheck, At
<1>2. t \in Tcbs /\ a \in TcbRec /\ ~a.dead /\ a.ref \in Int /\ n \in Int
  BY <1>1, Typed DEF RoleOK, Placed
<1>3. "off" \in Timers /\ "queued" \in Timers
  BY DEF Timers
<1>4. Refers(r, t) <=> ~r.force
  BY <1>1 DEF Refers
<1>5. \A l \in Locks : Holds(r, l) <=> l \in {t, "info", "inp"}
  BY <1>1, <1>2, Tuples, ThreadFacts DEF Holds, HasInfo, HasInp, HasTcb
<1>6. n = a.ref - Bit(Refers(r, t))
  BY <1>2, <1>4 DEF Bit
<1>7. CASE n > 0
  <2> DEFINE p == StartKill(a)
             s == [p EXCEPT !.ref = n, !.accept = FALSE]
  <2>1. /\ tcb' = [tcb EXCEPT ![t] = s]
        /\ Unlock(IF r.force THEN {t} ELSE {t, "info", "inp"})
        /\ AfterFree(x, TRUE) /\ UNCHANGED calls
    BY <1>7 DEF FreeCheck
  <2>2. /\ s \in TcbRec /\ s.kill = "queued" /\ s.dead = a.dead /\ s.alloc = a.alloc
        /\ s.ref = n
    <3>1. p \in TcbRec /\ p.kill = "queued" /\ p.dead = a.dead /\ p.alloc = a.alloc
      BY <1>2, Slots DEF SlotOnly
    <3> HIDE DEF p, n
    <3> QED
      BY <1>2, <3>1 DEF TcbRec
  <2> HIDE DEF s, n
  <2> QED
    BY <1>1, <1>6, <2>1, <2>2, Deferred
<1>8. CASE ~(n > 0)
  <2> DEFINE s == [a EXCEPT !.ref = n]
  <2>1. /\ tcb' = [tcb EXCEPT ![t] = s]
        /\ Goto(x, "kill", <<>>) /\ UNCHANGED <<inp, owner, calls>>
    BY <1>8 DEF FreeCheck
  <2>2. /\ s \in TcbRec /\ s.kill = a.kill /\ s.dead = a.dead /\ s.alloc = a.alloc
        /\ s.accept = a.accept /\ s.ref = n
    BY <1>2, <1>3 DEF TcbRec
  <2> HIDE DEF s
  <2>3. /\ tcb' \in [Tcbs -> TcbRec] /\ tcb'[t] = s
        /\ \A u \in Tcbs : u # t => tcb'[u] = tcb[u]
    BY <1>1, <1>2, <2>1, <2>2, TcbStep
  <2>4. th' = [th EXCEPT ![x] = q] /\ Goes(q, r, "kill", <<>>)
    <3>1. <<>> \in Wants /\ "kill" \in Labels
      BY DEF Labels, Wants
    <3> QED
      BY <1>1, <2>1, <3>1, GotoStep
  <2> HIDE DEF q
  <2>5. owner' = [l \in Locks |-> IF l \in {} THEN "none" ELSE owner[l]]
    BY <1>1, <2>1, NoUnlock
  <2>6. Moves(x, q, {})
    <3>1. WantOK(q)
      BY <2>4 DEF Goes, WantOK
    <3>2. RoleOK(x, q)
      BY <2>4, <1>1 DEF Goes, RoleOK, InInp
    <3>3. \A l \in Locks : Holds(q, l) <=> l \in {t, "info", "inp"}
      BY <2>4, <1>2, Tuples, ThreadFacts DEF Goes, Holds, HasInfo, HasInp, HasTcb
    <3> QED
      BY <2>4, <2>5, <3>1, <3>2, <3>3, <1>5 DEF Moves, Onward, Goes
  <2>7. Counted(x, q)
    <3>1. /\ \A u \in Tcbs : u # t => ~Refers(q, u) /\ ~Refers(r, u)
          /\ ~Refers(q, t)
          /\ Entering(q) <=> Entering(r)
          /\ ~Serving(q) /\ ~Serving(r) /\ q.ref = r.ref
      BY <1>1, <2>4 DEF Goes, Refers, Entering, Serving
    <3> HIDE DEF n
    <3> QED
      BY <1>1, <1>2, <1>6, <2>1, <2>2, <2>3, <3>1, Typed DEF Counted, Bit, TypeInv
  <2>8. Quiet(x, q)
    <3>1. Placed(q)
      BY <1>1, <2>4 DEF Placed, InInp, Goes
    <3> QED
      BY <1>1, <1>2, <2>1, <2>2, <2>3, <2>4, <3>1
      DEF Quiet, FreeInv, TcbStates, InpStates, Goes
  <2>9. Parted(x, q)
    <3>1. ASSUME NEW y \in Threads, y # x, th[y].t = t
          PROVE  th[y].at \notin {"check", "kill", "copy", "queue", "leave", "userabort"}
      <4>1. ~Holds(th[y], t)
        BY <1>2, <1>5, <3>1, OneHolder, ThreadFacts
      <4>2. ~Refers(th[y], t)
        <5>1. CASE r.force
          <6>1. a.ref <= 0 /\ a.ref \in Nat
            BY <1>2, <1>8, <5>1 DEF FreeInv, TypeOK
          <6> QED
            BY <1>2, <6>1, NoReference
        <5>2. CASE ~r.force
          <6>1. a.ref <= 1
            BY <1>2, <1>8, <5>2
          <6> QED
            BY <1>2, <1>4, <3>1, <5>2, <6>1, OneReference
        <5> QED
          BY <5>1, <5>2
      <4>3. th[y].at # "check"
        BY <1>1, <3>1 DEF FreeInv, Alone, Apart
      <4> QED
        BY <1>2, <3>1, <4>1, <4>2, <4>3 DEF Holds, HasTcb, Refers
    <3> QED
      BY <2>4, <3>1 DEF Goes, Parted, Apart
  <2>10. Steady(x, q)
    BY <1>1, <2>1, <2>4 DEF Goes, Steady
  <2>11. Kept(x, q)
    BY <1>1, <1>2, <2>1, <2>3, <2>4 DEF Goes, Kept, Undisturbed, Frees, Visits
  <2> QED
    BY <2>6, <2>7, <2>8, <2>9, <2>10, <2>11, StepInv
<1> QED
  BY <1>7, <1>8

LEMMA FreeKillInv ==
  ASSUME FreeInv, NEW x \in Threads, FreeKill(x)
  PROVE  FreeInv'
<1> DEFINE q == th'[x]
           r == th[x]
           t == th[x].t
           a == tcb[t]
           s == [a EXCEPT !.rxt = "off", !.kill = "off", !.dead = TRUE]
           L == IF r.force THEN {} ELSE {"inp"}
<1>1. /\ TypeInv /\ r \in ThreadRec /\ WantOK(r) /\ RoleOK(x, r) /\ Placed(r)
      /\ r.at = "kill" /\ r.want = <<>> /\ r.force \in BOOLEAN
  BY Here DEF FreeKill, At, ThreadRec
<1>2. t \in Tcbs /\ a \in TcbRec /\ ~a.dead /\ a.alloc
  BY <1>1, Typed DEF RoleOK, Placed, FreeInv, TcbStates
<1>3. \A l \in Locks : Holds(r, l) <=> l \in {t, "info", "inp"}
  BY <1>1, <1>2, ThreadFacts DEF Holds, HasInfo, HasInp, HasTcb
<1>4. tcb' = [tcb EXCEPT ![t] = s]
  BY DEF FreeKill, StopTimers
<1>5. /\ s \in TcbRec /\ s.kill = "off" /\ s.dead = TRUE /\ s.alloc = a.alloc /\ s.ref = a.ref
  BY <1>2 DEF TcbRec, Timers
<1> HIDE DEF s
<1>6. /\ tcb' \in [Tcbs -> TcbRec] /\ tcb'[t] = s
      /\ \A u \in Tcbs : u # t => tcb'[u] = tcb[u]
  BY <1>1, <1>2, <1>4, <1>5, TcbStep
<1>7. /\ inp' \in InpRec /\ inp'.ref = inp.ref + Bit(~r.force)
      /\ inp'.alloc = inp.alloc /\ inp'.allgone = inp.allgone /\ inp'.gone = inp.gone
      /\ inp'.close_ip = inp.close_ip /\ inp'.kill = inp.kill
  <2>1. CASE r.force
    BY <1>1, <2>1, Typed DEF FreeKill, Bit, TypeInv
  <2>2. CASE ~r.force
    <3>1. inp' = [inp EXCEPT !.ref = inp.ref + 1] /\ inp.ref + 1 \in Int
      BY <1>1, <2>2, Typed DEF FreeKill
    <3> QED
      BY <1>1, <2>2, <3>1, InpStep DEF Bit
  <2> QED
    BY <2>1, <2>2
<1>8. th' = [th EXCEPT ![x] = q] /\ Goes(q, r, "destroy", <<>>)
  <2>1. <<>> \in Wants /\ "destroy" \in Labels
    BY DEF Labels, Wants
  <2> QED
    BY <1>1, <2>1, GotoStep DEF FreeKill
<1> HIDE DEF q
<1>9. Moves(x, q, L)
  <2>1. WantOK(q)
    BY <1>8 DEF Goes, WantOK
  <2>2. RoleOK(x, q)
    BY <1>8, <1>1 DEF Goes, RoleOK, InInp
  <2>3. \A l \in Locks : Holds(q, l) <=> l \in {t, "info"} \/ (r.force /\ l = "inp")
    BY <1>8, <1>2, ThreadFacts DEF Goes, Holds, HasInfo, HasInp, HasTcb
  <2>4. owner' = [l \in Locks |-> IF l \in L THEN "none" ELSE owner[l]]
    BY <1>1, NoUnlock DEF FreeKill, Unlock
  <2> QED
    BY <1>2, <1>3, <1>8, <2>1, <2>2, <2>3, <2>4, ThreadFacts DEF Moves, Onward, Goes
<1>10. Counted(x, q)
  <2>1. /\ \A u \in Tcbs : ~Refers(q, u) /\ ~Refers(r, u)
        /\ ~Serving(q) /\ ~Serving(r) /\ q.ref = r.ref
    BY <1>1, <1>8 DEF Goes, Refers, Serving
  <2>2. Bit(Entering(q)) = Bit(Entering(r)) + Bit(~r.force)
    <3>1. CASE r.force
      BY <1>1, <1>8, <3>1 DEF Goes, Entering, Bit
    <3>2. CASE ~r.force
      BY <1>1, <1>8, <3>2 DEF Goes, Entering, Bit, RoleOK, InInp
    <3> QED
      BY <3>1, <3>2
  <2>3. calls' \in [Workers -> 0..MaxCalls]
    BY <1>1 DEF FreeKill, TypeInv
  <2> QED
    BY <1>1, <1>5, <1>6, <1>7, <2>1, <2>2, <2>3, Typed DEF Counted, Bit
<1>11. Parted(x, q)
  BY <1>8, PartedOut DEF Goes
<1>12. \A y \in Threads : y # x => th'[y] = th[y]
  BY <1>1, <1>9, Moved DEF Moves, Onward
<1>13. ASSUME NEW y \in Threads, y # x
       PROVE  (th[y].at \in UseLabels => th[y].t # t) /\ t \notin th[y].todo
  <2>1. WantOK(th[y]) /\ RoleOK(y, th[y])
    BY Here
  <2>2. ~Holds(th[y], t) /\ ~HasInfo(th[y]) /\ ~HasInp(th[y])
    BY <1>2, <1>3, <1>13, OneHolder, ThreadFacts DEF Holds
  <2>3. th[y].t = t => th[y].at \notin {"check", "copy", "queue", "leave", "userabort"}
    BY <1>1, <1>13 DEF FreeInv, Alone, Apart
  <2>4. t \notin th[y].todo
    BY <2>1, <2>2 DEF RoleOK, HasInfo
  <2>5. ASSUME th[y].at \in UseLabels, th[y].t = t
        PROVE  FALSE
    BY <1>2, <2>2, <2>3, <2>5 DEF Holds, HasInfo, HasInp, HasTcb
  <2> QED
    BY <2>4, <2>5
<1>14. AllPlaced'
  <2>1. ASSUME NEW y \in Threads
        PROVE  Placed(th[y])'
    <3>1. CASE y = x
      <4>1. th'[y] = q
        BY <1>1, <1>8, <3>1 DEF TypeInv
      <4>2. t \notin r.todo
        BY <1>1 DEF RoleOK
      <4>3. /\ q.at = "destroy" /\ q.t = t /\ q.todo = r.todo /\ q.force = r.force
            /\ q.left = r.left /\ q.timer = r.timer /\ r.todo \in SUBSET Tcbs
        BY <1>1, <1>8 DEF Goes, ThreadRec
      <4>4. \A u \in q.todo : ~tcb'[u].dead
        BY <1>1, <1>6, <4>2, <4>3 DEF Placed
      <4>5. q.force /\ ~q.left => \A u \in Tcbs : tcb'[u].dead \/ u \in q.todo \/ q.t = u
        BY <1>1, <1>6, <4>3 DEF Placed
      <4>6. tcb'[q.t].dead /\ tcb'[q.t].alloc
        BY <1>2, <1>5, <1>6, <4>3
      <4>7. q.force \/ q.timer = "inpkill" => inp'.gone
        BY <1>1, <1>7, <4>3 DEF Placed, InInp
      <4> QED
        BY <4>1, <4>3, <4>4, <4>5, <4>6, <4>7 DEF Placed, InInp
    <3>2. CASE y # x
      <4>1. Placed(th[y]) /\ RoleOK(y, th[y]) /\ th[y] \in ThreadRec
        BY Here
      <4>2. /\ th[y].at \in UseLabels \cup {"destroy"} => th[y].t \in Tcbs
            /\ th[y].todo \in SUBSET Tcbs
        BY <4>1 DEF RoleOK, ThreadRec
      <4>3. th[y].at = "destroy" => th[y].t # t
        BY <1>2, <4>1 DEF Placed
      <4> QED
        BY <1>5, <1>6, <1>7, <1>12, <1>13, <3>2, <4>1, <4>2, <4>3 DEF Placed, InInp
    <3> QED
      BY <3>1, <3>2
  <2> QED
    BY <2>1 DEF AllPlaced
<1>15. TcbStates'
  BY <1>2, <1>5, <1>6 DEF FreeInv, TcbStates
<1>16. InpStates'
  <2>1. th'["close"].at \in {"inpfree", "enter"} => th["close"].at \in {"inpfree", "enter"}
    BY <1>1, <1>8, <1>12, ThreadFacts DEF Goes, TypeInv
  <2> QED
    BY <1>2, <1>5, <1>6, <1>7, <2>1 DEF FreeInv, InpStates
<1>17. Steady(x, q)
  BY <1>1, <1>7, <1>8 DEF Goes, Steady
<1>18. Kept(x, q)
  BY <1>1, <1>2, <1>5, <1>6, <1>7, <1>8 DEF Goes, Kept, Undisturbed, Frees, Visits
<1>19. ~SlowClose => OneDestroyer'
  BY <1>1, <1>7, <1>9, <1>17, SteadyStep DEF FreeInv, Moves
<1> QED
  BY <1>9, <1>10, <1>11, <1>14, <1>15, <1>16, <1>18, <1>19, StepParts

LEMMA FreeDestroyInv ==
  ASSUME FreeInv, NEW x \in Threads, FreeDestroy(x)
  PROVE  FreeInv'
<1> DEFINE q == th'[x]
           r == th[x]
           t == th[x].t
           a == tcb[t]
           s == [a EXCEPT !.alloc = FALSE]
           L == IF r.force THEN {t} ELSE {t, "info"}
<1>1. /\ TypeInv /\ r \in ThreadRec /\ WantOK(r) /\ RoleOK(x, r) /\ Placed(r)
      /\ r.at = "destroy" /\ r.want = <<>> /\ r.force \in BOOLEAN
  BY Here DEF FreeDestroy, At, ThreadRec
<1>2. t \in Tcbs /\ a \in TcbRec /\ a.dead /\ a.alloc /\ a.kill = "off"
  BY <1>1, Typed DEF RoleOK, Placed, FreeInv, TcbStates
<1>3. \A l \in Locks : Holds(r, l) <=> l \in {t, "info"} \/ (r.force /\ l = "inp")
  BY <1>1, <1>2, ThreadFacts DEF Holds, HasInfo, HasInp, HasTcb
<1>4. tcb' = [tcb EXCEPT ![t] = s]
  BY DEF FreeDestroy
<1>5. s \in TcbRec /\ s.kill = a.kill /\ s.dead = a.dead /\ s.ref = a.ref
  BY <1>2 DEF TcbRec
<1> HIDE DEF s
<1>6. /\ tcb' \in [Tcbs -> TcbRec] /\ tcb'[t] = s
      /\ \A u \in Tcbs : u # t => tcb'[u] = tcb[u]
  BY <1>1, <1>2, <1>4, <1>5, TcbStep
<1>7. inp' = inp
  BY <1>1 DEF FreeDestroy, AfterFree
<1>8. /\ th' = [th EXCEPT ![x] = q] /\ q \in ThreadRec
      /\ q.at = (IF r.force THEN "loop" ELSE "callback")
      /\ q.want = (IF r.force THEN <<>> ELSE <<"inp">>)
      /\ q.t = r.t /\ q.force = FALSE /\ q.abort = r.abort /\ q.todo = r.todo
      /\ q.left = r.left /\ q.ret = r.ret /\ q.timer = r.timer /\ q.ref = r.ref
      /\ WantOK(q) /\ RoleOK(x, q)
      /\ \A l \in Locks : Holds(q, l) <=> r.force /\ l \in {"info", "inp"}
  <2>1. CASE r.force
    <3>1. AfterFree(x, FALSE) /\ FALSE \in BOOLEAN
      BY <2>1 DEF FreeDestroy
    <3>2. (r.left \/ FALSE) = r.left
      BY <1>1 DEF ThreadRec
    <3> QED
      BY <1>1, <2>1, <3>1, <3>2, AfterForced
  <2>2. CASE ~r.force
    <3>1. <<"inp">> \in Wants /\ "callback" \in Labels
      BY TupleTypes, ThreadFacts DEF Labels
    <3>2. th' = [th EXCEPT ![x] = q] /\ Goes(q, r, "callback", <<"inp">>)
      BY <1>1, <2>2, <3>1, GotoStep DEF FreeDestroy
    <3> HIDE DEF q
    <3>3. WantOK(q)
      BY <2>2, <3>2 DEF Goes, WantOK
    <3>4. RoleOK(x, q)
      BY <1>1, <2>2, <3>2 DEF Goes, RoleOK, InInp
    <3>5. \A l \in Locks : ~Holds(q, l)
      BY <2>2, <3>2, Tuples DEF Goes, Holds, HasInfo, HasInp, HasTcb
    <3> QED
      BY <1>1, <2>2, <3>2, <3>3, <3>4, <3>5 DEF Goes
  <2> QED
    BY <1>1, <2>1, <2>2
<1> HIDE DEF q
<1>9. Moves(x, q, L)
  <2>1. owner' = [l \in Locks |-> IF l \in L THEN "none" ELSE owner[l]]
    BY <1>1 DEF FreeDestroy, Unlock
  <2> QED
    BY <1>2, <1>3, <1>8, <2>1, ThreadFacts DEF Moves, Onward
<1>10. Counted(x, q)
  <2>1. /\ \A u \in Tcbs : ~Refers(q, u) /\ ~Refers(r, u)
        /\ ~Serving(q) /\ ~Serving(r) /\ q.ref = r.ref
    BY <1>1, <1>8 DEF Refers, Serving
  <2>2. Entering(q) <=> Entering(r)
    BY <1>1, <1>8 DEF Entering
  <2>3. calls' \in [Workers -> 0..MaxCalls] /\ inp' \in InpRec
    BY <1>1, <1>7 DEF FreeDestroy, TypeInv
  <2> QED
    BY <1>1, <1>5, <1>6, <1>7, <2>1, <2>2, <2>3, Typed DEF Counted, Bit
<1>11. Parted(x, q)
  BY <1>8, PartedOut
<1>12. \A y \in Threads : y # x => th'[y] = th[y]
  BY <1>1, <1>9, Moved DEF Moves, Onward
<1>13. \A u \in Tcbs : tcb'[u].dead = tcb[u].dead /\ tcb'[u].kill = tcb[u].kill
  BY <1>5, <1>6
<1>14. AllPlaced'
  <2>1. ASSUME NEW y \in Threads
        PROVE  Placed(th[y])'
    <3>1. CASE y = x
      <4>1. th'[y] = q /\ r.todo \in SUBSET Tcbs
        BY <1>1, <1>8, <3>1 DEF TypeInv, ThreadRec
      <4>2. \A u \in q.todo : ~tcb'[u].dead
        BY <1>1, <1>8, <1>13, <4>1 DEF Placed
      <4>3. r.force /\ ~q.left => \A u \in Tcbs : tcb'[u].dead \/ u \in q.todo
        BY <1>1, <1>2, <1>8, <1>13 DEF Placed
      <4>4. r.force \/ q.timer = "inpkill" => inp'.gone
        BY <1>1, <1>7, <1>8 DEF Placed, InInp
      <4> QED
        BY <1>8, <4>1, <4>2, <4>3, <4>4 DEF Placed, InInp
    <3>2. CASE y # x
      <4>1. Placed(th[y]) /\ RoleOK(y, th[y]) /\ th[y] \in ThreadRec
        BY Here
      <4>2. /\ th[y].at \in UseLabels \cup {"destroy"} => th[y].t \in Tcbs
            /\ th[y].todo \in SUBSET Tcbs
        BY <4>1 DEF RoleOK, ThreadRec
      <4>3. th[y].at = "destroy" => th[y].t # t
        <5>1. ~HasInfo(th[y])
          BY <1>3, <3>2, OneHolder, ThreadFacts DEF Holds
        <5> QED
          BY <5>1 DEF HasInfo
      <4>4. th[y].at = "destroy" => tcb'[th[y].t].alloc
        BY <1>6, <4>1, <4>2, <4>3 DEF Placed
      <4> QED
        BY <1>7, <1>12, <1>13, <3>2, <4>1, <4>2, <4>4 DEF Placed, InInp
    <3> QED
      BY <3>1, <3>2
  <2> QED
    BY <2>1 DEF AllPlaced
<1>15. TcbStates'
  BY <1>2, <1>5, <1>6 DEF FreeInv, TcbStates
<1>16. InpStates'
  <2>1. th'["close"].at \in {"inpfree", "enter"} => th["close"].at \in {"inpfree", "enter"}
    BY <1>1, <1>8, <1>12, ThreadFacts DEF TypeInv
  <2> QED
    BY <1>7, <1>13, <2>1 DEF FreeInv, InpStates
<1>17. Steady(x, q)
  BY <1>1, <1>7, <1>8 DEF Steady
<1>18. Kept(x, q)
  BY <1>1, <1>2, <1>5, <1>6, <1>7, <1>8 DEF Kept, Undisturbed, Frees, Visits
<1>19. ~SlowClose => OneDestroyer'
  BY <1>1, <1>7, <1>9, <1>17, SteadyStep DEF FreeInv, Moves
<1> QED
  BY <1>9, <1>10, <1>11, <1>14, <1>15, <1>16, <1>18, <1>19, StepParts

\* A thread goes back to idle and gives back the references it had.
\* The shared callout is stopped only where it is not needed.
SlotKept(t) ==
  \/ tcb'[t].kill = tcb[t].kill
  \/ ~tcb[t].dead /\ (tcb'[t].kill # "off" \/ ~tcb[t].about)

LEMMA ReturnedTcb ==
  ASSUME FreeInv, NEW x \in Threads, NEW L, Return(x), UNCHANGED calls,
         owner' = [l \in Locks |-> IF l \in L THEN "none" ELSE owner[l]],
         \A l \in Locks : Holds(th[x], l) <=> l \in L,
         \A t \in Tcbs : ~Frees(th[x], t),
         \A t \in Tcbs : Visits(th[x], t) /\ tcb[t].about /\ tcb[t].accept => tcb[t].dead,
         th[x].at # "inpdestroy",
         tcb' \in [Tcbs -> TcbRec],
         \A t \in Tcbs : /\ tcb'[t].ref = tcb[t].ref - Bit(Refers(th[x], t))
                         /\ tcb'[t].alloc = tcb[t].alloc /\ tcb'[t].dead = tcb[t].dead
                         /\ tcb'[t].about = tcb[t].about /\ tcb'[t].accept = tcb[t].accept
                         /\ SlotKept(t),
         inp' \in InpRec,
         inp'.ref = inp.ref - Bit(th[x].ref) - Bit(Entering(th[x])) - Bit(Serving(th[x])),
         inp'.alloc = inp.alloc, inp'.allgone = inp.allgone, inp'.gone = inp.gone,
         inp'.close_ip = inp.close_ip,
         inp'.kill # "off" => inp.gone,
         inp.kill = "off" => inp'.kill = "off" \/ ~(inp.allgone /\ ~SlowClose)
  PROVE  FreeInv'
<1>1. TypeInv /\ th[x] \in ThreadRec /\ WantOK(th[x]) /\ RoleOK(x, th[x])
  BY Here
<1>2. Moves(x, Idle, L)
  BY <1>1, ReturnStep, IdleOK, IdleRec DEF Moves, Onward
<1>3. Counted(x, Idle)
  BY <1>1, IdleOK, IdleRec, Typed DEF Counted, Bit, TypeInv
<1>4. Quiet(x, Idle)
  BY IdleOK, IdleRec DEF Quiet, FreeInv, TcbStates, SlotKept
<1>5. ~SlowClose => Steady(x, Idle)
  <2>1. ~inp.alloc => inp.allgone
    BY DEF FreeInv, InpStates
  <2> QED
    BY <2>1, IdleRec DEF Steady
<1>6. Kept(x, Idle)
  BY DEF Kept, Undisturbed, SlotKept
<1> QED
  BY <1>2, <1>3, <1>4, <1>5, <1>6, IdleOK, StepInv

LEMMA Returned ==
  ASSUME FreeInv, NEW x \in Threads, NEW L, Return(x), UNCHANGED <<tcb, calls>>,
         owner' = [l \in Locks |-> IF l \in L THEN "none" ELSE owner[l]],
         \A l \in Locks : Holds(th[x], l) <=> l \in L,
         \A t \in Tcbs : ~Refers(th[x], t) /\ ~Frees(th[x], t),
         \A t \in Tcbs : Visits(th[x], t) /\ tcb[t].about /\ tcb[t].accept => tcb[t].dead,
         th[x].at # "inpdestroy",
         inp' \in InpRec,
         inp'.ref = inp.ref - Bit(th[x].ref) - Bit(Entering(th[x])) - Bit(Serving(th[x])),
         inp'.alloc = inp.alloc, inp'.allgone = inp.allgone, inp'.gone = inp.gone,
         inp'.close_ip = inp.close_ip,
         inp'.kill # "off" => inp.gone,
         inp.kill = "off" => inp'.kill = "off" \/ ~(inp.allgone /\ ~SlowClose)
  PROVE  FreeInv'
<1>1. TypeInv
  BY Here
<1>2. tcb' \in [Tcbs -> TcbRec] /\ UNCHANGED calls
  BY <1>1 DEF TypeInv
<1>3. \A t \in Tcbs : tcb'[t].ref = tcb[t].ref - Bit(Refers(th[x], t))
  BY <1>1, Typed DEF Bit
<1>4. \A t \in Tcbs : /\ tcb'[t].alloc = tcb[t].alloc /\ tcb'[t].dead = tcb[t].dead
                      /\ tcb'[t].about = tcb[t].about /\ tcb'[t].accept = tcb[t].accept
                      /\ SlotKept(t)
  BY DEF SlotKept
<1> QED
  BY <1>2, <1>3, <1>4, ReturnedTcb

LEMMA CallbackInv ==
  ASSUME FreeInv, NEW x \in Threads, Callback(x)
  PROVE  FreeInv'
<1> DEFINE q == th'[x]
           r == th[x]
<1>1. /\ TypeInv /\ r \in ThreadRec /\ WantOK(r) /\ RoleOK(x, r) /\ Placed(r)
      /\ r.at = "callback" /\ r.want = <<>>
  BY Here DEF Callback, At
<1>2. \A l \in Locks : Holds(r, l) <=> l \in {"inp"}
  BY <1>1, Tuples, ThreadFacts DEF Holds, HasInfo, HasInp, HasTcb, RoleOK
<1>3. /\ \A u \in Tcbs : ~Refers(r, u) /\ ~Frees(r, u) /\ ~Visits(r, u)
      /\ ~Serving(r) /\ Entering(r) /\ r.ret = "none" /\ ~r.force /\ r.todo = {}
      /\ r.timer # "inpkill" /\ x # "close"
  BY <1>1 DEF Refers, Serving, Entering, Frees, Visits, RoleOK, InInp, ThreadRec
<1>4. owner' = [l \in Locks |-> IF l \in {"inp"} THEN "none" ELSE owner[l]]
  BY DEF Callback, Unlock
<1>5. CASE inp.gone
  <2>1. /\ th' = [th EXCEPT ![x] = q] /\ q \in ThreadRec /\ UNCHANGED <<tcb, inp, calls>>
        /\ q.at = "inpfree" /\ q.want = <<>> /\ q.t = r.t /\ q.force = r.force
        /\ q.abort = FALSE /\ q.todo = r.todo /\ q.left = r.left
        /\ q.ret = "decr" /\ q.timer = r.timer /\ q.ref = r.ref
    <3>1. th \in [Threads -> ThreadRec] /\ "inpfree" \in Labels
      BY <1>1 DEF TypeInv, Labels
    <3> QED
      BY <1>1, <1>5, <3>1 DEF Callback, ThreadRec
  <2> HIDE DEF q
  <2>2. Moves(x, q, {"inp"})
    <3>1. WantOK(q)
      BY <1>3, <2>1 DEF WantOK
    <3>2. RoleOK(x, q)
      BY <1>1, <1>3, <2>1 DEF RoleOK, InInp
    <3>3. \A l \in Locks : ~Holds(q, l)
      BY <1>3, <2>1 DEF Holds, HasInfo, HasInp, HasTcb
    <3> QED
      BY <1>2, <1>4, <2>1, <3>1, <3>2, <3>3 DEF Moves, Onward
  <2>3. Counted(x, q)
    <3>1. \A u \in Tcbs : ~Refers(q, u)
      BY <2>1 DEF Refers
    <3>2. Entering(q) /\ ~Serving(q)
      BY <2>1 DEF Entering, Serving
    <3>3. calls' \in [Workers -> 0..MaxCalls]
      BY <1>1, <2>1 DEF TypeInv
    <3> QED
      BY <1>1, <1>3, <2>1, <3>1, <3>2, <3>3, CountedSame
  <2>4. Quiet(x, q)
    BY <1>3, <1>5, <2>1 DEF Quiet, Placed, InInp, FreeInv, TcbStates
  <2>5. Parted(x, q)
    BY <2>1, PartedOut
  <2>6. Steady(x, q)
    BY <1>1, <1>3, <2>1 DEF Steady
  <2>7. Kept(x, q)
    BY <1>3, <2>1 DEF Kept, Undisturbed
  <2> QED
    BY <2>2, <2>3, <2>4, <2>5, <2>6, <2>7, StepInv
<1>6. CASE ~inp.gone
  <2> DEFINE n == inp.ref - (IF r.ref THEN 2 ELSE 1)
  <2>1. Return(x) /\ inp' = [inp EXCEPT !.ref = n] /\ UNCHANGED <<tcb, calls>>
    BY <1>6 DEF Callback
  <2>2. n \in Int /\ n = inp.ref - Bit(r.ref) - Bit(Entering(r)) - Bit(Serving(r))
    BY <1>1, <1>3, Typed DEF Bit
  <2> HIDE DEF n
  <2>3. /\ inp' \in InpRec /\ inp'.ref = n
        /\ inp'.alloc = inp.alloc /\ inp'.allgone = inp.allgone /\ inp'.gone = inp.gone
        /\ inp'.close_ip = inp.close_ip /\ inp'.kill = inp.kill
    BY <1>1, <2>1, <2>2, InpStep
  <2>4. inp.kill # "off" => inp.gone
    BY DEF FreeInv, InpStates
  <2> QED
    BY <1>1, <1>2, <1>3, <1>4, <2>1, <2>2, <2>3, <2>4, Returned
<1> QED
  BY <1>5, <1>6

-----------------------------------------------------------------------------
(* sctp_inpcb_free *)

LEMMA InpSteps ==
  ASSUME TypeInv, NEW n \in Int, NEW k \in Timers, inp' = [inp EXCEPT !.ref = n, !.kill = k]
  PROVE  /\ inp' \in InpRec /\ inp'.ref = n
         /\ inp'.alloc = inp.alloc /\ inp'.allgone = inp.allgone /\ inp'.gone = inp.gone
         /\ inp'.close_ip = inp.close_ip /\ inp'.kill = k
BY DEF TypeInv, InpRec

LEMMA InpFreeInv ==
  ASSUME FreeInv, NEW x \in Threads, InpFree(x)
  PROVE  FreeInv'
<1> DEFINE q == th'[x]
           r == th[x]
<1>1. /\ TypeInv /\ r \in ThreadRec /\ WantOK(r) /\ RoleOK(x, r) /\ Placed(r)
      /\ r.at = "inpfree" /\ r.want = <<>>
  BY Here DEF InpFree, At
<1>2. \A l \in Locks : ~Holds(r, l)
  BY <1>1 DEF Holds, HasInfo, HasInp, HasTcb, RoleOK
<1>3. /\ \A u \in Tcbs : ~Refers(r, u) /\ ~Frees(r, u)
      /\ ~Serving(r) /\ (Entering(r) <=> r.ret = "decr") /\ ~r.force /\ r.todo = {}
      /\ inp.gone
  BY <1>1 DEF Refers, Serving, Entering, Frees, RoleOK, Placed, InInp
<1>4. owner' = [l \in Locks |-> IF l \in {} THEN "none" ELSE owner[l]]
  BY <1>1, NoUnlock DEF InpFree
<1>5. CASE inp.allgone
  <2> DEFINE n == inp.ref - (IF r.ret = "decr" THEN 1 ELSE 0) - (IF r.ref THEN 1 ELSE 0)
  <2>1. Return(x) /\ inp' = [inp EXCEPT !.ref = n] /\ UNCHANGED <<tcb, calls>>
    BY <1>5 DEF InpFree, InpReturn
  <2>2. n \in Int /\ n = inp.ref - Bit(r.ref) - Bit(Entering(r)) - Bit(Serving(r))
    BY <1>1, <1>3, Typed DEF Bit
  <2> HIDE DEF n
  <2>3. /\ inp' \in InpRec /\ inp'.ref = n
        /\ inp'.alloc = inp.alloc /\ inp'.allgone = inp.allgone /\ inp'.gone = inp.gone
        /\ inp'.close_ip = inp.close_ip /\ inp'.kill = inp.kill
    BY <1>1, <2>1, <2>2, InpStep
  <2>4. \A u \in Tcbs : tcb[u].dead
    BY <1>5 DEF FreeInv, InpStates
  <2> QED
    BY <1>1, <1>2, <1>3, <1>4, <2>1, <2>2, <2>3, <2>4, Returned
<1>6. CASE ~inp.allgone
  <2>1. UNCHANGED <<tcb, inp, calls>>
    BY <1>6 DEF InpFree
  <2>2. th' = [th EXCEPT ![x] = q] /\ Goes(q, r, "enter", <<"info", "inp">>)
    <3>1. <<"info", "inp">> \in Wants /\ "enter" \in Labels
      BY TupleTypes, ThreadFacts DEF Labels
    <3> QED
      BY <1>1, <1>6, <3>1, GotoStep DEF InpFree
  <2> HIDE DEF q
  <2>3. Moves(x, q, {})
    <3>1. WantOK(q)
      BY <1>3, <2>2 DEF Goes, WantOK
    <3>2. RoleOK(x, q)
      BY <1>1, <2>2 DEF Goes, RoleOK, InInp
    <3>3. \A l \in Locks : ~Holds(q, l)
      BY <1>3, <2>2, Tuples DEF Goes, Holds, HasInfo, HasInp, HasTcb
    <3> QED
      BY <1>2, <1>4, <2>2, <3>1, <3>2, <3>3 DEF Moves, Onward, Goes
  <2>4. Counted(x, q)
    <3>1. /\ \A u \in Tcbs : ~Refers(q, u)
          /\ (Entering(q) <=> Entering(r)) /\ ~Serving(q) /\ q.ref = r.ref
      BY <1>1, <1>3, <2>2 DEF Goes, Refers, Entering, Serving
    <3>2. calls' \in [Workers -> 0..MaxCalls]
      BY <1>1, <2>1 DEF TypeInv
    <3> QED
      BY <1>1, <1>3, <2>1, <3>1, <3>2, CountedSame
  <2>5. Quiet(x, q)
    <3>1. Placed(q)
      BY <1>1, <1>3, <2>2 DEF Placed, InInp, Goes
    <3>2. x = "close" => inp.close_ip
      BY <1>1 DEF FreeInv, InpStates
    <3> QED
      BY <2>1, <2>2, <3>1, <3>2 DEF Quiet, FreeInv, TcbStates, InpStates, Goes
  <2>6. Parted(x, q)
    BY <2>2, PartedOut DEF Goes
  <2>7. Steady(x, q)
    BY <1>1, <2>1, <2>2 DEF Goes, Steady
  <2>8. Kept(x, q)
    BY <1>3, <2>1, <2>2 DEF Goes, Kept, Undisturbed, Visits
  <2> QED
    BY <2>3, <2>4, <2>5, <2>6, <2>7, <2>8, StepInv
<1> QED
  BY <1>5, <1>6

LEMMA InpEnterInv ==
  ASSUME FreeInv, NEW x \in Threads, InpEnter(x)
  PROVE  FreeInv'
<1> DEFINE q == th'[x]
           r == th[x]
           b == inp.close_ip /\ x # "close"
<1>1. /\ TypeInv /\ r \in ThreadRec /\ WantOK(r) /\ RoleOK(x, r) /\ Placed(r)
      /\ r.at = "enter" /\ r.want = <<>>
  BY Here DEF InpEnter, At
<1>2. \A l \in Locks : Holds(r, l) <=> l \in {"info", "inp"}
  BY <1>1, Tuples DEF Holds, HasInfo, HasInp, HasTcb, RoleOK
<1>3. /\ \A u \in Tcbs : ~Refers(r, u) /\ ~Frees(r, u)
      /\ ~Serving(r) /\ ~r.force /\ inp.gone
  BY <1>1 DEF Refers, Serving, Frees, RoleOK, Placed, InInp
<1>4. owner' = [l \in Locks |-> IF l \in {} THEN "none" ELSE owner[l]]
  BY <1>1, NoUnlock DEF InpEnter
<1>5. /\ th' = [th EXCEPT ![x] = q] /\ q \in ThreadRec /\ UNCHANGED <<tcb, calls>>
      /\ q.at = "loop" /\ q.want = <<>> /\ q.t = r.t /\ q.force = r.force
      /\ q.abort = r.abort /\ q.todo = Linked /\ q.left = FALSE
      /\ q.ret = r.ret /\ q.timer = r.timer /\ q.ref = r.ref
  <2>1. th \in [Threads -> ThreadRec] /\ "loop" \in Labels /\ Linked \in SUBSET Tcbs
    BY <1>1 DEF TypeInv, Labels, Linked
  <2> QED
    BY <1>1, <2>1 DEF InpEnter, ThreadRec
<1> HIDE DEF q
<1>6. /\ inp' \in InpRec /\ inp'.ref = inp.ref /\ inp'.kill = inp.kill
      /\ inp'.alloc = inp.alloc /\ inp'.allgone = inp.allgone /\ inp'.gone = inp.gone
      /\ inp'.close_ip = b
  <2>1. inp' = [inp EXCEPT !.close_ip = b] /\ b \in BOOLEAN
    BY DEF InpEnter
  <2> HIDE DEF b
  <2> QED
    BY <1>1, <2>1 DEF TypeInv, InpRec
<1>7. Moves(x, q, {})
  <2>1. WantOK(q)
    BY <1>3, <1>5 DEF WantOK
  <2>2. RoleOK(x, q)
    BY <1>1, <1>3, <1>5 DEF RoleOK, InInp
  <2>3. \A l \in Locks : Holds(q, l) <=> l \in {"info", "inp"}
    BY <1>3, <1>5 DEF Holds, HasInfo, HasInp, HasTcb
  <2> QED
    BY <1>2, <1>4, <1>5, <2>1, <2>2, <2>3 DEF Moves, Onward
<1>8. Counted(x, q)
  <2>1. /\ \A u \in Tcbs : ~Refers(q, u)
        /\ (Entering(q) <=> Entering(r)) /\ ~Serving(q) /\ q.ref = r.ref
    BY <1>1, <1>5 DEF Refers, Entering, Serving
  <2> QED
    BY <1>1, <1>3, <1>5, <1>6, <2>1, Typed DEF Counted, Bit, TypeInv
<1>9. Quiet(x, q)
  <2>1. Placed(q)
    BY <1>1, <1>3, <1>5 DEF Placed, InInp, Linked
  <2>2. x # "close" => inp'.close_ip = inp.close_ip
    BY <1>1, <1>6, Typed
  <2>3. inp'.kill # "off" => inp.gone
    BY <1>3
  <2>4. \A t \in Tcbs : tcb[t].dead => tcb[t].kill = "off"
    BY DEF FreeInv, TcbStates
  <2> QED
    BY <1>5, <1>6, <2>1, <2>2, <2>3, <2>4 DEF Quiet
<1>10. Parted(x, q)
  BY <1>5, PartedOut
<1>11. Steady(x, q)
  BY <1>1, <1>5, <1>6 DEF Steady
<1>12. Kept(x, q)
  BY <1>3, <1>5, <1>6 DEF Kept, Undisturbed, Visits, Linked
<1> QED
  BY <1>7, <1>8, <1>9, <1>10, <1>11, <1>12, StepInv

LEMMA InpNextInv ==
  ASSUME FreeInv, NEW x \in Threads, InpNext(x)
  PROVE  FreeInv'
<1> DEFINE q == th'[x]
           r == th[x]
<1>1. /\ TypeInv /\ r \in ThreadRec /\ WantOK(r) /\ RoleOK(x, r) /\ Placed(r)
      /\ r.at = "loop" /\ r.want = <<>> /\ UNCHANGED <<tcb, inp, owner, calls>>
  BY Here DEF InpNext, At
<1>2. \A l \in Locks : Holds(r, l) <=> l \in {"info", "inp"}
  BY <1>1 DEF Holds, HasInfo, HasInp, HasTcb, RoleOK
<1>3. /\ \A u \in Tcbs : ~Refers(r, u) /\ ~Frees(r, u)
      /\ ~Serving(r) /\ ~r.force /\ inp.gone
  BY <1>1 DEF Refers, Serving, Frees, RoleOK, Placed, InInp
<1>4. PICK t \in r.todo :
        th' = [th EXCEPT ![x].at = "each", ![x].t = t, ![x].want = <<t>>, ![x].todo = @ \ {t}]
  BY DEF InpNext
<1>5. t \in Tcbs /\ ~tcb[t].dead /\ r.todo \in SUBSET Tcbs
  BY <1>1 DEF ThreadRec, Placed
<1>6. /\ th' = [th EXCEPT ![x] = q] /\ q \in ThreadRec
      /\ q.at = "each" /\ q.want = <<t>> /\ q.t = t /\ q.force = r.force
      /\ q.abort = r.abort /\ q.todo = r.todo \ {t} /\ q.left = r.left
      /\ q.ret = r.ret /\ q.timer = r.timer /\ q.ref = r.ref
  <2> DEFINE w == <<t>>
             T == r.todo \ {t}
  <2>1. th \in [Threads -> ThreadRec] /\ "each" \in Labels /\ w \in Wants /\ T \in SUBSET Tcbs
    BY <1>1, <1>5, TupleTypes, ThreadFacts DEF TypeInv, Labels
  <2>2. th' = [th EXCEPT ![x].at = "each", ![x].t = t, ![x].want = w, ![x].todo = T]
    BY <1>1, <1>4 DEF TypeInv
  <2> HIDE DEF w, T
  <2>3. /\ th' = [th EXCEPT ![x] = q] /\ q \in ThreadRec
        /\ q.at = "each" /\ q.want = w /\ q.t = t /\ q.force = r.force
        /\ q.abort = r.abort /\ q.todo = T /\ q.left = r.left
        /\ q.ret = r.ret /\ q.timer = r.timer /\ q.ref = r.ref
    BY <1>1, <1>5, <2>1, <2>2 DEF ThreadRec
  <2> QED
    BY <2>3 DEF w, T
<1> HIDE DEF q
<1>7. Moves(x, q, {})
  <2>1. WantOK(q)
    BY <1>3, <1>6 DEF WantOK
  <2>2. RoleOK(x, q)
    BY <1>1, <1>3, <1>5, <1>6 DEF RoleOK, InInp
  <2>3. \A l \in Locks : Holds(q, l) <=> l \in {"info", "inp"}
    BY <1>3, <1>6, Tuples DEF Holds, HasInfo, HasInp, HasTcb
  <2>4. owner' = [l \in Locks |-> IF l \in {} THEN "none" ELSE owner[l]]
    BY <1>1, NoUnlock
  <2> QED
    BY <1>2, <1>6, <2>1, <2>2, <2>3, <2>4 DEF Moves, Onward
<1>8. Counted(x, q)
  <2>1. /\ \A u \in Tcbs : ~Refers(q, u)
        /\ (Entering(q) <=> Entering(r)) /\ ~Serving(q) /\ q.ref = r.ref
    BY <1>1, <1>6 DEF Refers, Entering, Serving
  <2>2. calls' \in [Workers -> 0..MaxCalls]
    BY <1>1 DEF TypeInv
  <2> QED
    BY <1>1, <1>3, <2>1, <2>2, CountedSame
<1>9. Quiet(x, q)
  <2>1. Placed(q)
    BY <1>1, <1>3, <1>5, <1>6 DEF Placed, InInp
  <2>2. \A u \in Tcbs : tcb[u].dead => tcb[u].kill = "off"
    BY DEF FreeInv, TcbStates
  <2> QED
    BY <1>1, <1>3, <1>6, <2>1, <2>2 DEF Quiet
<1>10. Parted(x, q)
  BY <1>6, PartedOut
<1>11. Steady(x, q)
  BY <1>1, <1>6 DEF Steady
<1>12. Kept(x, q)
  BY <1>1, <1>3, <1>6 DEF Kept, Undisturbed, Visits
<1> QED
  BY <1>7, <1>8, <1>9, <1>10, <1>11, <1>12, StepInv

LEMMA InpEachInv ==
  ASSUME FreeInv, NEW x \in Threads, InpEach(x)
  PROVE  FreeInv'
<1> DEFINE q == th'[x]
           r == th[x]
           t == th[x].t
           a == tcb[t]
<1>1. /\ TypeInv /\ r \in ThreadRec /\ WantOK(r) /\ RoleOK(x, r) /\ Placed(r)
      /\ r.at = "each" /\ r.want = <<>> /\ UNCHANGED <<inp, calls>>
  BY Here DEF InpEach, At
<1>2. t \in Tcbs /\ a \in TcbRec /\ ~a.dead /\ t \notin r.todo
  BY <1>1, Typed DEF RoleOK, Placed
<1>3. \A l \in Locks : Holds(r, l) <=> l \in {t, "info", "inp"}
  BY <1>1, <1>2, Tuples DEF Holds, HasInfo, HasInp, HasTcb, RoleOK
<1>4. /\ \A u \in Tcbs : ~Refers(r, u) /\ ~Frees(r, u)
      /\ ~Serving(r) /\ ~r.force /\ inp.gone
  BY <1>1 DEF Refers, Serving, Frees, RoleOK, Placed, InInp
<1>5. th \in [Threads -> ThreadRec] /\ "loop" \in Labels /\ "free" \in Labels
  BY <1>1 DEF TypeInv, Labels
<1>6. ASSUME NEW s \in TcbRec, tcb' = [tcb EXCEPT ![t] = s],
             s.dead = a.dead, s.alloc = a.alloc, s.ref = a.ref,
             s.about => /\ a.about /\ ~s.accept
                        /\ s.kill = "off" => a.kill = "off" /\ ~a.accept,
             Unlock({t}), th' = [th EXCEPT ![x].at = "loop", ![x].left = TRUE]
      PROVE  FreeInv'
  <2>1. /\ th' = [th EXCEPT ![x] = q] /\ q \in ThreadRec
        /\ q.at = "loop" /\ q.want = r.want /\ q.t = r.t /\ q.force = r.force
        /\ q.abort = r.abort /\ q.todo = r.todo /\ q.left = TRUE
        /\ q.ret = r.ret /\ q.timer = r.timer /\ q.ref = r.ref
    BY <1>1, <1>5, <1>6 DEF ThreadRec
  <2> HIDE DEF q
  <2>2. /\ tcb' \in [Tcbs -> TcbRec] /\ tcb'[t] = s
        /\ \A u \in Tcbs : u # t => tcb'[u] = tcb[u]
    BY <1>1, <1>2, <1>6, TcbStep
  <2>3. Moves(x, q, {t})
    <3>1. WantOK(q)
      BY <1>1, <1>4, <2>1 DEF WantOK
    <3>2. RoleOK(x, q)
      BY <1>1, <1>4, <2>1 DEF RoleOK, InInp
    <3>3. \A l \in Locks : Holds(q, l) <=> l \in {"info", "inp"}
      BY <1>4, <2>1 DEF Holds, HasInfo, HasInp, HasTcb
    <3> QED
      BY <1>2, <1>3, <1>6, <2>1, <3>1, <3>2, <3>3, ThreadFacts DEF Moves, Onward, Unlock
  <2>4. Counted(x, q)
    <3>1. /\ \A u \in Tcbs : ~Refers(q, u)
          /\ (Entering(q) <=> Entering(r)) /\ ~Serving(q) /\ q.ref = r.ref
      BY <1>1, <2>1 DEF Refers, Entering, Serving
    <3> QED
      BY <1>1, <1>4, <1>6, <2>2, <3>1, Typed DEF Counted, Bit, TypeInv
  <2>5. Quiet(x, q)
    <3>1. Placed(q)
      BY <1>1, <1>4, <2>1 DEF Placed, InInp
    <3>2. \A u \in Tcbs : tcb[u].dead => tcb[u].kill = "off"
      BY DEF FreeInv, TcbStates
    <3> QED
      BY <1>1, <1>2, <1>4, <1>6, <2>1, <2>2, <3>1, <3>2 DEF Quiet
  <2>6. Parted(x, q)
    BY <2>1, PartedOut
  <2>7. Steady(x, q)
    BY <1>1, <2>1 DEF Steady
  <2>8. Kept(x, q)
    <3>1. s.accept \in BOOLEAN /\ a.accept \in BOOLEAN
      BY <1>2, <1>6 DEF TcbRec
    <3>2. \A u \in Tcbs : u # t => (Visits(r, u) => Visits(q, u))
      BY <1>1, <2>1 DEF Visits
    <3> QED
      BY <1>1, <1>2, <1>4, <1>6, <2>2, <3>1, <3>2 DEF Kept, Undisturbed
  <2> QED
    BY <2>3, <2>4, <2>5, <2>6, <2>7, <2>8, StepInv
<1>7. CASE a.about /\ tcb' = (IF a.accept
                    THEN [tcb EXCEPT ![t] = [StartKill(@) EXCEPT !.accept = FALSE]] ELSE tcb)
           /\ Unlock({t}) /\ th' = [th EXCEPT ![x].at = "loop", ![x].left = TRUE]
  <2>1. CASE a.accept
    <3> DEFINE p == StartKill(a)
               s == [p EXCEPT !.accept = FALSE]
    <3>1. tcb' = [tcb EXCEPT ![t] = s]
      BY <1>7, <2>1
    <3>2. /\ s \in TcbRec /\ s.dead = a.dead /\ s.alloc = a.alloc /\ s.ref = a.ref
          /\ s.about = a.about /\ s.kill = "queued" /\ s.accept = FALSE
      <4>1. /\ p \in TcbRec /\ p.kill = "queued" /\ p.dead = a.dead /\ p.alloc = a.alloc
            /\ p.ref = a.ref /\ p.about = a.about
        BY <1>2, Slots DEF SlotOnly
      <4> HIDE DEF p
      <4> QED
        BY <4>1 DEF TcbRec
    <3> HIDE DEF s
    <3> QED
      BY <1>6, <1>7, <3>1, <3>2
  <2>2. CASE ~a.accept
    <3>1. tcb' = [tcb EXCEPT ![t] = a]
      BY <1>1, <1>7, <2>2 DEF TypeInv
    <3> QED
      BY <1>2, <1>6, <1>7, <2>2, <3>1
  <2> QED
    BY <2>1, <2>2
<1>8. CASE /\ ~a.about /\ tcb' = [tcb EXCEPT ![t].rxt = "queued"]
           /\ Unlock({t}) /\ th' = [th EXCEPT ![x].at = "loop", ![x].left = TRUE]
  <2> DEFINE s == [a EXCEPT !.rxt = "queued"]
  <2>1. tcb' = [tcb EXCEPT ![t] = s]
    BY <1>8
  <2>2. /\ s \in TcbRec /\ s.dead = a.dead /\ s.alloc = a.alloc /\ s.ref = a.ref
        /\ s.about = a.about
    BY <1>2 DEF TcbRec, Timers
  <2> HIDE DEF s
  <2> QED
    BY <1>6, <1>8, <2>1, <2>2
<1>9. CASE /\ ~a.about /\ UNCHANGED <<tcb, owner>>
           /\ th' = [th EXCEPT ![x].at = "free", ![x].force = TRUE]
  <2>1. /\ th' = [th EXCEPT ![x] = q] /\ q \in ThreadRec
        /\ q.at = "free" /\ q.want = r.want /\ q.t = r.t /\ q.force = TRUE
        /\ q.abort = r.abort /\ q.todo = r.todo /\ q.left = r.left
        /\ q.ret = r.ret /\ q.timer = r.timer /\ q.ref = r.ref
    BY <1>1, <1>5, <1>9 DEF ThreadRec
  <2> HIDE DEF q
  <2>2. Moves(x, q, {})
    <3>1. WantOK(q)
      BY <1>1, <2>1 DEF WantOK
    <3>2. RoleOK(x, q)
      BY <1>1, <1>2, <2>1 DEF RoleOK, InInp
    <3>3. \A l \in Locks : Holds(q, l) <=> l \in {t, "info", "inp"}
      BY <1>2, <2>1, ThreadFacts DEF Holds, HasInfo, HasInp, HasTcb
    <3>4. owner' = [l \in Locks |-> IF l \in {} THEN "none" ELSE owner[l]]
      BY <1>1, <1>9, NoUnlock
    <3> QED
      BY <1>3, <2>1, <3>1, <3>2, <3>3, <3>4 DEF Moves, Onward
  <2>3. Counted(x, q)
    <3>1. /\ \A u \in Tcbs : ~Refers(q, u)
          /\ (Entering(q) <=> Entering(r)) /\ ~Serving(q) /\ q.ref = r.ref
      BY <1>1, <2>1 DEF Refers, Entering, Serving
    <3>2. calls' \in [Workers -> 0..MaxCalls]
      BY <1>1 DEF TypeInv
    <3> QED
      BY <1>1, <1>4, <1>9, <3>1, <3>2, CountedSame
  <2>4. Quiet(x, q)
    <3>1. Placed(q)
      BY <1>1, <1>2, <1>4, <2>1 DEF Placed, InInp
    <3>2. \A u \in Tcbs : tcb[u].dead => tcb[u].kill = "off"
      BY DEF FreeInv, TcbStates
    <3> QED
      BY <1>1, <1>4, <1>9, <2>1, <3>1, <3>2 DEF Quiet
  <2>5. Parted(x, q)
    BY <2>1, PartedOut
  <2>6. Steady(x, q)
    BY <1>1, <2>1 DEF Steady
  <2>7. Kept(x, q)
    BY <1>1, <1>4, <1>9, <2>1 DEF Kept, Undisturbed, Visits
  <2> QED
    BY <2>2, <2>3, <2>4, <2>5, <2>6, <2>7, StepInv
<1> QED
  BY <1>7, <1>8, <1>9 DEF InpEach

LEMMA InpDecideInv ==
  ASSUME FreeInv, NEW x \in Threads, InpDecide(x)
  PROVE  FreeInv'
<1> DEFINE q == th'[x]
           r == th[x]
           n == inp.ref - (IF r.ret = "decr" THEN 1 ELSE 0) - (IF r.ref THEN 1 ELSE 0)
<1>1. /\ TypeInv /\ r \in ThreadRec /\ WantOK(r) /\ RoleOK(x, r) /\ Placed(r)
      /\ r.at = "loop" /\ r.want = <<>> /\ r.todo = {} /\ UNCHANGED <<tcb, calls>>
  BY Here DEF InpDecide, At
<1>2. \A l \in Locks : Holds(r, l) <=> l \in {"info", "inp"}
  BY <1>1 DEF Holds, HasInfo, HasInp, HasTcb, RoleOK
<1>3. /\ \A u \in Tcbs : ~Refers(r, u) /\ ~Frees(r, u) /\ ~Visits(r, u)
      /\ ~Serving(r) /\ (Entering(r) <=> r.ret = "decr") /\ ~r.force /\ inp.gone
  BY <1>1 DEF Refers, Serving, Entering, Frees, Visits, RoleOK, Placed, InInp
<1>4. owner' = [l \in Locks |-> IF l \in {"info", "inp"} THEN "none" ELSE owner[l]]
  BY DEF InpDecide, Unlock
<1>5. n \in Int /\ n = inp.ref - Bit(r.ref) - Bit(Entering(r)) - Bit(Serving(r))
  BY <1>1, <1>3, Typed DEF Bit
<1>6. ~SlowClose => ~inp.allgone
  BY <1>1 DEF FreeInv, OneDestroyer
<1>7. ASSUME NEW k \in Timers, Return(x), inp' = [inp EXCEPT !.ref = n, !.kill = k]
      PROVE  FreeInv'
  <2> HIDE DEF n
  <2>1. /\ inp' \in InpRec /\ inp'.ref = n
        /\ inp'.alloc = inp.alloc /\ inp'.allgone = inp.allgone /\ inp'.gone = inp.gone
        /\ inp'.close_ip = inp.close_ip /\ inp'.kill = k
    BY <1>1, <1>5, <1>7, InpSteps
  <2> QED
    BY <1>1, <1>2, <1>3, <1>4, <1>5, <1>6, <1>7, <2>1, Returned
<1>8. CASE /\ r.left /\ Return(x)
           /\ inp' = [inp EXCEPT !.ref = n, !.kill = IF r.abort THEN "off" ELSE inp.kill]
  <2>1. (IF r.abort THEN "off" ELSE inp.kill) \in Timers
    BY <1>1, Typed DEF Timers
  <2> HIDE DEF n
  <2> QED
    BY <1>7, <1>8, <2>1
<1>9. CASE Return(x) /\ inp' = [inp EXCEPT !.ref = n, !.kill = "queued"]
  <2>1. "queued" \in Timers
    BY DEF Timers
  <2> HIDE DEF n
  <2> QED
    BY <1>7, <1>9, <2>1
<1>10. CASE /\ ~r.left /\ inp.ref = 0 /\ ~inp.close_ip
            /\ inp' = [inp EXCEPT !.allgone = TRUE] /\ Goto(x, "inpdestroy", <<>>)
  <2>0. ASSUME NEW y \in Threads
        PROVE  ~Entering(th[y]) /\ ~th[y].ref
    <3>1. {z \in Threads : Entering(th[z])} \in SUBSET Threads
          /\ {z \in Threads : th[z].ref} \in SUBSET Threads
      OBVIOUS
    <3>2. /\ Cardinality({z \in Threads : Entering(th[z])}) \in Nat
          /\ Cardinality({z \in Threads : th[z].ref}) \in Nat
      BY <3>1, ThreadsFinite
    <3>3. /\ Cardinality({z \in Threads : Entering(th[z])}) = 0
          /\ Cardinality({z \in Threads : th[z].ref}) = 0
      BY <1>10, <3>2 DEF FreeInv, InpRefs, Bit
    <3>4. {z \in Threads : Entering(th[z])} = {} /\ {z \in Threads : th[z].ref} = {}
      BY <3>1, <3>3, ThreadsFinite, FS_EmptySet
    <3> QED
      BY <3>4
  <2>1. /\ inp' \in InpRec /\ inp'.ref = inp.ref /\ inp'.kill = inp.kill
        /\ inp'.alloc = inp.alloc /\ inp'.gone = inp.gone /\ inp'.close_ip = inp.close_ip
        /\ inp'.allgone = TRUE
    BY <1>1, <1>10 DEF TypeInv, InpRec
  <2>2. th' = [th EXCEPT ![x] = q] /\ Goes(q, r, "inpdestroy", <<>>)
    <3>1. <<>> \in Wants /\ "inpdestroy" \in Labels
      BY DEF Labels, Wants
    <3> QED
      BY <1>1, <1>10, <3>1, GotoStep
  <2> HIDE DEF q, n
  <2>3. Moves(x, q, {"info", "inp"})
    <3>1. WantOK(q)
      BY <2>2 DEF Goes, WantOK
    <3>2. RoleOK(x, q)
      BY <1>1, <1>3, <2>0, <2>2 DEF Goes, RoleOK, InInp, Entering, ThreadRec
    <3>3. \A l \in Locks : ~Holds(q, l)
      BY <1>3, <2>2 DEF Goes, Holds, HasInfo, HasInp, HasTcb
    <3> QED
      BY <1>2, <1>4, <2>2, <3>1, <3>2, <3>3 DEF Moves, Onward, Goes
  <2>4. Counted(x, q)
    <3>1. /\ \A u \in Tcbs : ~Refers(q, u)
          /\ (Entering(q) <=> Entering(r)) /\ ~Serving(q) /\ q.ref = r.ref
      BY <1>1, <2>2 DEF Goes, Refers, Entering, Serving
    <3> QED
      BY <1>1, <1>3, <2>1, <3>1, Typed DEF Counted, Bit, TypeInv
  <2>5. Parted(x, q)
    BY <2>2, PartedOut DEF Goes
  <2>6. \A u \in Tcbs : tcb[u].dead
    BY <1>1, <1>10 DEF Placed
  <2>7. TcbStates'
    BY <1>1 DEF FreeInv, TcbStates
  <2>8. th'[x] = q /\ \A y \in Threads : y # x => th'[y] = th[y]
    BY <1>1, <2>2, Moved DEF Goes
  <2>9. AllPlaced'
    <3>1. ASSUME NEW y \in Threads
          PROVE  Placed(th[y])'
      <4>1. CASE y = x
        BY <1>1, <1>3, <2>1, <2>2, <2>8, <4>1 DEF Placed, Goes, InInp
      <4>2. CASE y # x
        <5>1. Placed(th[y])
          BY Here
        <5> QED
          BY <1>1, <2>1, <2>8, <4>2, <5>1 DEF Placed, InInp
      <4> QED
        BY <4>1, <4>2
    <3> QED
      BY <3>1 DEF AllPlaced
  <2>10. InpStates'
    <3>1. th'["close"].at \in {"inpfree", "enter"} => th["close"].at \in {"inpfree", "enter"}
      BY <2>2, <2>8, ThreadFacts DEF Goes
    <3> QED
      BY <1>1, <1>3, <2>1, <2>6, <3>1 DEF FreeInv, InpStates
  <2>11. ASSUME ~SlowClose
         PROVE  OneDestroyer'
    <3>1. OneDestroyer /\ ~inp.allgone /\ inp.alloc
      BY <1>6, <2>11, <1>1, Typed DEF FreeInv, InpStates
    <3>3. \/ x = "close"
          \/ x = "tick" /\ r.timer = "inpkill"
      BY <1>1, <2>0 DEF RoleOK, InInp, Entering
    <3>4. x = "close" => th["tick"].timer # "inpkill"
      BY <1>1, <3>1 DEF OneDestroyer
    <3>5. ASSUME NEW y \in Threads, y # x
          PROVE  th[y].at \in GoneLabels \ {"inpdestroy"}
      <4>1. /\ WantOK(th[y]) /\ RoleOK(y, th[y]) /\ Placed(th[y]) /\ th[y] \in ThreadRec
        BY Here
      <4>2. th[y].at \notin UseLabels \cup {"inpdestroy"} \cup SendLabels
        BY <1>3, <2>6, <3>1, <4>1 DEF Placed, RoleOK
      <4>3. ~HasInfo(th[y])
        BY <1>2, <3>5, OneHolder, ThreadFacts DEF Holds
      <4>4. th[y].at \notin {"destroy", "loop", "each"}
        BY <4>3 DEF HasInfo
      <4>5. th[y].at # "callback"
        BY <2>0 DEF Entering
      <4>6. th[y].at \notin {"inpfree", "enter"}
        <5>1. ASSUME th[y].at \in {"inpfree", "enter"}
              PROVE  FALSE
          <6>1. y = "close" \/ th[y].timer = "inpkill"
            BY <2>0, <4>1, <5>1 DEF RoleOK, InInp, Entering
          <6>2. y # "close"
            BY <1>10, <5>1 DEF FreeInv, InpStates
          <6>3. y = "tick"
            BY <4>1, <6>1, <6>2 DEF RoleOK
          <6> QED
            BY <3>3, <3>4, <3>5, <6>1, <6>2, <6>3
        <5> QED
          BY <5>1
      <4> QED
        BY <4>1, <4>2, <4>4, <4>5, <4>6 DEF ThreadRec, Labels
    <3>6. \A y \in Threads : th'[y].at \in GoneLabels /\ (th'[y].at = "inpdestroy" <=> y = x)
      BY <2>2, <2>8, <3>5 DEF Goes
    <3>7. th'["tick"].timer = "inpkill" => x = "tick" /\ th'["close"].at = "idle"
      BY <2>2, <2>8, <3>1, <3>3, <3>4, ThreadFacts DEF Goes, OneDestroyer
    <3> QED
      BY <2>1, <3>1, <3>3, <3>6, <3>7, ThreadFacts DEF OneDestroyer
  <2>12. Kept(x, q)
    BY <1>1, <2>6 DEF Kept
  <2> QED
    BY <2>3, <2>4, <2>5, <2>7, <2>9, <2>10, <2>11, <2>12, StepParts
<1> QED
  BY <1>8, <1>9, <1>10 DEF InpDecide

LEMMA InpDestroyInv ==
  ASSUME FreeInv, NEW x \in Threads, InpDestroy(x)
  PROVE  FreeInv'
<1> DEFINE r == th[x]
<1>1. /\ TypeInv /\ r \in ThreadRec /\ WantOK(r) /\ RoleOK(x, r) /\ Placed(r)
      /\ r.at = "inpdestroy" /\ r.want = <<>> /\ UNCHANGED <<tcb, owner, calls>>
      /\ Return(x)
  BY Here DEF InpDestroy, At
<1>2. \A l \in Locks : ~Holds(r, l)
  BY <1>1 DEF Holds, HasInfo, HasInp, HasTcb, RoleOK
<1>3. inp' = [inp EXCEPT !.kill = "off", !.alloc = FALSE]
  BY DEF InpDestroy
<1>4. inp.allgone /\ inp.gone /\ \A u \in Tcbs : tcb[u].dead
  BY <1>1 DEF Placed, FreeInv, InpStates
<1>5. r.ret = "none" /\ ~r.ref /\ ~r.force /\ r.todo = {}
  BY <1>1 DEF RoleOK
<1>6. /\ inp' \in InpRec /\ inp'.ref = inp.ref /\ inp'.kill = "off"
      /\ inp'.alloc = FALSE /\ inp'.allgone = inp.allgone /\ inp'.gone = inp.gone
      /\ inp'.close_ip = inp.close_ip
  BY <1>1, <1>3 DEF TypeInv, InpRec, Timers
<1>7. th' = [th EXCEPT ![x] = Idle] /\ th'[x] = Idle
  BY <1>1, ReturnStep
<1>8. Moves(x, Idle, {})
  BY <1>1, <1>2, <1>7, NoUnlock, IdleOK, IdleRec DEF Moves, Onward
<1>9. Counted(x, Idle)
  <2>1. /\ \A u \in Tcbs : ~Refers(r, u)
        /\ ~Entering(r) /\ ~Serving(r)
    BY <1>1, <1>5 DEF Refers, Entering, Serving
  <2> QED
    BY <1>1, <1>5, <1>6, <2>1, IdleOK, IdleRec, Typed DEF Counted, Bit, TypeInv
<1>10. \A y \in Threads : y # x => th'[y] = th[y]
  BY <1>1, <1>7, Moved, IdleRec
<1>11. TcbStates'
  BY <1>1 DEF FreeInv, TcbStates
<1>12. AllPlaced'
  <2>1. ASSUME NEW y \in Threads
        PROVE  Placed(th[y])'
    <3>1. CASE y = x
      BY <1>7, <3>1, IdleRec DEF Placed, InInp
    <3>2. CASE y # x
      <4>1. Placed(th[y])
        BY Here
      <4> QED
        BY <1>1, <1>6, <1>10, <3>2, <4>1 DEF Placed, InInp
    <3> QED
      BY <3>1, <3>2
  <2> QED
    BY <2>1 DEF AllPlaced
<1>13. InpStates'
  <2>1. th'["close"].at \in {"inpfree", "enter"} => th["close"].at \in {"inpfree", "enter"}
    BY <1>7, <1>10, IdleRec, ThreadFacts
  <2> QED
    BY <1>1, <1>4, <1>6, <2>1 DEF FreeInv, InpStates
<1>14. ASSUME ~SlowClose
       PROVE  OneDestroyer'
  <2>1. OneDestroyer
    BY <1>14 DEF FreeInv
  <2>2. \A y \in Threads : th'[y].at # "inpdestroy" /\ th'[y].at \in GoneLabels
    BY <1>1, <1>4, <1>7, <1>10, <2>1, IdleRec DEF OneDestroyer
  <2>3. th'["tick"].timer # "inpkill"
    <3>1. CASE x = "tick"
      BY <1>7, <3>1, IdleRec
    <3>2. CASE x # "tick"
      BY <1>1, <1>4, <1>10, <2>1, <3>2, ThreadFacts DEF OneDestroyer
    <3> QED
      BY <3>1, <3>2
  <2> QED
    BY <1>6, <2>2, <2>3 DEF OneDestroyer
<1>15. Kept(x, Idle)
  BY <1>1, <1>4 DEF Kept
<1> QED
  BY <1>8, <1>9, <1>11, <1>12, <1>13, <1>14, <1>15, IdleOK, StepParts

-----------------------------------------------------------------------------
(* pthread_mutex_lock *)

\* What is taken belongs to the label: the locks that x then holds are one more.
LEMMA Acquired ==
  ASSUME NEW x \in Threads, NEW r \in ThreadRec, WantOK(r), RoleOK(x, r), r.want # <<>>
  PROVE  /\ Head(r.want) \in Locks /\ Tail(r.want) \in Wants
         /\ \A q : Goes(q, r, r.at, Tail(r.want)) =>
              /\ WantOK(q)
              /\ \A l \in Locks : Holds(q, l) <=> Holds(r, l) \/ l = Head(r.want)
<1> DEFINE Grown(h, w) ==
      /\ h \in Locks /\ w \in Wants
      /\ \A q : Goes(q, r, r.at, w) =>
           WantOK(q) /\ \A l \in Locks : Holds(q, l) <=> Holds(r, l) \/ l = h
<1> SUFFICES Grown(Head(r.want), Tail(r.want))
  OBVIOUS
<1>1. r.force = FALSE
  BY DEF WantOK, ThreadRec
<1>2. /\ "info" \in Locks /\ "inp" \in Locks /\ "info" \notin Tcbs /\ "inp" \notin Tcbs
      /\ r.t \in Tcbs => r.t \in Locks /\ r.t # "info" /\ r.t # "inp"
  BY ThreadFacts
<1>3. r.at \in {"check", "each", "refer", "queue", "userabort", "reset", "found"} =>
        r.t \in Tcbs
  BY DEF RoleOK
<1>4. <<>> \in Wants /\ <<"inp">> \in Wants
      /\ (r.t \in Tcbs => <<r.t>> \in Wants /\ <<"inp", r.t>> \in Wants)
  BY <1>2, TupleTypes
<1>5. CASE r.at = "check" /\ r.want = <<r.t>>
  <2>1. /\ Head(r.want) = r.t /\ Tail(r.want) = <<>>
        /\ Len(r.want) = 1 /\ Len(<<>>) = 0
    BY <1>5, Tuples
  <2>2. \A q : Goes(q, r, r.at, <<>>) => WantOK(q)
    BY <1>1, <1>3, <1>5, Tuples DEF Goes, WantOK
  <2>3. \A q : Goes(q, r, r.at, <<>>) =>
          \A l \in Locks : Holds(q, l) <=> Holds(r, l) \/ l = r.t
    BY <1>1, <1>2, <1>3, <1>5, <2>1 DEF Goes, Holds, HasInfo, HasInp, HasTcb
  <2> QED
    BY <1>2, <1>3, <1>4, <1>5, <2>1, <2>2, <2>3
<1>6. CASE r.at = "check" /\ r.want = <<"inp", r.t>>
  <2>1. /\ Head(r.want) = "inp" /\ Tail(r.want) = <<r.t>>
        /\ Len(r.want) = 2 /\ Len(<<r.t>>) = 1
    BY <1>6, Tuples
  <2>2. \A q : Goes(q, r, r.at, <<r.t>>) => WantOK(q)
    BY <1>1, <1>3, <1>6, Tuples DEF Goes, WantOK
  <2>3. \A q : Goes(q, r, r.at, <<r.t>>) =>
          \A l \in Locks : Holds(q, l) <=> Holds(r, l) \/ l = "inp"
    BY <1>1, <1>2, <1>3, <1>6, <2>1 DEF Goes, Holds, HasInfo, HasInp, HasTcb
  <2> QED
    BY <1>2, <1>3, <1>4, <1>6, <2>1, <2>2, <2>3
<1>7. CASE r.at = "check" /\ r.want = <<"info", "inp", r.t>>
  <2>1. /\ Head(r.want) = "info" /\ Tail(r.want) = <<"inp", r.t>>
        /\ Len(r.want) = 3 /\ Len(<<"inp", r.t>>) = 2
    BY <1>7, Tuples
  <2>2. \A q : Goes(q, r, r.at, <<"inp", r.t>>) => WantOK(q)
    BY <1>1, <1>3, <1>7, Tuples DEF Goes, WantOK
  <2>3. \A q : Goes(q, r, r.at, <<"inp", r.t>>) =>
          \A l \in Locks : Holds(q, l) <=> Holds(r, l) \/ l = "info"
    BY <1>1, <1>2, <1>3, <1>7, <2>1 DEF Goes, Holds, HasInfo, HasInp, HasTcb
  <2> QED
    BY <1>2, <1>3, <1>4, <1>7, <2>1, <2>2, <2>3
<1>8. CASE r.at \in {"callback", "first", "pick"} /\ r.want = <<"inp">>
  <2>1. /\ Head(r.want) = "inp" /\ Tail(r.want) = <<>>
        /\ Len(r.want) = 1 /\ Len(<<>>) = 0
    BY <1>8, Tuples
  <2>2. \A q : Goes(q, r, r.at, <<>>) => WantOK(q)
    BY <1>1, <1>3, <1>8, Tuples DEF Goes, WantOK
  <2>3. \A q : Goes(q, r, r.at, <<>>) =>
          \A l \in Locks : Holds(q, l) <=> Holds(r, l) \/ l = "inp"
    BY <1>1, <1>2, <1>3, <1>8, <2>1 DEF Goes, Holds, HasInfo, HasInp, HasTcb
  <2> QED
    BY <1>2, <1>3, <1>4, <1>8, <2>1, <2>2, <2>3
<1>9. CASE r.at = "enter" /\ r.want = <<"inp">>
  <2>1. /\ Head(r.want) = "inp" /\ Tail(r.want) = <<>>
        /\ Len(r.want) = 1 /\ Len(<<>>) = 0
    BY <1>9, Tuples
  <2>2. \A q : Goes(q, r, r.at, <<>>) => WantOK(q)
    BY <1>1, <1>3, <1>9, Tuples DEF Goes, WantOK
  <2>3. \A q : Goes(q, r, r.at, <<>>) =>
          \A l \in Locks : Holds(q, l) <=> Holds(r, l) \/ l = "inp"
    BY <1>1, <1>2, <1>3, <1>9, <2>1 DEF Goes, Holds, HasInfo, HasInp, HasTcb
  <2> QED
    BY <1>2, <1>3, <1>4, <1>9, <2>1, <2>2, <2>3
<1>10. CASE r.at = "enter" /\ r.want = <<"info", "inp">>
  <2>1. /\ Head(r.want) = "info" /\ Tail(r.want) = <<"inp">>
        /\ Len(r.want) = 2 /\ Len(<<"inp">>) = 1
    BY <1>10, Tuples
  <2>2. \A q : Goes(q, r, r.at, <<"inp">>) => WantOK(q)
    BY <1>1, <1>3, <1>10, Tuples DEF Goes, WantOK
  <2>3. \A q : Goes(q, r, r.at, <<"inp">>) =>
          \A l \in Locks : Holds(q, l) <=> Holds(r, l) \/ l = "info"
    BY <1>1, <1>2, <1>3, <1>10, <2>1 DEF Goes, Holds, HasInfo, HasInp, HasTcb
  <2> QED
    BY <1>2, <1>3, <1>4, <1>10, <2>1, <2>2, <2>3
<1>11. CASE r.at \in {"each", "refer", "queue", "userabort", "reset"} /\ r.want = <<r.t>>
  <2>1. /\ Head(r.want) = r.t /\ Tail(r.want) = <<>>
        /\ Len(r.want) = 1 /\ Len(<<>>) = 0
    BY <1>11, Tuples
  <2>2. \A q : Goes(q, r, r.at, <<>>) => WantOK(q)
    BY <1>1, <1>3, <1>11, Tuples DEF Goes, WantOK
  <2>3. \A q : Goes(q, r, r.at, <<>>) =>
          \A l \in Locks : Holds(q, l) <=> Holds(r, l) \/ l = r.t
    BY <1>1, <1>2, <1>3, <1>11, <2>1 DEF Goes, Holds, HasInfo, HasInp, HasTcb
  <2> QED
    BY <1>2, <1>3, <1>4, <1>11, <2>1, <2>2, <2>3
<1>12. CASE r.at = "lookup" /\ r.want = <<"info">>
  <2>1. /\ Head(r.want) = "info" /\ Tail(r.want) = <<>>
        /\ Len(r.want) = 1 /\ Len(<<>>) = 0
    BY <1>12, Tuples
  <2>2. \A q : Goes(q, r, r.at, <<>>) => WantOK(q)
    BY <1>1, <1>3, <1>12, Tuples DEF Goes, WantOK
  <2>3. \A q : Goes(q, r, r.at, <<>>) =>
          \A l \in Locks : Holds(q, l) <=> Holds(r, l) \/ l = "info"
    BY <1>1, <1>2, <1>3, <1>12, <2>1 DEF Goes, Holds, HasInfo, HasInp, HasTcb
  <2> QED
    BY <1>2, <1>3, <1>4, <1>12, <2>1, <2>2, <2>3
<1>13. CASE r.at = "found" /\ r.want = <<r.t>>
  <2>1. /\ Head(r.want) = r.t /\ Tail(r.want) = <<>>
        /\ Len(r.want) = 1 /\ Len(<<>>) = 0
    BY <1>13, Tuples
  <2>2. \A q : Goes(q, r, r.at, <<>>) => WantOK(q)
    BY <1>1, <1>3, <1>13, Tuples DEF Goes, WantOK
  <2>3. \A q : Goes(q, r, r.at, <<>>) =>
          \A l \in Locks : Holds(q, l) <=> Holds(r, l) \/ l = r.t
    BY <1>1, <1>2, <1>3, <1>13, <2>1 DEF Goes, Holds, HasInfo, HasInp, HasTcb
  <2> QED
    BY <1>2, <1>3, <1>4, <1>13, <2>1, <2>2, <2>3
<1>14. CASE r.at = "found" /\ r.want = <<"inp", r.t>>
  <2>1. /\ Head(r.want) = "inp" /\ Tail(r.want) = <<r.t>>
        /\ Len(r.want) = 2 /\ Len(<<r.t>>) = 1
    BY <1>14, Tuples
  <2>2. \A q : Goes(q, r, r.at, <<r.t>>) => WantOK(q)
    BY <1>1, <1>3, <1>14, Tuples DEF Goes, WantOK
  <2>3. \A q : Goes(q, r, r.at, <<r.t>>) =>
          \A l \in Locks : Holds(q, l) <=> Holds(r, l) \/ l = "inp"
    BY <1>1, <1>2, <1>3, <1>14, <2>1 DEF Goes, Holds, HasInfo, HasInp, HasTcb
  <2> QED
    BY <1>2, <1>3, <1>4, <1>14, <2>1, <2>2, <2>3
<1>15. CASE r.at = "checks" /\ r.t \in Tcbs /\ r.want = <<r.t>>
  <2>1. /\ Head(r.want) = r.t /\ Tail(r.want) = <<>>
        /\ Len(r.want) = 1 /\ Len(<<>>) = 0
    BY <1>15, Tuples
  <2>2. \A q : Goes(q, r, r.at, <<>>) => WantOK(q)
    BY <1>1, <1>3, <1>15, Tuples DEF Goes, WantOK
  <2>3. \A q : Goes(q, r, r.at, <<>>) =>
          \A l \in Locks : Holds(q, l) <=> Holds(r, l) \/ l = r.t
    BY <1>1, <1>2, <1>3, <1>15, <2>1 DEF Goes, Holds, HasInfo, HasInp, HasTcb
  <2> QED
    BY <1>2, <1>3, <1>4, <1>15, <2>1, <2>2, <2>3
<1> HIDE DEF Grown
<1> QED
  BY <1>5, <1>6, <1>7, <1>8, <1>9, <1>10, <1>11, <1>12, <1>13, <1>14, <1>15
  DEF WantOK, ThreadRec, Labels

LEMMA AcquireInv ==
  ASSUME FreeInv, NEW x \in Threads, Acquire(x)
  PROVE  FreeInv'
<1> DEFINE q == th'[x]
           r == th[x]
           h == Head(r.want)
<1>1. /\ TypeInv /\ r \in ThreadRec /\ WantOK(r) /\ RoleOK(x, r) /\ Placed(r)
      /\ r.want # <<>> /\ UNCHANGED <<tcb, inp, calls>>
  BY Here DEF Acquire
<1>2. /\ h \in Locks /\ Tail(r.want) \in Wants /\ owner[h] = "none"
      /\ owner' = [owner EXCEPT ![h] = x]
  BY <1>1, Acquired DEF Acquire
<1>3. th' = [th EXCEPT ![x] = q] /\ Goes(q, r, r.at, Tail(r.want))
  <2> DEFINE w == Tail(r.want)
  <2>1. th \in [Threads -> ThreadRec] /\ w \in Wants
    BY <1>1, <1>2 DEF TypeInv
  <2>2. th' = [th EXCEPT ![x].want = w]
    BY DEF Acquire
  <2> HIDE DEF w
  <2>3. /\ th' = [th EXCEPT ![x] = q] /\ q \in ThreadRec
        /\ q.at = r.at /\ q.want = w /\ q.t = r.t /\ q.force = r.force
        /\ q.abort = r.abort /\ q.todo = r.todo /\ q.left = r.left
        /\ q.ret = r.ret /\ q.timer = r.timer /\ q.ref = r.ref
    BY <2>1, <2>2 DEF ThreadRec
  <2> QED
    BY <2>3 DEF Goes, w
<1> HIDE DEF q, h
<1>4. /\ WantOK(q)
      /\ \A l \in Locks : Holds(q, l) <=> Holds(r, l) \/ l = h
  BY <1>1, <1>3, Acquired DEF Goes, h
<1>5. RoleOK(x, q)
  <2>1. r.at # "idle"
    BY <1>1 DEF WantOK
  <2> QED
    BY <1>1, <1>3, <2>1 DEF Goes, RoleOK, InInp
<1>6. Onward(x, q)
  BY <1>3, <1>4, <1>5 DEF Onward, Goes
<1>7. LocksHeld' /\ owner' \in [Locks -> Threads \cup {"none"}]
  <2>1. owner' \in [Locks -> Threads \cup {"none"}]
    BY <1>1, <1>2 DEF TypeInv
  <2>2. ASSUME NEW y \in Threads, NEW l \in Locks
        PROVE  owner'[l] = y <=> Holds(th'[y], l)
    <3>1. owner[l] = y <=> Holds(th[y], l)
      BY DEF FreeInv, LocksHeld
    <3>2. owner'[l] = IF l = h THEN x ELSE owner[l]
      BY <1>1, <1>2 DEF TypeInv
    <3>3. th'[y] = IF y = x THEN q ELSE th[y]
      BY <1>1, <1>3 DEF TypeInv
    <3>4. ~Holds(th[y], h)
      BY <1>2, ThreadFacts DEF FreeInv, LocksHeld
    <3> QED
      BY <1>4, <3>1, <3>2, <3>3, <3>4
  <2> QED
    BY <2>1, <2>2 DEF LocksHeld
<1>8. Counted(x, q)
  <2>1. /\ \A u \in Tcbs : Refers(q, u) <=> Refers(r, u)
        /\ (Entering(q) <=> Entering(r)) /\ (Serving(q) <=> Serving(r)) /\ q.ref = r.ref
    BY <1>3 DEF Goes, Refers, Entering, Serving
  <2>2. calls' \in [Workers -> 0..MaxCalls]
    BY <1>1 DEF TypeInv
  <2> QED
    BY <1>1, <2>1, <2>2, CountedSame
<1>9. Quiet(x, q)
  <2>1. Placed(q)
    BY <1>1, <1>3 DEF Placed, InInp, Goes
  <2>2. /\ \A u \in Tcbs : tcb[u].dead => tcb[u].kill = "off"
        /\ inp.kill # "off" => inp.gone
        /\ x = "close" /\ r.at \in {"inpfree", "enter"} => inp.close_ip
    BY DEF FreeInv, TcbStates, InpStates
  <2> QED
    BY <1>1, <1>3, <2>1, <2>2 DEF Quiet, Goes
<1>10. Parted(x, q)
  BY <1>3, PartedSame DEF Goes, FreeInv
<1>11. Steady(x, q)
  BY <1>1, <1>3 DEF Goes, Steady
<1>12. Kept(x, q)
  BY <1>1, <1>3 DEF Goes, Kept, Undisturbed, Frees, Visits
<1> QED
  BY <1>6, <1>7, <1>8, <1>9, <1>10, <1>11, <1>12, QuietParts, StepWhole

-----------------------------------------------------------------------------
(* Input *)

LEMMA WorkerFacts ==
  ASSUME FreeInv, NEW x \in Threads, th[x].at \in SendLabels \cup PacketLabels
  PROVE  LET r == th[x] IN
         /\ r.force = FALSE /\ r.ref = FALSE /\ r.ret = "none" /\ r.todo = {}
         /\ r.timer # "inpkill" /\ ~Entering(r) /\ ~Serving(r)
         /\ x # "tick" /\ x # "close"
         /\ \A t \in Tcbs : ~Frees(r, t) /\ ~Visits(r, t)
<1>1. RoleOK(x, th[x]) /\ th[x] \in ThreadRec
  BY Here
<1>2. x \in Workers
  BY <1>1 DEF RoleOK
<1> QED
  BY <1>1, <1>2, ThreadFacts DEF RoleOK, InInp, Entering, Serving, Frees, Visits, ThreadRec

\* A worker returns with the locks of L and no reference.
LEMMA WorkerReturns ==
  ASSUME FreeInv, NEW x \in Threads, th[x].at \in SendLabels \cup PacketLabels,
         NEW L, Return(x), UNCHANGED <<inp, calls>>,
         owner' = [l \in Locks |-> IF l \in L THEN "none" ELSE owner[l]],
         \A l \in Locks : Holds(th[x], l) <=> l \in L,
         tcb' \in [Tcbs -> TcbRec],
         \A t \in Tcbs : /\ tcb'[t].ref = tcb[t].ref - Bit(Refers(th[x], t))
                         /\ tcb'[t].alloc = tcb[t].alloc /\ tcb'[t].dead = tcb[t].dead
                         /\ tcb'[t].about = tcb[t].about /\ tcb'[t].accept = tcb[t].accept
                         /\ SlotKept(t)
  PROVE  FreeInv'
<1>1. TypeInv /\ inp' \in InpRec
  BY Here DEF TypeInv
<1>2. inp'.ref = inp.ref - Bit(th[x].ref) - Bit(Entering(th[x])) - Bit(Serving(th[x]))
  <2>1. th[x].ref = FALSE /\ ~Entering(th[x]) /\ ~Serving(th[x])
    BY WorkerFacts
  <2>2. inp'.ref = inp.ref /\ inp.ref \in Int
    BY <1>1, Typed
  <2> QED
    BY <2>1, <2>2 DEF Bit
<1>3. inp'.kill # "off" => inp.gone
  BY DEF FreeInv, InpStates
<1> QED
  BY <1>1, <1>2, <1>3, WorkerFacts, ReturnedTcb

LEMMA LookupInv ==
  ASSUME FreeInv, NEW x \in Threads, Lookup(x)
  PROVE  FreeInv'
<1> DEFINE q == th'[x]
           r == th[x]
<1>1. /\ TypeInv /\ r \in ThreadRec /\ RoleOK(x, r)
      /\ r.at = "lookup" /\ r.want = <<>> /\ UNCHANGED <<tcb, inp, calls>>
  BY Here DEF Lookup, At
<1>0. r.force = FALSE
  BY <1>1, WorkerFacts
<1>2. \A l \in Locks : Holds(r, l) <=> l \in {"info"}
  BY <1>0, <1>1, Tuples DEF Holds, HasInfo, HasInp, HasTcb
<1>3. \A u \in Tcbs : ~Refers(r, u)
  BY <1>1 DEF Refers
<1>4. CASE Unlock({"info"}) /\ Return(x)
  <2>1. tcb' \in [Tcbs -> TcbRec]
    BY <1>1 DEF TypeInv
  <2>2. \A t \in Tcbs : tcb'[t].ref = tcb[t].ref - Bit(Refers(th[x], t))
    BY <1>1, <1>3, Typed DEF Bit
  <2> QED
    BY <1>1, <1>2, <1>4, <2>1, <2>2, WorkerReturns DEF Unlock, SlotKept
<1>5. ASSUME NEW t \in Linked, UNCHANGED owner,
             th' = [th EXCEPT ![x].at = "found", ![x].t = t, ![x].want = <<"inp", t>>]
      PROVE  FreeInv'
  <2>1. t \in Tcbs /\ ~tcb[t].dead
    BY <1>5 DEF Linked
  <2>2. /\ th' = [th EXCEPT ![x] = q] /\ q \in ThreadRec
        /\ q.at = "found" /\ q.want = <<"inp", t>> /\ q.t = t /\ q.force = r.force
        /\ q.abort = r.abort /\ q.todo = r.todo /\ q.left = r.left
        /\ q.ret = r.ret /\ q.timer = r.timer /\ q.ref = r.ref
    <3> DEFINE w == <<"inp", t>>
    <3>1. th \in [Threads -> ThreadRec] /\ "found" \in Labels /\ w \in Wants
      BY <1>1, <2>1, TupleTypes, ThreadFacts DEF TypeInv, Labels
    <3>2. th' = [th EXCEPT ![x].at = "found", ![x].t = t, ![x].want = w]
      BY <1>5
    <3> HIDE DEF w
    <3>3. /\ th' = [th EXCEPT ![x] = q] /\ q \in ThreadRec
          /\ q.at = "found" /\ q.want = w /\ q.t = t /\ q.force = r.force
          /\ q.abort = r.abort /\ q.todo = r.todo /\ q.left = r.left
          /\ q.ret = r.ret /\ q.timer = r.timer /\ q.ref = r.ref
      BY <1>1, <2>1, <3>1, <3>2 DEF ThreadRec
    <3> QED
      BY <3>3 DEF w
  <2> HIDE DEF q
  <2>3. Moves(x, q, {})
    <3>1. WantOK(q)
      BY <1>1, <2>2, WorkerFacts DEF WantOK
    <3>2. RoleOK(x, q)
      BY <1>1, <2>1, <2>2, WorkerFacts DEF RoleOK, InInp
    <3>3. \A l \in Locks : Holds(q, l) <=> l \in {"info"}
      BY <1>0, <1>1, <2>2, Tuples DEF Holds, HasInfo, HasInp, HasTcb
    <3> QED
      BY <1>1, <1>2, <1>5, <2>2, <3>1, <3>2, <3>3, NoUnlock DEF Moves, Onward
  <2>4. Counted(x, q)
    <3>1. /\ \A u \in Tcbs : ~Refers(q, u)
          /\ ~Entering(q) /\ ~Serving(q) /\ q.ref = r.ref
      BY <1>1, <2>2, WorkerFacts DEF Refers, Entering, Serving
    <3>2. calls' \in [Workers -> 0..MaxCalls]
      BY <1>1 DEF TypeInv
    <3> QED
      BY <1>1, <1>3, <3>1, <3>2, WorkerFacts, CountedSame
  <2>5. Quiet(x, q)
    <3>1. Placed(q)
      BY <1>1, <2>1, <2>2, WorkerFacts DEF Placed, InInp
    <3> QED
      BY <1>1, <2>2, <3>1 DEF Quiet, FreeInv, TcbStates, InpStates
  <2>6. Parted(x, q)
    BY <2>2, PartedOut
  <2>7. Steady(x, q)
    <3>1. ~inp.allgone
      BY <2>1 DEF FreeInv, InpStates
    <3> QED
      BY <1>1, <2>2, <3>1, WorkerFacts DEF Steady
  <2>8. Kept(x, q)
    BY <1>1, WorkerFacts DEF Kept, Undisturbed
  <2> QED
    BY <2>3, <2>4, <2>5, <2>6, <2>7, <2>8, StepInv
<1> QED
  BY <1>4, <1>5 DEF Lookup

LEMMA FoundInv ==
  ASSUME FreeInv, NEW x \in Threads, Found(x)
  PROVE  FreeInv'
<1> DEFINE q == th'[x]
           r == th[x]
           t == th[x].t
<1>1. /\ TypeInv /\ r \in ThreadRec /\ RoleOK(x, r) /\ Placed(r)
      /\ r.at = "found" /\ r.want = <<>> /\ UNCHANGED <<tcb, inp, calls>>
  BY Here DEF Found, At
<1>2. t \in Tcbs
  BY <1>1 DEF RoleOK
<1>3. \A l \in Locks : Holds(r, l) <=> l \in {"info", "inp", t}
  BY <1>1, <1>2, WorkerFacts, Tuples, ThreadFacts DEF Holds, HasInfo, HasInp, HasTcb
<1>4. \A u \in Tcbs : ~Refers(r, u)
  BY <1>1 DEF Refers
<1>5. CASE Unlock({"info", "inp", t}) /\ Return(x)
  <2>1. tcb' \in [Tcbs -> TcbRec]
    BY <1>1 DEF TypeInv
  <2>2. \A u \in Tcbs : tcb'[u].ref = tcb[u].ref - Bit(Refers(th[x], u))
    BY <1>1, <1>4, Typed DEF Bit
  <2> QED
    BY <1>1, <1>3, <1>5, <2>1, <2>2, WorkerReturns DEF Unlock, SlotKept
<1>6. CASE Unlock({"info", "inp"}) /\ Goto(x, "locked", <<>>)
  <2>1. th' = [th EXCEPT ![x] = q] /\ Goes(q, r, "locked", <<>>)
    <3>1. <<>> \in Wants /\ "locked" \in Labels
      BY DEF Labels, Wants
    <3> QED
      BY <1>1, <1>6, <3>1, GotoStep
  <2> HIDE DEF q
  <2>2. Moves(x, q, {"info", "inp"})
    <3>1. WantOK(q)
      BY <1>1, <2>1, WorkerFacts DEF Goes, WantOK
    <3>2. RoleOK(x, q)
      BY <1>1, <2>1, WorkerFacts DEF Goes, RoleOK, InInp
    <3>3. \A l \in Locks : Holds(q, l) <=> l = t
      BY <1>1, <1>2, <2>1, WorkerFacts, Tuples DEF Goes, Holds, HasInfo, HasInp, HasTcb
    <3> QED
      BY <1>2, <1>3, <1>6, <2>1, <3>1, <3>2, <3>3, ThreadFacts
      DEF Moves, Onward, Goes, Unlock
  <2>3. Counted(x, q)
    <3>1. /\ \A u \in Tcbs : ~Refers(q, u)
          /\ ~Entering(q) /\ ~Serving(q) /\ q.ref = r.ref
      BY <1>1, <2>1, WorkerFacts DEF Goes, Refers, Entering, Serving
    <3>2. calls' \in [Workers -> 0..MaxCalls]
      BY <1>1 DEF TypeInv
    <3> QED
      BY <1>1, <1>4, <3>1, <3>2, WorkerFacts, CountedSame
  <2>4. Quiet(x, q)
    <3>1. Placed(q)
      BY <1>1, <2>1, WorkerFacts DEF Placed, InInp, Goes
    <3> QED
      BY <1>1, <2>1, <3>1 DEF Quiet, FreeInv, TcbStates, InpStates, Goes
  <2>5. Parted(x, q)
    BY <2>1, PartedOut DEF Goes
  <2>6. Steady(x, q)
    BY <1>1, <2>1, WorkerFacts DEF Steady, Goes
  <2>7. Kept(x, q)
    BY <1>1, WorkerFacts DEF Kept, Undisturbed
  <2> QED
    BY <2>2, <2>3, <2>4, <2>5, <2>6, <2>7, StepInv
<1> QED
  BY <1>5, <1>6 DEF Found

\* A TCB's protocol timer is nothing the invariant looks at.
LEMMA RxtStep ==
  ASSUME TypeInv, NEW t \in Tcbs, NEW s \in Timers, tcb' = [tcb EXCEPT ![t].rxt = s]
  PROVE  /\ tcb' \in [Tcbs -> TcbRec]
         /\ \A u \in Tcbs : /\ tcb'[u].ref = tcb[u].ref /\ tcb'[u].alloc = tcb[u].alloc
                            /\ tcb'[u].dead = tcb[u].dead /\ tcb'[u].about = tcb[u].about
                            /\ tcb'[u].accept = tcb[u].accept /\ tcb'[u].kill = tcb[u].kill
<1>1. tcb \in [Tcbs -> TcbRec]
  BY DEF TypeInv
<1> QED
  BY <1>1 DEF TcbRec

LEMMA InputInv ==
  ASSUME FreeInv, Lively, NEW x \in Threads, Input(x)
  PROVE  FreeInv'
<1> DEFINE q == th'[x]
           r == th[x]
           t == th[x].t
<1>1. /\ TypeInv /\ r \in ThreadRec /\ RoleOK(x, r) /\ Placed(r)
      /\ r.at = "locked" /\ r.want = <<>> /\ UNCHANGED <<inp, calls>>
  BY Here DEF Input, At
<1>2. t \in Tcbs
  BY <1>1 DEF RoleOK
<1>3. \A l \in Locks : Holds(r, l) <=> l \in {t}
  BY <1>1, <1>2, WorkerFacts, ThreadFacts DEF Holds, HasInfo, HasInp, HasTcb
<1>4. \A u \in Tcbs : ~Refers(r, u)
  BY <1>1 DEF Refers
<1>5. ASSUME NEW s \in {tcb[t].rxt, "off", "queued"},
             NEW a \in {tcb[t], StartReset(tcb[t]), StopReset(tcb[t])},
             tcb' = [tcb EXCEPT ![t] = [a EXCEPT !.rxt = s]], Unlock({t}), Return(x)
      PROVE  FreeInv'
  <2> DEFINE c == [a EXCEPT !.rxt = s]
  <2>1. s \in Timers /\ tcb[t] \in TcbRec /\ ~tcb[t].dead /\ ~tcb[t].about
    BY <1>1, <1>2, <1>5, Typed DEF Timers, Placed, Lively
  <2>2. SlotOnly(tcb[t], a) 
    BY <1>5, <2>1, Slots DEF SlotOnly
  <2>3. /\ c \in TcbRec /\ c.alloc = tcb[t].alloc /\ c.dead = tcb[t].dead
        /\ c.about = tcb[t].about /\ c.accept = tcb[t].accept /\ c.ref = tcb[t].ref
    BY <2>1, <2>2 DEF SlotOnly, TcbRec
  <2>4. tcb' = [tcb EXCEPT ![t] = c]
    BY <1>5
  <2> HIDE DEF c
  <2>5. /\ tcb' \in [Tcbs -> TcbRec] /\ tcb'[t] = c
        /\ \A u \in Tcbs : u # t => tcb'[u] = tcb[u]
    BY <1>1, <1>2, <2>3, <2>4, TcbStep
  <2>6. \A u \in Tcbs : /\ tcb'[u].ref = tcb[u].ref /\ tcb'[u].alloc = tcb[u].alloc
                        /\ tcb'[u].dead = tcb[u].dead /\ tcb'[u].about = tcb[u].about
                        /\ tcb'[u].accept = tcb[u].accept /\ SlotKept(u)
    BY <2>1, <2>3, <2>5 DEF SlotKept
  <2>7. \A u \in Tcbs : tcb'[u].ref = tcb[u].ref - Bit(Refers(th[x], u))
    BY <1>1, <1>4, <2>6, Typed DEF Bit
  <2>8. owner' = [l \in Locks |-> IF l \in {t} THEN "none" ELSE owner[l]]
    BY <1>5 DEF Unlock
  <2> QED
    BY <1>1, <1>3, <1>5, <2>5, <2>6, <2>7, <2>8, WorkerReturns
<1>6. CASE Goto(x, "free", <<>>) /\ UNCHANGED <<tcb, owner>>
  <2>1. th' = [th EXCEPT ![x] = q] /\ Goes(q, r, "free", <<>>)
    <3>1. <<>> \in Wants /\ "free" \in Labels
      BY DEF Labels, Wants
    <3> QED
      BY <1>1, <1>6, <3>1, GotoStep
  <2> HIDE DEF q
  <2>2. Moves(x, q, {})
    <3>1. WantOK(q)
      BY <1>1, <2>1, WorkerFacts DEF Goes, WantOK
    <3>2. RoleOK(x, q)
      BY <1>1, <1>2, <2>1, WorkerFacts DEF Goes, RoleOK, InInp
    <3>3. \A l \in Locks : Holds(q, l) <=> l \in {t}
      BY <1>1, <1>2, <2>1, WorkerFacts DEF Goes, Holds, HasInfo, HasInp, HasTcb
    <3> QED
      BY <1>1, <1>3, <1>6, <2>1, <3>1, <3>2, <3>3, NoUnlock DEF Moves, Onward, Goes
  <2>3. Counted(x, q)
    <3>1. /\ \A u \in Tcbs : ~Refers(q, u)
          /\ ~Entering(q) /\ ~Serving(q) /\ q.ref = r.ref
      BY <1>1, <2>1, WorkerFacts DEF Goes, Refers, Entering, Serving
    <3>2. calls' \in [Workers -> 0..MaxCalls]
      BY <1>1 DEF TypeInv
    <3> QED
      BY <1>1, <1>4, <1>6, <3>1, <3>2, WorkerFacts, CountedSame
  <2>4. Quiet(x, q)
    <3>1. Placed(q)
      BY <1>1, <2>1, WorkerFacts DEF Placed, InInp, Goes
    <3> QED
      BY <1>1, <1>6, <2>1, <3>1 DEF Quiet, FreeInv, TcbStates, InpStates, Goes
  <2>5. Parted(x, q)
    BY <2>1, PartedOut DEF Goes
  <2>6. Steady(x, q)
    BY <1>1, <2>1, WorkerFacts DEF Steady, Goes
  <2>7. Kept(x, q)
    BY <1>1, <1>6, WorkerFacts DEF Kept, Undisturbed
  <2> QED
    BY <2>2, <2>3, <2>4, <2>5, <2>6, <2>7, StepInv
<1> QED
  BY <1>5, <1>6 DEF Input

LEMMA PacketInv ==
  ASSUME FreeInv, NEW x \in Workers, Packet(x)
  PROVE  FreeInv'
<1> DEFINE q == th'[x]
<1>1. x \in Threads /\ x \notin {"tick", "close"}
  BY ThreadFacts
<1>2. /\ TypeInv /\ th[x] \in ThreadRec /\ RoleOK(x, th[x])
      /\ th[x].at = "idle" /\ th[x] = Idle
  BY <1>1, Here DEF Packet, Call, At, RoleOK
<1>3. th' = [th EXCEPT ![x] = q] /\ Goes(q, Idle, "lookup", <<"info">>)
  <2>1. <<"info">> \in Wants /\ "lookup" \in Labels
    BY TupleTypes, ThreadFacts DEF Labels
  <2> QED
    BY <1>1, <1>2, <2>1, GotoStep DEF Packet
<1> HIDE DEF q
<1>4. Moves(x, q, {})
  <2>1. WantOK(q)
    BY <1>3, IdleRec DEF Goes, WantOK
  <2>2. RoleOK(x, q)
    BY <1>1, <1>3, IdleRec
    DEF Goes, RoleOK, InInp, SendLabels, PacketLabels, EarlyTick, UseLabels, InpLabels
  <2>3. \A l \in Locks : ~Holds(q, l)
    BY <1>3, IdleRec, Tuples DEF Goes, Holds, HasInfo, HasInp, HasTcb
  <2> QED
    BY <1>1, <1>2, <1>3, <2>1, <2>2, <2>3, NoUnlock, IdleOK DEF Moves, Onward, Goes, Packet
<1>5. Counted(x, q)
  <2>1. calls' \in [Workers -> 0..MaxCalls]
    BY <1>2, CallStep DEF Packet
  <2>2. /\ \A t \in Tcbs : ~Refers(q, t)
        /\ ~q.ref /\ ~Entering(q) /\ ~Serving(q)
    BY <1>3, IdleRec DEF Goes, Refers, Entering, Serving
  <2> QED
    BY <1>1, <1>2, <2>1, <2>2, IdleRec, IdleOK, CountedSame DEF Packet
<1>6. Quiet(x, q)
  BY <1>1, <1>2, <1>3, IdleRec DEF Quiet, Packet, Goes, Placed, InInp, InpLabels, UseLabels,
     SendLabels, FreeInv, TcbStates, InpStates
<1>7. Parted(x, q)
  BY <1>1, <1>3, PartedOut DEF Goes, PairLabels
<1>8. Steady(x, q)
  BY <1>1, <1>2, <1>3 DEF Goes, Steady, GoneLabels, Packet
<1>9. Kept(x, q)
  BY <1>1, <1>2, <1>3, IdleOK DEF Goes, Kept, Undisturbed, Packet
<1> QED
  BY <1>1, <1>4, <1>5, <1>6, <1>7, <1>8, <1>9, StepInv

-----------------------------------------------------------------------------
(* Sends, accept and close *)

\* A call of the user asks for the endpoint's lock.
LEMMA UserCalls ==
  ASSUME FreeInv, NEW x \in Workers, NEW l \in {"first", "pick"}, Call(x), Usable,
         Goto(x, l, <<"inp">>), UNCHANGED <<tcb, inp, owner>>
  PROVE  FreeInv'
<1> DEFINE q == th'[x]
<1>1. x \in Threads /\ x \notin {"tick", "close"}
  BY ThreadFacts
<1>2. /\ TypeInv /\ th[x] \in ThreadRec /\ RoleOK(x, th[x])
      /\ th[x].at = "idle" /\ th[x] = Idle /\ ~inp.gone /\ UNCHANGED <<tcb, inp, owner>>
  BY <1>1, Here DEF Usable, Call, At, RoleOK
<1>3. th' = [th EXCEPT ![x] = q] /\ Goes(q, Idle, l, <<"inp">>)
  <2>1. <<"inp">> \in Wants /\ l \in Labels
    BY TupleTypes, ThreadFacts DEF Labels
  <2> QED
    BY <1>1, <1>2, <2>1, GotoStep
<1> HIDE DEF q
<1>4. Moves(x, q, {})
  <2>1. WantOK(q)
    BY <1>3, IdleRec DEF Goes, WantOK
  <2>2. RoleOK(x, q)
    BY <1>1, <1>3, IdleRec DEF Goes, RoleOK, InInp
  <2>3. \A k \in Locks : ~Holds(q, k)
    BY <1>3, IdleRec, Tuples DEF Goes, Holds, HasInfo, HasInp, HasTcb
  <2> QED
    BY <1>1, <1>2, <1>3, <2>1, <2>2, <2>3, NoUnlock, IdleOK DEF Moves, Onward, Goes
<1>5. Counted(x, q)
  <2>1. calls' \in [Workers -> 0..MaxCalls]
    BY <1>2, CallStep
  <2>2. /\ \A t \in Tcbs : ~Refers(q, t)
        /\ ~q.ref /\ ~Entering(q) /\ ~Serving(q)
    BY <1>3, IdleRec DEF Goes, Refers, Entering, Serving
  <2> QED
    BY <1>1, <1>2, <2>1, <2>2, IdleRec, IdleOK, CountedSame
<1>6. Quiet(x, q)
  BY <1>1, <1>2, <1>3, IdleRec DEF Quiet, Goes, Placed, InInp, FreeInv, TcbStates, InpStates
<1>7. Parted(x, q)
  BY <1>1, <1>3, PartedOut DEF Goes
<1>8. Steady(x, q)
  <2>1. ~inp.allgone
    BY <1>2 DEF FreeInv, InpStates
  <2> QED
    BY <1>1, <1>2, <1>3, <2>1 DEF Goes, Steady
<1>9. Kept(x, q)
  BY <1>1, <1>2, <1>3, IdleOK DEF Goes, Kept, Undisturbed
<1> QED
  BY <1>1, <1>4, <1>5, <1>6, <1>7, <1>8, <1>9, StepInv

\* It finds the association, or none.
Finds(x, b) ==
  \/ Unlock({"inp"}) /\ Return(x)
  \/ \E t \in Linked :
       /\ th' = [th EXCEPT ![x].at = b, ![x].t = t, ![x].want = <<t>>]
       /\ UNCHANGED owner

LEMMA UserFinds ==
  ASSUME FreeInv, NEW x \in Threads, NEW a, NEW b,
         (a = "first" /\ b = "refer") \/ (a = "pick" /\ b = "reset"), At(x, a),
         Finds(x, b), UNCHANGED <<tcb, inp, calls>>
  PROVE  FreeInv'
<1> DEFINE q == th'[x]
           r == th[x]
<1>0. r.force = FALSE
  BY WorkerFacts DEF At
<1>1. /\ TypeInv /\ r \in ThreadRec /\ RoleOK(x, r) /\ Placed(r)
      /\ r.at = a /\ r.want = <<>> /\ UNCHANGED <<tcb, inp, calls>>
  BY Here DEF At
<1>2. \A l \in Locks : Holds(r, l) <=> l \in {"inp"}
  <2>1. Len(r.want) = 0
    BY <1>1, Tuples
  <2>2. ~HasInfo(r) /\ HasInp(r) /\ ~HasTcb(r)
    <3>1. CASE r.at = "first"
      BY <1>0, <2>1, <3>1 DEF HasInfo, HasInp, HasTcb
    <3>2. CASE r.at = "pick"
      BY <1>0, <2>1, <3>2 DEF HasInfo, HasInp, HasTcb
    <3> QED
      BY <1>1, <3>1, <3>2
  <2> QED
    BY <2>2 DEF Holds
<1>3. \A u \in Tcbs : ~Refers(r, u)
  BY <1>1 DEF Refers
<1>4. CASE Unlock({"inp"}) /\ Return(x)
  <2>1. tcb' \in [Tcbs -> TcbRec]
    BY <1>1 DEF TypeInv
  <2>2. \A t \in Tcbs : tcb[t].ref \in Int /\ Bit(Refers(th[x], t)) = 0
    BY <1>1, <1>3, Typed DEF Bit
  <2>3. \A t \in Tcbs : /\ tcb'[t].ref = tcb[t].ref - Bit(Refers(th[x], t))
                        /\ SlotKept(t)
    BY <1>1, <2>2 DEF SlotKept
  <2>4. th[x].at \in SendLabels
    BY <1>1
  <2> HIDE DEF r
  <2> QED
    BY <1>1, <1>4, <2>1, <2>3, <2>4, <1>2, WorkerReturns DEF Unlock, r
<1>5. ASSUME NEW t \in Linked, UNCHANGED owner,
             th' = [th EXCEPT ![x].at = b, ![x].t = t, ![x].want = <<t>>]
      PROVE  FreeInv'
  <2>1. t \in Tcbs /\ ~tcb[t].dead
    BY <1>5 DEF Linked
  <2>2. /\ th' = [th EXCEPT ![x] = q] /\ q \in ThreadRec
        /\ q.at = b /\ q.want = <<t>> /\ q.t = t /\ q.force = r.force
        /\ q.abort = r.abort /\ q.todo = r.todo /\ q.left = r.left
        /\ q.ret = r.ret /\ q.timer = r.timer /\ q.ref = r.ref
    <3> DEFINE w == <<t>>
    <3>1. th \in [Threads -> ThreadRec] /\ b \in Labels /\ w \in Wants
      BY <1>1, <2>1, TupleTypes, ThreadFacts DEF TypeInv, Labels
    <3>2. th' = [th EXCEPT ![x].at = b, ![x].t = t, ![x].want = w]
      BY <1>5
    <3> HIDE DEF w
    <3>3. /\ th' = [th EXCEPT ![x] = q] /\ q \in ThreadRec
          /\ q.at = b /\ q.want = w /\ q.t = t /\ q.force = r.force
          /\ q.abort = r.abort /\ q.todo = r.todo /\ q.left = r.left
          /\ q.ret = r.ret /\ q.timer = r.timer /\ q.ref = r.ref
      BY <1>1, <2>1, <3>1, <3>2 DEF ThreadRec
    <3> QED
      BY <3>3 DEF w
  <2> HIDE DEF q
  <2>3. Moves(x, q, {})
    <3>1. WantOK(q)
      BY <1>0, <1>1, <2>2 DEF WantOK
    <3>2. RoleOK(x, q)
      BY <1>0, <1>1, <2>1, <2>2 DEF RoleOK, InInp
    <3>3. \A l \in Locks : Holds(q, l) <=> l \in {"inp"}
      BY <1>0, <1>1, <2>2, Tuples DEF Holds, HasInfo, HasInp, HasTcb
    <3> QED
      BY <1>1, <1>2, <1>5, <2>2, <3>1, <3>2, <3>3, NoUnlock DEF Moves, Onward
  <2>4. Counted(x, q)
    <3>1. /\ \A u \in Tcbs : ~Refers(q, u)
          /\ ~Entering(q) /\ ~Serving(q) /\ q.ref = r.ref
      BY <1>1, <2>2, WorkerFacts DEF Refers, Entering, Serving
    <3>2. calls' \in [Workers -> 0..MaxCalls]
      BY <1>1 DEF TypeInv
    <3> QED
      BY <1>1, <1>3, <3>1, <3>2, WorkerFacts, CountedSame
  <2>5. Quiet(x, q)
    <3>1. Placed(q)
      BY <1>0, <1>1, <2>1, <2>2 DEF Placed, InInp
    <3> QED
      BY <1>1, <2>2, <3>1 DEF Quiet, FreeInv, TcbStates, InpStates
  <2>6. Parted(x, q)
    BY <2>2, PartedOut
  <2>7. Steady(x, q)
    BY <1>1, <2>2, WorkerFacts DEF Steady
  <2>8. Kept(x, q)
    BY <1>1, WorkerFacts DEF Kept, Undisturbed
  <2> QED
    BY <2>3, <2>4, <2>5, <2>6, <2>7, <2>8, StepInv
<1> QED
  BY <1>4, <1>5 DEF Finds

LEMMA SendInv ==
  ASSUME FreeInv, NEW x \in Workers, Send(x)
  PROVE  FreeInv'
BY UserCalls DEF Send

LEMMA FirstInv ==
  ASSUME FreeInv, NEW x \in Threads, First(x)
  PROVE  FreeInv'
<1> DEFINE a == "first"
           b == "refer"
<1>1. /\ (a = "first" /\ b = "refer") \/ (a = "pick" /\ b = "reset")
      /\ At(x, a) /\ UNCHANGED <<tcb, inp, calls>>
      /\ Finds(x, b)
  BY DEF First, Finds
<1> HIDE DEF a, b
<1> QED
  BY <1>1, UserFinds

LEMMA ResetStreamsInv ==
  ASSUME FreeInv, NEW x \in Workers, ResetStreams(x)
  PROVE  FreeInv'
BY UserCalls DEF ResetStreams

LEMMA PickInv ==
  ASSUME FreeInv, NEW x \in Threads, Pick(x)
  PROVE  FreeInv'
<1> DEFINE a == "pick"
           b == "reset"
<1>1. /\ (a = "first" /\ b = "refer") \/ (a = "pick" /\ b = "reset")
      /\ At(x, a) /\ UNCHANGED <<tcb, inp, calls>>
      /\ Finds(x, b)
  BY DEF Pick, Finds
<1> HIDE DEF a, b
<1> QED
  BY <1>1, UserFinds

LEMMA ResetStartInv ==
  ASSUME FreeInv, NEW x \in Threads, ResetStart(x)
  PROVE  FreeInv'
<1> DEFINE r == th[x]
           t == th[x].t
           L == {"inp", t}
<1>1. /\ TypeInv /\ r \in ThreadRec /\ RoleOK(x, r) /\ Placed(r)
      /\ r.at = "reset" /\ r.want = <<>> /\ UNCHANGED <<inp, calls>>
      /\ Unlock({"inp", t}) /\ Return(x)
  BY Here DEF ResetStart, At
<1>2. t \in Tcbs /\ tcb[t] \in TcbRec /\ ~tcb[t].dead /\ r.force = FALSE
  BY <1>1, Typed, WorkerFacts DEF RoleOK, Placed
<1>3. \A l \in Locks : Holds(r, l) <=> l \in L
  BY <1>1, <1>2, Tuples, ThreadFacts DEF Holds, HasInfo, HasInp, HasTcb
<1>4. \A u \in Tcbs : ~Refers(r, u)
  BY <1>1 DEF Refers
<1>5. PICK v, s : /\ v \in {tcb[t], StartReset(tcb[t])} /\ s \in {tcb[t].rxt, "queued"}
                  /\ tcb' = [tcb EXCEPT ![t] = [v EXCEPT !.rxt = s]]
  <2>1. CASE UNCHANGED tcb
    <3>1. tcb[t] = [tcb[t] EXCEPT !.rxt = tcb[t].rxt]
      BY <1>2 DEF TcbRec
    <3>2. tcb' = [tcb EXCEPT ![t] = tcb[t]]
      BY <1>1, <1>2, <2>1 DEF TypeInv
    <3>3. tcb' = [tcb EXCEPT ![t] = [tcb[t] EXCEPT !.rxt = tcb[t].rxt]]
      BY <3>1, <3>2
    <3> QED
      BY <3>3
  <2>2. CASE \E s \in {tcb[t].rxt, "queued"} :
                tcb' = [tcb EXCEPT ![t] = [StartReset(@) EXCEPT !.rxt = s]]
    BY <2>2
  <2> QED
    BY <2>1, <2>2 DEF ResetStart
<1> DEFINE w == [v EXCEPT !.rxt = s]
<1>6. /\ w \in TcbRec /\ w.ref = tcb[t].ref /\ w.alloc = tcb[t].alloc
      /\ w.dead = tcb[t].dead /\ w.about = tcb[t].about /\ w.accept = tcb[t].accept
      /\ w.kill # "off" \/ w.kill = tcb[t].kill
  <2>1. SlotOnly(tcb[t], v) /\ (v.kill # "off" \/ v.kill = tcb[t].kill)
    BY <1>2, <1>5, Slots DEF SlotOnly
  <2>2. s \in Timers
    BY <1>2, <1>5 DEF Timers, TcbRec
  <2>3. /\ w \in TcbRec /\ w.ref = v.ref /\ w.alloc = v.alloc /\ w.dead = v.dead
        /\ w.about = v.about /\ w.accept = v.accept /\ w.kill = v.kill
    BY <2>1, <2>2 DEF SlotOnly, TcbRec
  <2> QED
    BY <2>1, <2>3 DEF SlotOnly
<1>7. /\ tcb' \in [Tcbs -> TcbRec] /\ tcb'[t] = w
      /\ \A u \in Tcbs : u # t => tcb'[u] = tcb[u]
  <2>1. tcb' = [tcb EXCEPT ![t] = w]
    BY <1>5
  <2> HIDE DEF w
  <2> QED
    BY <1>1, <1>2, <1>6, <2>1, TcbStep
<1> HIDE DEF w
<1>8. \A u \in Tcbs : /\ tcb'[u].ref = tcb[u].ref /\ tcb'[u].alloc = tcb[u].alloc
                      /\ tcb'[u].dead = tcb[u].dead /\ tcb'[u].about = tcb[u].about
                      /\ tcb'[u].accept = tcb[u].accept /\ SlotKept(u)
  BY <1>2, <1>6, <1>7 DEF SlotKept
<1>9. \A u \in Tcbs : tcb'[u].ref = tcb[u].ref - Bit(Refers(th[x], u))
  BY <1>1, <1>4, <1>8, Typed DEF Bit
<1>10. owner' = [l \in Locks |-> IF l \in L THEN "none" ELSE owner[l]]
  BY <1>1 DEF Unlock
<1> HIDE DEF L
<1> QED
  BY <1>1, <1>3, <1>7, <1>8, <1>9, <1>10, WorkerReturns

\* A worker goes on inside a send, where it refers to its association; at refer it
\* comes to do so.
SendStep(x, l, w, L) ==
  /\ th[x].want = <<>>
  /\ \/ th[x].at = "refer" /\ L = {"inp", th[x].t}
     \/ th[x].at = "queue" /\ L = {th[x].t}
     \/ th[x].at = "copy" /\ L = {}
  /\ \/ l \in {"copy", "leave"} /\ w = <<>>
     \/ l \in {"queue", "userabort"} /\ w = <<th[x].t>>
  /\ Goto(x, l, w) /\ UNCHANGED <<inp, calls>>
  /\ owner' = [k \in Locks |-> IF k \in L THEN "none" ELSE owner[k]]
  /\ tcb' \in [Tcbs -> TcbRec]
  /\ \A u \in Tcbs : /\ tcb'[u].ref = tcb[u].ref + Bit(u = th[x].t /\ th[x].at = "refer")
                     /\ tcb'[u].alloc = tcb[u].alloc /\ tcb'[u].dead = tcb[u].dead
                     /\ tcb'[u].about = tcb[u].about /\ tcb'[u].accept = tcb[u].accept
                     /\ tcb'[u].kill = tcb[u].kill

LEMMA SendGoes ==
  ASSUME FreeInv, NEW x \in Threads, NEW l, NEW w, NEW L, SendStep(x, l, w, L)
  PROVE  FreeInv'
<1> USE DEF SendStep
<1> DEFINE q == th'[x]
           r == th[x]
           t == th[x].t
<1>1. TypeInv /\ r \in ThreadRec /\ RoleOK(x, r) /\ Placed(r)
  BY Here
<1>2. t \in Tcbs
  BY <1>1 DEF RoleOK
<1>3. /\ r.force = FALSE /\ r.ref = FALSE /\ ~Entering(r) /\ ~Serving(r)
      /\ x # "tick" /\ x # "close" /\ r.timer # "inpkill" /\ r.todo = {} /\ r.ret = "none"
  BY WorkerFacts
<1>4. \A k \in Locks : Holds(r, k) <=> \/ k = "inp" /\ r.at = "refer"
                                       \/ k = t /\ r.at \in {"refer", "queue"}
  BY <1>2, <1>3, Tuples, ThreadFacts DEF Holds, HasInfo, HasInp, HasTcb
<1>5. th' = [th EXCEPT ![x] = q] /\ Goes(q, r, l, w)
  <2>1. w \in Wants /\ l \in Labels
    BY <1>2, TupleTypes, ThreadFacts DEF Labels
  <2> QED
    BY <1>1, <2>1, GotoStep
<1> HIDE DEF q
<1>6. Moves(x, q, L)
  <2>1. WantOK(q)
    BY <1>3, <1>5 DEF Goes, WantOK
  <2>2. RoleOK(x, q)
    BY <1>1, <1>2, <1>3, <1>5 DEF Goes, RoleOK, InInp
  <2>3. \A k \in Locks : ~Holds(q, k)
    <3>1. l \in {"queue", "userabort"} => Len(q.want) = 1
      BY <1>5, Tuples DEF Goes
    <3> QED
      BY <1>3, <1>5, <3>1 DEF Goes, Holds, HasInfo, HasInp, HasTcb
  <2> QED
    BY <1>2, <1>4, <1>5, <2>1, <2>2, <2>3, ThreadFacts DEF Moves, Onward, Goes
<1>7. Counted(x, q)
  <2>1. /\ \A u \in Tcbs : (Refers(q, u) <=> u = t)
                           /\ (Refers(r, u) <=> u = t /\ r.at # "refer")
        /\ ~Entering(q) /\ ~Serving(q) /\ q.ref = r.ref
    BY <1>3, <1>5 DEF Goes, Refers, Entering, Serving
  <2>2. \A u \in Tcbs : tcb'[u].ref = tcb[u].ref + Bit(Refers(q, u)) - Bit(Refers(r, u))
    BY <1>1, <2>1, Typed DEF Bit
  <2> QED
    BY <1>1, <1>3, <2>1, <2>2, Typed DEF Counted, Bit, TypeInv
<1>8. Quiet(x, q)
  <2>1. Placed(q)
    BY <1>1, <1>3, <1>5 DEF Placed, InInp, Goes
  <2> QED
    BY <1>3, <1>5, <2>1 DEF Quiet, FreeInv, TcbStates, InpStates, Goes
<1>9. Parted(x, q)
  <2>1. CASE r.at # "refer"
    <3>1. q.t = r.t /\ {q.at, r.at} \subseteq {"copy", "queue", "leave", "userabort"}
      BY <1>5, <2>1 DEF Goes
    <3> QED
      BY <3>1, PartedSame DEF FreeInv
  <2>2. CASE r.at = "refer"
    <3>1. ASSUME NEW y \in Threads, y # x
          PROVE  th[y].at # "kill"
      <4>1. ~HasInp(th[y])
        BY <1>4, <2>2, <3>1, OneHolder, ThreadFacts DEF Holds
      <4> QED
        BY <4>1 DEF HasInp
    <3> QED
      BY <1>5, <3>1 DEF Goes, Parted, Apart
  <2> QED
    BY <2>1, <2>2
<1>10. Steady(x, q)
  BY <1>3, <1>5 DEF Goes, Steady
<1>11. Kept(x, q)
  BY WorkerFacts DEF Kept, Undisturbed
<1> QED
  BY <1>6, <1>7, <1>8, <1>9, <1>10, <1>11, StepInv

\* Of an association only the reference count is set, to n.
SetsRef(t, n) == tcb' = [tcb EXCEPT ![t].ref = n]
RefOnly(t, n) ==
  /\ tcb' \in [Tcbs -> TcbRec]
  /\ \A u \in Tcbs : /\ tcb'[u].ref = IF u = t THEN n ELSE tcb[u].ref
                     /\ tcb'[u].alloc = tcb[u].alloc
                     /\ tcb'[u].dead = tcb[u].dead /\ tcb'[u].about = tcb[u].about
                     /\ tcb'[u].accept = tcb[u].accept /\ tcb'[u].kill = tcb[u].kill

LEMMA TcbRefStep ==
  ASSUME TypeInv, NEW t \in Tcbs, NEW n \in Int, SetsRef(t, n)
  PROVE  RefOnly(t, n)
<1>1. tcb \in [Tcbs -> TcbRec] /\ tcb' = [tcb EXCEPT ![t].ref = n]
  BY DEF TypeInv, SetsRef
<1>2. /\ tcb' \in [Tcbs -> TcbRec]
      /\ \A u \in Tcbs : /\ tcb'[u].ref = IF u = t THEN n ELSE tcb[u].ref
                         /\ tcb'[u].alloc = tcb[u].alloc
                         /\ tcb'[u].dead = tcb[u].dead /\ tcb'[u].about = tcb[u].about
                         /\ tcb'[u].accept = tcb[u].accept /\ tcb'[u].kill = tcb[u].kill
  BY <1>1 DEF TcbRec
<1> QED
  BY <1>2 DEF RefOnly

LEMMA ReferInv ==
  ASSUME FreeInv, NEW x \in Threads, Refer(x)
  PROVE  FreeInv'
<1> DEFINE t == th[x].t
           l == IF tcb[t].about THEN "leave" ELSE "copy"
           n == tcb[t].ref + 1
<1>1. /\ TypeInv /\ RoleOK(x, th[x]) /\ th[x].at = "refer" /\ th[x].want = <<>>
      /\ UNCHANGED <<inp, calls>> /\ Unlock({"inp", t}) /\ Goto(x, l, <<>>)
  BY Here DEF Refer, At
<1>2. t \in Tcbs
  BY <1>1 DEF RoleOK
<1>3. n \in Int /\ tcb' = [tcb EXCEPT ![t].ref = n] /\ l \in {"copy", "leave"}
  BY <1>1, <1>2, Typed DEF Refer
<1> HIDE DEF l
<1>4. /\ tcb' \in [Tcbs -> TcbRec]
      /\ \A u \in Tcbs : /\ tcb'[u].ref = IF u = t THEN n ELSE tcb[u].ref
                         /\ tcb'[u].alloc = tcb[u].alloc
                         /\ tcb'[u].dead = tcb[u].dead /\ tcb'[u].about = tcb[u].about
                         /\ tcb'[u].accept = tcb[u].accept /\ tcb'[u].kill = tcb[u].kill
  <2>1. SetsRef(t, n)
    BY <1>3 DEF SetsRef
  <2>2. RefOnly(t, n)
    <3> HIDE DEF n, t
    <3> QED
      BY <1>1, <1>2, <1>3, <2>1, TcbRefStep
  <2> QED
    BY <2>2 DEF RefOnly
<1>5. \A u \in Tcbs : tcb'[u].ref = tcb[u].ref + Bit(u = t /\ th[x].at = "refer")
  BY <1>1, <1>4, Typed DEF Bit
<1>6. owner' = [k \in Locks |-> IF k \in {"inp", t} THEN "none" ELSE owner[k]]
  BY <1>1 DEF Unlock
<1>7. SendStep(x, l, <<>>, {"inp", t})
  BY <1>1, <1>3, <1>4, <1>5, <1>6 DEF SendStep
<1> QED
  BY <1>7, SendGoes

LEMMA CopiedInv ==
  ASSUME FreeInv, NEW x \in Threads, Copied(x)
  PROVE  FreeInv'
<1>1. /\ TypeInv /\ th[x].at = "copy" /\ th[x].want = <<>>
      /\ UNCHANGED <<tcb, inp, owner, calls>>
  BY Here DEF Copied, At
<1>2. PICK l \in {"leave", "queue", "userabort"} :
        Goto(x, l, IF l \in {"queue", "userabort"} THEN <<th[x].t>> ELSE <<>>)
  BY DEF Copied
<1>3. tcb' \in [Tcbs -> TcbRec]
  BY <1>1 DEF TypeInv
<1>4. \A u \in Tcbs : tcb'[u].ref = tcb[u].ref + Bit(u = th[x].t /\ th[x].at = "refer")
  BY <1>1, Typed DEF Bit
<1>5. owner' = [k \in Locks |-> IF k \in {} THEN "none" ELSE owner[k]]
  BY <1>1, NoUnlock
<1>6. SendStep(x, l, IF l \in {"queue", "userabort"} THEN <<th[x].t>> ELSE <<>>, {})
  BY <1>1, <1>2, <1>3, <1>4, <1>5 DEF SendStep
<1> QED
  BY <1>6, SendGoes

LEMMA QueueInv ==
  ASSUME FreeInv, NEW x \in Threads, Queue(x)
  PROVE  FreeInv'
<1> DEFINE t == th[x].t
<1>1. /\ TypeInv /\ RoleOK(x, th[x]) /\ th[x].at = "queue" /\ th[x].want = <<>>
      /\ UNCHANGED <<inp, calls>> /\ Unlock({t}) /\ Goto(x, "leave", <<>>)
  BY Here DEF Queue, At
<1>2. t \in Tcbs
  BY <1>1 DEF RoleOK
<1>3. PICK s \in {tcb[t].rxt} \cup (IF tcb[t].about THEN {} ELSE {"queued"}) :
        tcb' = [tcb EXCEPT ![t].rxt = s]
  BY DEF Queue
<1>4. s \in Timers
  BY <1>1, <1>2, Typed DEF Timers
<1>5. /\ tcb' \in [Tcbs -> TcbRec]
      /\ \A u \in Tcbs : /\ tcb'[u].ref = tcb[u].ref /\ tcb'[u].alloc = tcb[u].alloc
                         /\ tcb'[u].dead = tcb[u].dead /\ tcb'[u].about = tcb[u].about
                         /\ tcb'[u].accept = tcb[u].accept /\ tcb'[u].kill = tcb[u].kill
  BY <1>1, <1>2, <1>3, <1>4, RxtStep
<1>6. \A u \in Tcbs : tcb'[u].ref = tcb[u].ref + Bit(u = t /\ th[x].at = "refer")
  BY <1>1, <1>5, Typed DEF Bit
<1>7. owner' = [k \in Locks |-> IF k \in {t} THEN "none" ELSE owner[k]]
  BY <1>1 DEF Unlock
<1>8. SendStep(x, "leave", <<>>, {t})
  BY <1>1, <1>5, <1>6, <1>7 DEF SendStep
<1> QED
  BY <1>8, SendGoes

LEMMA LeaveInv ==
  ASSUME FreeInv, NEW x \in Threads, Leave(x)
  PROVE  FreeInv'
<1> DEFINE r == th[x]
           t == th[x].t
           n == tcb[t].ref - 1
           L == {}
<1>1. /\ TypeInv /\ RoleOK(x, r) /\ r.at = "leave" /\ r.want = <<>>
      /\ UNCHANGED <<inp, owner, calls>> /\ Return(x)
  BY Here DEF Leave, At
<1>2. t \in Tcbs
  BY <1>1 DEF RoleOK
<1>3. n \in Int /\ tcb' = [tcb EXCEPT ![t].ref = n]
  BY <1>1, <1>2, Typed DEF Leave
<1>4. /\ tcb' \in [Tcbs -> TcbRec]
      /\ \A u \in Tcbs : /\ tcb'[u].ref = IF u = t THEN n ELSE tcb[u].ref
                         /\ tcb'[u].alloc = tcb[u].alloc
                         /\ tcb'[u].dead = tcb[u].dead /\ tcb'[u].about = tcb[u].about
                         /\ tcb'[u].accept = tcb[u].accept /\ tcb'[u].kill = tcb[u].kill
  <2>1. SetsRef(t, n)
    BY <1>3 DEF SetsRef
  <2>2. RefOnly(t, n)
    <3> HIDE DEF n, t
    <3> QED
      BY <1>1, <1>2, <1>3, <2>1, TcbRefStep
  <2> QED
    BY <2>2 DEF RefOnly
<1>5. \A u \in Tcbs : tcb'[u].ref = tcb[u].ref - Bit(Refers(r, u))
  <2>1. \A u \in Tcbs : Refers(r, u) <=> u = t
    BY <1>1 DEF Refers
  <2> QED
    BY <1>1, <1>4, <2>1, Typed DEF Bit
<1>6. \A l \in Locks : Holds(r, l) <=> l \in L
  <2>1. r.force = FALSE
    BY <1>1, WorkerFacts
  <2> QED
    BY <1>1, <2>1 DEF Holds, HasInfo, HasInp, HasTcb
<1>7. owner' = [l \in Locks |-> IF l \in L THEN "none" ELSE owner[l]]
  BY <1>1, NoUnlock
<1>8. th[x].at \in SendLabels \cup PacketLabels /\ Return(x) /\ UNCHANGED <<inp, calls>>
  BY <1>1
<1> HIDE DEF r, t, n, L
<1>9. \A u \in Tcbs : /\ tcb'[u].ref = tcb[u].ref - Bit(Refers(th[x], u))
                     /\ tcb'[u].alloc = tcb[u].alloc /\ tcb'[u].dead = tcb[u].dead
                     /\ tcb'[u].about = tcb[u].about /\ tcb'[u].accept = tcb[u].accept
                     /\ tcb'[u].kill = tcb[u].kill
  BY <1>4, <1>5 DEF r
<1>10. \A l \in Locks : Holds(th[x], l) <=> l \in L
  BY <1>6 DEF r
<1>11. tcb' \in [Tcbs -> TcbRec]
  BY <1>4
<1> QED
  BY <1>7, <1>8, <1>9, <1>10, <1>11, WorkerReturns DEF SlotKept

LEMMA UserAbortInv ==
  ASSUME FreeInv, NEW x \in Threads, UserAbort(x)
  PROVE  FreeInv'
<1> DEFINE q == th'[x]
           r == th[x]
           t == th[x].t
           n == tcb[t].ref - 1
<1>1. /\ TypeInv /\ r \in ThreadRec /\ RoleOK(x, r) /\ Placed(r) /\ r.at = "userabort"
      /\ r.want = <<>> /\ UNCHANGED <<inp, owner, calls>> /\ Goto(x, "free", <<>>)
  BY Here DEF UserAbort, At
<1>2. t \in Tcbs
  BY <1>1 DEF RoleOK
<1>3. n \in Int /\ tcb' = [tcb EXCEPT ![t].ref = n]
  BY <1>1, <1>2, Typed DEF UserAbort
<1>4. /\ tcb' \in [Tcbs -> TcbRec]
      /\ \A u \in Tcbs : /\ tcb'[u].ref = IF u = t THEN n ELSE tcb[u].ref
                         /\ tcb'[u].alloc = tcb[u].alloc
                         /\ tcb'[u].dead = tcb[u].dead /\ tcb'[u].about = tcb[u].about
                         /\ tcb'[u].accept = tcb[u].accept /\ tcb'[u].kill = tcb[u].kill
  <2>1. SetsRef(t, n)
    BY <1>3 DEF SetsRef
  <2>2. RefOnly(t, n)
    <3> HIDE DEF n, t
    <3> QED
      BY <1>1, <1>2, <1>3, <2>1, TcbRefStep
  <2> QED
    BY <2>2 DEF RefOnly
<1>5. /\ r.force = FALSE /\ r.ref = FALSE /\ ~Entering(r) /\ ~Serving(r)
      /\ x # "tick" /\ x # "close" /\ r.timer # "inpkill" /\ r.todo = {} /\ r.ret = "none"
  BY <1>1, WorkerFacts
<1>6. th' = [th EXCEPT ![x] = q] /\ Goes(q, r, "free", <<>>)
  <2>1. <<>> \in Wants /\ "free" \in Labels
    BY DEF Wants, Labels
  <2> QED
    BY <1>1, <2>1, GotoStep
<1> HIDE DEF q
<1>7. Moves(x, q, {})
  <2>1. WantOK(q)
    BY <1>5, <1>6 DEF Goes, WantOK
  <2>2. RoleOK(x, q)
    BY <1>1, <1>2, <1>5, <1>6 DEF Goes, RoleOK, InInp
  <2>3. \A l \in Locks : (Holds(q, l) <=> l = t) /\ (Holds(r, l) <=> l = t)
    BY <1>1, <1>2, <1>5, <1>6, Tuples DEF Goes, Holds, HasInfo, HasInp, HasTcb
  <2> QED
    BY <1>1, <1>6, <2>1, <2>2, <2>3, NoUnlock DEF Moves, Onward, Goes
<1>8. Counted(x, q)
  <2>1. /\ \A u \in Tcbs : ~Refers(q, u) /\ (Refers(r, u) <=> u = t)
        /\ ~Entering(q) /\ ~Serving(q) /\ q.ref = r.ref
    BY <1>1, <1>5, <1>6 DEF Goes, Refers, Entering, Serving
  <2>2. \A u \in Tcbs : tcb'[u].ref = tcb[u].ref + Bit(Refers(q, u)) - Bit(Refers(r, u))
    BY <1>1, <1>4, <2>1, Typed DEF Bit
  <2> QED
    BY <1>1, <1>4, <1>5, <2>1, <2>2, Typed DEF Counted, Bit, TypeInv
<1>9. Quiet(x, q)
  <2>1. Placed(q)
    BY <1>1, <1>5, <1>6 DEF Placed, InInp, Goes
  <2> QED
    BY <1>1, <1>4, <1>5, <1>6, <2>1 DEF Quiet, FreeInv, TcbStates, InpStates, Goes
<1>10. Parted(x, q)
  BY <1>6, PartedOut DEF Goes
<1>11. Steady(x, q)
  BY <1>1, <1>5, <1>6 DEF Goes, Steady
<1>12. Kept(x, q)
  BY <1>1, <1>4, WorkerFacts DEF Kept, Undisturbed
<1> QED
  BY <1>7, <1>8, <1>9, <1>10, <1>11, <1>12, StepInv

LEMMA AcceptInv ==
  ASSUME FreeInv, NEW x \in Workers, Accept(x)
  PROVE  FreeInv'
<1>1. x \in Threads /\ x \notin {"tick", "close"}
  BY ThreadFacts
<1>2. /\ TypeInv /\ th[x] \in ThreadRec /\ RoleOK(x, th[x])
      /\ th[x].at = "idle" /\ th[x] = Idle /\ UNCHANGED <<inp, th, owner>>
  BY <1>1, Here DEF Accept, Call, At, RoleOK
<1>3. PICK t \in Linked : /\ tcb[t].about => AcceptAborted
                          /\ tcb' = [tcb EXCEPT ![t].accept = FALSE]
  BY DEF Accept
<1>4. t \in Tcbs
  BY DEF Linked
<1>5. /\ tcb' \in [Tcbs -> TcbRec]
      /\ \A u \in Tcbs : /\ tcb'[u].ref = tcb[u].ref /\ tcb'[u].alloc = tcb[u].alloc
                         /\ tcb'[u].dead = tcb[u].dead /\ tcb'[u].about = tcb[u].about
                         /\ tcb'[u].kill = tcb[u].kill
                         /\ u # t => tcb'[u].accept = tcb[u].accept
  <2>1. tcb \in [Tcbs -> TcbRec]
    BY <1>2 DEF TypeInv
  <2> QED
    BY <1>3, <1>4, <2>1 DEF TcbRec
<1>6. Moves(x, Idle, {})
  <2>1. th' = [th EXCEPT ![x] = Idle]
    BY <1>1, <1>2 DEF TypeInv
  <2> QED
    BY <1>1, <1>2, <2>1, NoUnlock, IdleOK, IdleRec DEF Moves, Onward
<1>7. Counted(x, Idle)
  <2>1. calls' \in [Workers -> 0..MaxCalls]
    BY <1>2, CallStep DEF Accept
  <2> QED
    BY <1>1, <1>2, <1>5, <2>1, IdleOK, IdleRec, Typed DEF Counted, Bit, TypeInv
<1>8. Quiet(x, Idle)
  BY <1>1, <1>2, <1>5, IdleOK, IdleRec DEF Quiet, FreeInv, TcbStates, InpStates
<1>9. Steady(x, Idle)
  BY <1>1, <1>2, IdleRec DEF Steady
<1>10. ~AcceptAborted => Kept(x, Idle)
  BY <1>1, <1>2, <1>3, <1>5, IdleOK DEF Kept, Undisturbed
<1> QED
  BY <1>1, <1>6, <1>7, <1>8, <1>9, <1>10, IdleOK, StepInv

LEMMA AbortStep ==
  ASSUME TypeInv, NEW x \in Threads, NEW b \in {TRUE, FALSE},
         th' = [th EXCEPT ![x].at = "inpfree", ![x].abort = b]
  PROVE  LET q == th'[x]  r == th[x] IN
         /\ th' = [th EXCEPT ![x] = q] /\ q \in ThreadRec
         /\ q.at = "inpfree" /\ q.want = r.want /\ q.t = r.t /\ q.force = r.force
         /\ q.todo = r.todo /\ q.left = r.left
         /\ q.ret = r.ret /\ q.timer = r.timer /\ q.ref = r.ref
<1> DEFINE q == th'[x]
           r == th[x]
           s == [r EXCEPT !.at = "inpfree", !.abort = b]
<1>1. th \in [Threads -> ThreadRec] /\ r \in ThreadRec /\ "inpfree" \in Labels
  BY DEF TypeInv, Labels
<1>2. s \in ThreadRec
  BY <1>1 DEF ThreadRec
<1>3. /\ s.at = "inpfree" /\ s.want = r.want /\ s.t = r.t /\ s.force = r.force
      /\ s.todo = r.todo /\ s.left = r.left
      /\ s.ret = r.ret /\ s.timer = r.timer /\ s.ref = r.ref
  BY <1>1 DEF ThreadRec
<1>4. th' = [th EXCEPT ![x] = s]
  BY <1>1
<1>5. th' = [th EXCEPT ![x] = q] /\ q = s
  BY <1>1, <1>4
<1> QED
  BY <1>2, <1>3, <1>5

LEMMA CloseInv ==
  ASSUME FreeInv, Close
  PROVE  FreeInv'
<1> DEFINE x == "close"
           q == th'[x]
<1>1. x \in Threads
  BY ThreadFacts
<1>2. /\ TypeInv /\ th[x] \in ThreadRec /\ RoleOK(x, th[x])
      /\ th[x].at = "idle" /\ th[x] = Idle /\ ~inp.gone /\ UNCHANGED <<tcb, owner, calls>>
  BY <1>1, Here DEF Close, At, RoleOK
<1>3. /\ th' = [th EXCEPT ![x] = q] /\ q \in ThreadRec /\ q.at = "inpfree" /\ q.want = <<>>
      /\ q.t = "none" /\ q.force = FALSE /\ q.todo = {} /\ q.left = FALSE /\ q.ret = "none"
      /\ q.timer = "none" /\ q.ref = FALSE
  <2>1. th \in [Threads -> ThreadRec] /\ "inpfree" \in Labels /\ "close" \in Threads
    BY <1>1, <1>2 DEF TypeInv, Labels
  <2>2. ASSUME NEW abort \in {TRUE, FALSE},
               th' = [th EXCEPT !["close"].at = "inpfree", !["close"].abort = abort]
        PROVE  /\ th' = [th EXCEPT !["close"] = q] /\ q \in ThreadRec /\ q.at = "inpfree"
               /\ q.want = th["close"].want /\ q.t = th["close"].t
               /\ q.force = th["close"].force /\ q.todo = th["close"].todo
               /\ q.left = th["close"].left /\ q.ret = th["close"].ret
               /\ q.timer = th["close"].timer /\ q.ref = th["close"].ref
    BY <1>2, <2>1, <2>2, AbortStep
  <2>3. /\ th' = [th EXCEPT !["close"] = q] /\ q \in ThreadRec /\ q.at = "inpfree"
        /\ q.want = th["close"].want /\ q.t = th["close"].t
        /\ q.force = th["close"].force /\ q.todo = th["close"].todo
        /\ q.left = th["close"].left /\ q.ret = th["close"].ret
        /\ q.timer = th["close"].timer /\ q.ref = th["close"].ref
    BY <2>2 DEF Close
  <2> HIDE DEF q
  <2> QED
    BY <1>2, <2>3, IdleRec
<1> HIDE DEF q
<1>4. /\ inp' \in InpRec /\ inp'.ref = inp.ref /\ inp'.kill = inp.kill
      /\ inp'.alloc = inp.alloc /\ inp'.allgone = inp.allgone
      /\ inp'.gone = TRUE /\ inp'.close_ip = TRUE
  BY <1>2 DEF Close, TypeInv, InpRec
<1>5. Moves(x, q, {})
  <2>1. WantOK(q)
    BY <1>3 DEF WantOK
  <2>2. RoleOK(x, q)
    BY <1>3, ThreadFacts DEF RoleOK, InInp
  <2>3. \A l \in Locks : ~Holds(q, l)
    BY <1>3 DEF Holds, HasInfo, HasInp, HasTcb
  <2> QED
    BY <1>1, <1>2, <1>3, <2>1, <2>2, <2>3, NoUnlock, IdleOK DEF Moves, Onward
<1>6. Counted(x, q)
  <2>1. /\ \A t \in Tcbs : ~Refers(q, t)
        /\ ~Entering(q) /\ ~Serving(q)
    BY <1>3 DEF Refers, Entering, Serving
  <2> QED
    BY <1>1, <1>2, <1>3, <1>4, <2>1, IdleRec, IdleOK, Typed DEF Counted, Bit, TypeInv
<1>7. Parted(x, q)
  BY <1>1, <1>3, PartedOut
<1>8. th'[x] = q /\ \A y \in Threads : y # x => th'[y] = th[y]
  BY <1>1, <1>2, <1>3, Moved
<1>9. TcbStates'
  BY <1>2 DEF FreeInv, TcbStates
<1>10. ~inp.allgone /\ inp.alloc
  BY <1>2, Typed DEF FreeInv, InpStates
<1>11. AllPlaced'
  <2>1. ASSUME NEW y \in Threads
        PROVE  Placed(th[y])'
    <3>1. CASE y = x
      BY <1>3, <1>4, <1>8, <3>1 DEF Placed, InInp
    <3>2. CASE y # x
      <4>1. Placed(th[y]) /\ RoleOK(y, th[y])
        BY Here
      <4>2. th[y].at \notin SendLabels
        BY <4>1 DEF RoleOK, Close
      <4> QED
        BY <1>2, <1>4, <1>8, <3>2, <4>1, <4>2 DEF Placed, InInp
    <3> QED
      BY <3>1, <3>2
  <2> QED
    BY <2>1 DEF AllPlaced
<1>12. InpStates'
  BY <1>2, <1>4, <1>10 DEF FreeInv, InpStates
<1>13. ASSUME ~SlowClose
       PROVE  OneDestroyer'
  <2>1. OneDestroyer
    BY <1>13 DEF FreeInv
  <2>2. th'["tick"].timer # "inpkill"
    <3>1. Placed(th["tick"])
      BY Here, ThreadFacts
    <3> QED
      BY <1>2, <1>8, <3>1, ThreadFacts DEF Placed
  <2>3. \A y \in Threads : th'[y].at = "inpdestroy" => th[y].at = "inpdestroy"
    BY <1>3, <1>8
  <2> QED
    BY <1>4, <1>10, <2>1, <2>2, <2>3 DEF OneDestroyer
<1>14. Kept(x, q)
  BY <1>2, <1>3, <1>4, IdleOK, <1>1 DEF Kept, Undisturbed, Visits
<1> QED
  BY <1>1, <1>5, <1>6, <1>7, <1>9, <1>11, <1>12, <1>13, <1>14, StepParts

-----------------------------------------------------------------------------
(* The timer thread *)

LEMMA TickFacts ==
  ASSUME FreeInv, th["tick"].at \in EarlyTick
  PROVE  LET r == th["tick"] IN
         /\ r \in ThreadRec /\ r.force = FALSE /\ r.ref = FALSE /\ r.ret = "none"
         /\ r.todo = {} /\ r.timer \in {"kill", "rxt", "inpkill"}
         /\ (r.timer = "inpkill" /\ r.t = "none") \/ (r.timer # "inpkill" /\ r.t \in Tcbs)
         /\ ~Entering(r) /\ (Serving(r) <=> r.at # "called")
         /\ \A t \in Tcbs : /\ ~Frees(r, t) /\ ~Visits(r, t)
                            /\ (Refers(r, t) <=> t = r.t /\ r.at # "called")
<1>1. RoleOK("tick", th["tick"]) /\ th["tick"] \in ThreadRec
  BY Here, ThreadFacts
<1> QED
  BY <1>1, ThreadFacts DEF RoleOK, InInp, Entering, Serving, Frees, Visits, Refers, ThreadRec

\* The reference on the association, if the timer has one.
TickSetsRef(t, n) == tcb' = IF t = "none" THEN tcb ELSE [tcb EXCEPT ![t].ref = n]

LEMMA TickRef ==
  ASSUME TypeInv, NEW t \in Tcbs \cup {"none"}, NEW n, t # "none" => n \in Int,
         TickSetsRef(t, n)
  PROVE  RefOnly(t, n)
<1>1. CASE t = "none"
  <2>1. tcb' = tcb
    BY <1>1 DEF TickSetsRef
  <2> QED
    BY <1>1, <2>1, ThreadFacts DEF TypeInv, RefOnly
<1>2. CASE t # "none"
  <2>1. t \in Tcbs /\ n \in Int /\ SetsRef(t, n)
    BY <1>2 DEF TickSetsRef, SetsRef
  <2> QED
    BY <2>1, TcbRefStep
<1> QED
  BY <1>1, <1>2

\* The timer thread goes away without serving the timer, and gives its references back.
LEMMA TickReturns ==
  ASSUME FreeInv, th["tick"].at \in {"referred", "checks"}, NEW L, Return("tick"),
         UNCHANGED calls,
         owner' = [l \in Locks |-> IF l \in L THEN "none" ELSE owner[l]],
         \A l \in Locks : Holds(th["tick"], l) <=> l \in L,
         tcb' = IF th["tick"].t = "none" THEN tcb
                ELSE [tcb EXCEPT ![th["tick"].t].ref = @ - 1],
         inp' = [inp EXCEPT !.ref = @ - 1]
  PROVE  FreeInv'
<1> DEFINE x == "tick"
           r == th[x]
           t == th[x].t
           m == tcb[t].ref - 1
           n == inp.ref - 1
<1>1. x \in Threads /\ TypeInv /\ r \in ThreadRec /\ inp.ref \in Int /\ n \in Int
  BY ThreadFacts, Here, Typed
<1>2. /\ r.ref = FALSE /\ ~Entering(r) /\ Serving(r)
      /\ \A u \in Tcbs : /\ ~Frees(r, u) /\ ~Visits(r, u)
                         /\ (Refers(r, u) <=> u = t)
      /\ t \in Tcbs \cup {"none"}
  BY TickFacts
<1>3. /\ tcb' = IF t = "none" THEN tcb ELSE [tcb EXCEPT ![t].ref = m]
      /\ t # "none" => m \in Int
  BY <1>1, <1>2, Typed
<1>4. /\ tcb' \in [Tcbs -> TcbRec]
      /\ \A u \in Tcbs : /\ tcb'[u].ref = IF u = t THEN m ELSE tcb[u].ref
                         /\ tcb'[u].alloc = tcb[u].alloc
                         /\ tcb'[u].dead = tcb[u].dead /\ tcb'[u].about = tcb[u].about
                         /\ tcb'[u].accept = tcb[u].accept /\ tcb'[u].kill = tcb[u].kill
  <2>1. TypeInv /\ t \in Tcbs \cup {"none"} /\ (t # "none" => m \in Int)
    BY <1>1, <1>2, <1>3
  <2>2. TickSetsRef(t, m)
    BY <1>3 DEF TickSetsRef
  <2>3. RefOnly(t, m)
    <3> HIDE DEF m, t
    <3> QED
      BY <2>1, <2>2, TickRef
  <2> QED
    BY <2>3 DEF RefOnly
<1>5. \A u \in Tcbs : tcb'[u].ref = tcb[u].ref - Bit(Refers(r, u))
  BY <1>1, <1>2, <1>4, Typed DEF Bit
<1>6. inp' = [inp EXCEPT !.ref = n]
  OBVIOUS
<1>7. n = inp.ref - Bit(r.ref) - Bit(Entering(r)) - Bit(Serving(r))
  BY <1>1, <1>2 DEF Bit
<1> HIDE DEF n
<1>8. /\ inp' \in InpRec /\ inp'.ref = n
      /\ inp'.alloc = inp.alloc /\ inp'.allgone = inp.allgone /\ inp'.gone = inp.gone
      /\ inp'.close_ip = inp.close_ip /\ inp'.kill = inp.kill
  BY <1>1, <1>6, InpStep
<1>9. inp.kill # "off" => inp.gone
  BY DEF FreeInv, InpStates
<1>10. inp'.ref = inp.ref - Bit(r.ref) - Bit(Entering(r)) - Bit(Serving(r))
  BY <1>7, <1>8
<1>11. Return(x) /\ r.at # "inpdestroy"
  OBVIOUS
<1>12. \A l \in Locks : Holds(r, l) <=> l \in L
  OBVIOUS
<1> HIDE DEF x
<1> QED
  BY <1>1, <1>2, <1>4, <1>5, <1>8, <1>9, <1>10, <1>11, <1>12, ReturnedTcb DEF SlotKept

LEMMA FireInv ==
  ASSUME FreeInv, NEW k \in {"kill", "rxt", "inpkill"}, NEW t \in Tcbs \cup {"none"},
         Fire(k, t)
  PROVE  FreeInv'
<1> DEFINE x == "tick"
           q == th'[x]
           s == [th[x] EXCEPT !.at = "called", !.timer = k, !.t = t]
<1>1. x \in Threads /\ x # "close"
  BY ThreadFacts
<1>2. /\ TypeInv /\ th[x] \in ThreadRec /\ RoleOK(x, th[x])
      /\ th[x].at = "idle" /\ th[x] = Idle /\ UNCHANGED <<owner, calls>>
  BY <1>1, Here DEF Fire, At, RoleOK
<1>3. (k = "inpkill" /\ t = "none") \/ (k # "inpkill" /\ t \in Tcbs)
  BY ThreadFacts DEF Fire
<1>4. /\ th' = [th EXCEPT ![x] = q] /\ q \in ThreadRec /\ q.at = "called" /\ q.want = <<>>
      /\ q.t = t /\ q.force = FALSE /\ q.todo = {} /\ q.left = FALSE /\ q.ret = "none"
      /\ q.timer = k /\ q.ref = FALSE
  <2>1. s \in ThreadRec
    BY <1>2 DEF ThreadRec, Labels
  <2>2. /\ s.at = "called" /\ s.want = th[x].want /\ s.t = t /\ s.force = th[x].force
        /\ s.todo = th[x].todo /\ s.left = th[x].left
        /\ s.ret = th[x].ret /\ s.timer = k /\ s.ref = th[x].ref
    BY <1>2 DEF ThreadRec
  <2>3. th \in [Threads -> ThreadRec]
    BY <1>2 DEF TypeInv
  <2>4. th' = [th EXCEPT ![x] = s]
    BY <2>3, <1>1 DEF Fire
  <2>5. th' = [th EXCEPT ![x] = q] /\ q = s
    BY <1>1, <2>3, <2>4
  <2>6. /\ th[x].want = <<>> /\ th[x].force = FALSE /\ th[x].todo = {}
        /\ th[x].left = FALSE /\ th[x].ret = "none" /\ th[x].ref = FALSE
    BY <1>2, IdleRec
  <2> HIDE DEF s
  <2> QED
    BY <2>1, <2>2, <2>5, <2>6
<1> HIDE DEF q, s
<1>5. /\ inp' \in InpRec /\ inp'.ref = inp.ref /\ inp'.gone = inp.gone
      /\ inp'.alloc = inp.alloc /\ inp'.allgone = inp.allgone /\ inp'.close_ip = inp.close_ip
      /\ inp'.kill # "off" => inp.kill # "off"
      /\ k = "inpkill" => inp.kill = "queued"
  BY <1>2 DEF Fire, Timer, SetTimer, TypeInv, InpRec, Timers
<1>6. /\ tcb' \in [Tcbs -> TcbRec]
      /\ \A u \in Tcbs : /\ tcb'[u].ref = tcb[u].ref /\ tcb'[u].alloc = tcb[u].alloc
                         /\ tcb'[u].dead = tcb[u].dead /\ tcb'[u].about = tcb[u].about
                         /\ tcb'[u].accept = tcb[u].accept
                         /\ (tcb'[u].kill = "off" <=> tcb[u].kill = "off")
  <2>1. tcb \in [Tcbs -> TcbRec]
    BY <1>2 DEF TypeInv
  <2>2. CASE k = "inpkill"
    BY <2>1, <2>2 DEF Fire, SetTimer
  <2>3. CASE k = "kill"
    <3>1. tcb' = [tcb EXCEPT ![t].kill = "fired"] /\ tcb[t].kill = "queued" /\ t \in Tcbs
      BY <1>3, <2>3 DEF Fire, SetTimer, Timer
    <3> QED
      BY <2>1, <3>1 DEF TcbRec, Timers
  <2>4. CASE k = "rxt"
    <3>1. tcb' = [tcb EXCEPT ![t].rxt = "fired"] /\ t \in Tcbs /\ "fired" \in Timers
      BY <1>3, <2>4 DEF Fire, SetTimer, Timers
    <3> QED
      BY <1>2, <3>1, RxtStep
  <2> QED
    BY <2>2, <2>3, <2>4
<1>7. Moves(x, q, {})
  <2>1. WantOK(q)
    BY <1>4 DEF WantOK
  <2>2. RoleOK(x, q)
    BY <1>1, <1>3, <1>4, ThreadFacts DEF RoleOK, InInp
  <2>3. \A l \in Locks : ~Holds(q, l)
    BY <1>4 DEF Holds, HasInfo, HasInp, HasTcb
  <2> QED
    BY <1>1, <1>2, <1>4, <2>1, <2>2, <2>3, NoUnlock, IdleOK DEF Moves, Onward
<1>8. Counted(x, q)
  <2>1. /\ \A u \in Tcbs : ~Refers(q, u)
        /\ ~Entering(q) /\ ~Serving(q)
    BY <1>4 DEF Refers, Entering, Serving
  <2> QED
    BY <1>1, <1>2, <1>4, <1>5, <1>6, <2>1, IdleRec, IdleOK, Typed DEF Counted, Bit, TypeInv
<1>9. inp.kill # "off" => inp.gone
  BY DEF FreeInv, InpStates
<1>10. Quiet(x, q)
  <2>1. Placed(q)
    BY <1>4, <1>5, <1>9 DEF Placed, InInp
  <2> QED
    BY <1>1, <1>4, <1>5, <1>6, <1>9, <2>1 DEF Quiet, FreeInv, TcbStates
<1>11. Parted(x, q)
  BY <1>1, <1>4, PartedOut
<1>12. ~SlowClose => Steady(x, q)
  <2>1. ASSUME ~SlowClose, k = "inpkill"
        PROVE  th["close"].at = "idle" /\ ~inp.allgone
    <3>1. th["close"].at = "idle" /\ th["tick"].at = "idle"
      BY <2>1 DEF Fire, At
    <3>2. inp.alloc
      BY <1>5, <2>1 DEF FreeInv, OneDestroyer
    <3>3. ~inp.allgone
      BY <2>1, <3>1, <3>2 DEF FreeInv, OneDestroyer
    <3> QED
      BY <3>1, <3>3
  <2> QED
    BY <1>1, <1>2, <1>4, <1>5, <2>1 DEF Steady
<1>13. Kept(x, q)
  BY <1>1, <1>2, <1>4, <1>5, <1>6, IdleOK DEF Kept, Undisturbed
<1> QED
  BY <1>1, <1>7, <1>8, <1>10, <1>11, <1>12, <1>13, StepInv

LEMMA TickReferInv ==
  ASSUME FreeInv, TickRefer
  PROVE  FreeInv'
<1> DEFINE x == "tick"
           q == th'[x]
           r == th[x]
           t == th[x].t
           n == inp.ref + 1
           m == tcb[t].ref + 1
<1>1. /\ x \in Threads /\ x # "close" /\ TypeInv /\ r \in ThreadRec /\ RoleOK(x, r)
      /\ Placed(r) /\ r.at = "called" /\ r.want = <<>> /\ UNCHANGED <<owner, calls>>
  BY ThreadFacts, Here DEF TickRefer, At
<1>2. /\ r.force = FALSE /\ r.ref = FALSE /\ r.ret = "none" /\ r.todo = {}
      /\ ~Entering(r) /\ ~Serving(r) /\ t \in Tcbs \cup {"none"}
      /\ \A u \in Tcbs : ~Frees(r, u) /\ ~Visits(r, u) /\ ~Refers(r, u)
  BY <1>1, TickFacts
<1>3. \A l \in Locks : ~Holds(r, l)
  BY <1>1, <1>2 DEF Holds, HasInfo, HasInp, HasTcb
<1>4. inp.kill # "off" => inp.gone
  BY DEF FreeInv, InpStates
<1>5. CASE Return(x) /\ UNCHANGED <<tcb, inp>>
  <2>1. inp' \in InpRec /\ inp' = inp
    BY <1>1, <1>5 DEF TypeInv
  <2>2. inp'.ref = inp.ref - Bit(r.ref) - Bit(Entering(r)) - Bit(Serving(r))
    BY <1>1, <1>2, <2>1, Typed DEF Bit
  <2> DEFINE L == {}
  <2>3. owner' = [l \in Locks |-> IF l \in L THEN "none" ELSE owner[l]]
    BY <1>1, NoUnlock
  <2>4. \A l \in Locks : Holds(r, l) <=> l \in L
    BY <1>3
  <2>5. Return(x) /\ UNCHANGED <<tcb, calls>> /\ r.at # "inpdestroy"
    BY <1>1, <1>5
  <2> HIDE DEF L, x
  <2> QED
    BY <1>1, <1>2, <1>4, <2>1, <2>2, <2>3, <2>4, <2>5, Returned
<1>6. CASE /\ inp' = [inp EXCEPT !.ref = @ + 1]
           /\ tcb' = IF t = "none" THEN tcb ELSE [tcb EXCEPT ![t].ref = @ + 1]
           /\ Goto("tick", "referred", <<>>)
  <2>1. th' = [th EXCEPT ![x] = q] /\ Goes(q, r, "referred", <<>>)
    <3>1. <<>> \in Wants /\ "referred" \in Labels
      BY DEF Labels, Wants
    <3> QED
      BY <1>1, <1>6, <3>1, GotoStep
  <2> HIDE DEF q
  <2>2. n \in Int /\ inp' = [inp EXCEPT !.ref = n]
    BY <1>1, <1>6, Typed
  <2>3. /\ inp' \in InpRec /\ inp'.ref = n
        /\ inp'.alloc = inp.alloc /\ inp'.allgone = inp.allgone /\ inp'.gone = inp.gone
        /\ inp'.close_ip = inp.close_ip /\ inp'.kill = inp.kill
    <3> HIDE DEF n
    <3> QED
      BY <1>1, <2>2, InpStep
  <2>4. /\ tcb' = IF t = "none" THEN tcb ELSE [tcb EXCEPT ![t].ref = m]
        /\ t # "none" => m \in Int
    BY <1>1, <1>2, <1>6, Typed
  <2>5. /\ tcb' \in [Tcbs -> TcbRec]
        /\ \A u \in Tcbs : /\ tcb'[u].ref = IF u = t THEN m ELSE tcb[u].ref
                           /\ tcb'[u].alloc = tcb[u].alloc
                           /\ tcb'[u].dead = tcb[u].dead /\ tcb'[u].about = tcb[u].about
                           /\ tcb'[u].accept = tcb[u].accept /\ tcb'[u].kill = tcb[u].kill
    <3>1. TypeInv /\ t \in Tcbs \cup {"none"} /\ (t # "none" => m \in Int)
      BY <1>1, <1>2, <2>4
    <3>2. TickSetsRef(t, m)
      BY <2>4 DEF TickSetsRef
    <3>3. RefOnly(t, m)
      <4> HIDE DEF m, t
      <4> QED
        BY <3>1, <3>2, TickRef
    <3> QED
      BY <3>3 DEF RefOnly
  <2>6. Moves(x, q, {})
    <3>1. WantOK(q)
      BY <1>2, <2>1 DEF Goes, WantOK
    <3>2. RoleOK(x, q)
      BY <1>1, <1>2, <2>1 DEF Goes, RoleOK, InInp
    <3>3. \A l \in Locks : ~Holds(q, l)
      BY <1>2, <2>1 DEF Goes, Holds, HasInfo, HasInp, HasTcb
    <3> QED
      BY <1>1, <1>3, <2>1, <3>1, <3>2, <3>3, NoUnlock DEF Moves, Onward, Goes
  <2>7. Counted(x, q)
    <3>1. /\ \A u \in Tcbs : Refers(q, u) <=> u = t
          /\ ~Entering(q) /\ Serving(q) /\ q.ref = FALSE
      BY <1>2, <2>1 DEF Goes, Refers, Entering, Serving
    <3>2. \A u \in Tcbs : tcb'[u].ref = tcb[u].ref + Bit(Refers(q, u)) - Bit(Refers(r, u))
      BY <1>1, <1>2, <2>5, <3>1, Typed DEF Bit
    <3> QED
      BY <1>1, <1>2, <2>3, <2>5, <3>1, <3>2, Typed DEF Counted, Bit, TypeInv
  <2>8. Quiet(x, q)
    <3>1. Placed(q)
      BY <1>1, <1>2, <2>1 DEF Placed, InInp, Goes
    <3> QED
      BY <1>1, <1>4, <2>1, <2>3, <2>5, <3>1 DEF Quiet, FreeInv, TcbStates, Goes
  <2>9. Parted(x, q)
    BY <1>1, <2>1, PartedOut DEF Goes
  <2>10. Steady(x, q)
    BY <1>1, <2>1, <2>3 DEF Steady, Goes
  <2>11. Kept(x, q)
    BY <1>1, <1>2, <2>3, <2>5 DEF Kept, Undisturbed
  <2> QED
    BY <1>1, <2>6, <2>7, <2>8, <2>9, <2>10, <2>11, StepInv
<1> QED
  BY <1>5, <1>6 DEF TickRefer

LEMMA TickActiveInv ==
  ASSUME FreeInv, TickActive
  PROVE  FreeInv'
<1> DEFINE x == "tick"
           q == th'[x]
           r == th[x]
           t == th[x].t
           w == IF t = "none" THEN <<>> ELSE <<t>>
<1>1. /\ x \in Threads /\ x # "close" /\ TypeInv /\ r \in ThreadRec /\ RoleOK(x, r)
      /\ Placed(r) /\ r.at = "referred" /\ r.want = <<>> /\ UNCHANGED <<owner, calls>>
  BY ThreadFacts, Here DEF TickActive, At
<1>2. /\ r.force = FALSE /\ r.ref = FALSE /\ r.ret = "none" /\ r.todo = {}
      /\ ~Entering(r) /\ Serving(r) /\ t \in Tcbs \cup {"none"}
      /\ \A u \in Tcbs : ~Frees(r, u) /\ ~Visits(r, u) /\ (Refers(r, u) <=> u = t)
  BY <1>1, TickFacts
<1>3. \A l \in Locks : ~Holds(r, l)
  BY <1>1, <1>2 DEF Holds, HasInfo, HasInp, HasTcb
<1>4. CASE /\ inp' = [inp EXCEPT !.ref = @ - 1]
           /\ tcb' = IF t = "none" THEN tcb ELSE [tcb EXCEPT ![t].ref = @ - 1]
           /\ Return("tick")
  <2> DEFINE L == {}
  <2>1. owner' = [l \in Locks |-> IF l \in L THEN "none" ELSE owner[l]]
    BY <1>1, NoUnlock
  <2>2. \A l \in Locks : Holds(r, l) <=> l \in L
    BY <1>3
  <2>3. th["tick"].at \in {"referred", "checks"} /\ UNCHANGED calls
    BY <1>1
  <2> HIDE DEF L
  <2> QED
    BY <1>4, <2>1, <2>2, <2>3, TickReturns
<1>5. CASE Goto("tick", "checks", w) /\ UNCHANGED <<tcb, inp>>
  <2>1. th' = [th EXCEPT ![x] = q] /\ Goes(q, r, "checks", w)
    <3>1. w \in Wants /\ "checks" \in Labels
      BY <1>2, TupleTypes, ThreadFacts DEF Labels
    <3> HIDE DEF w
    <3> QED
      BY <1>1, <1>5, <3>1, GotoStep
  <2> HIDE DEF q
  <2>2. Moves(x, q, {})
    <3>1. WantOK(q)
      BY <1>2, <2>1 DEF Goes, WantOK
    <3>2. RoleOK(x, q)
      BY <1>1, <1>2, <2>1 DEF Goes, RoleOK, InInp
    <3>3. \A l \in Locks : ~Holds(q, l)
      <4>1. t # "none" => Len(q.want) = 1
        BY <2>1, Tuples DEF Goes
      <4> QED
        BY <1>2, <2>1, <4>1, ThreadFacts DEF Goes, Holds, HasInfo, HasInp, HasTcb
    <3> QED
      BY <1>1, <1>3, <2>1, <3>1, <3>2, <3>3, NoUnlock DEF Moves, Onward, Goes
  <2>3. Counted(x, q)
    <3>1. /\ \A u \in Tcbs : Refers(q, u) <=> Refers(r, u)
          /\ ~Entering(q) /\ Serving(q) /\ q.ref = FALSE
      BY <1>2, <2>1 DEF Goes, Refers, Entering, Serving
    <3>2. calls' \in [Workers -> 0..MaxCalls]
      BY <1>1 DEF TypeInv
    <3> QED
      BY <1>1, <1>2, <1>5, <3>1, <3>2, CountedSame
  <2>4. Quiet(x, q)
    <3>1. Placed(q)
      BY <1>1, <1>2, <2>1 DEF Placed, InInp, Goes
    <3> QED
      BY <1>1, <1>5, <2>1, <3>1 DEF Quiet, FreeInv, TcbStates, InpStates, Goes
  <2>5. Parted(x, q)
    BY <1>1, <2>1, PartedOut DEF Goes
  <2>6. Steady(x, q)
    BY <1>1, <1>5, <2>1 DEF Steady, Goes
  <2>7. Kept(x, q)
    BY <1>1, <1>2, <1>5 DEF Kept, Undisturbed
  <2> QED
    BY <1>1, <2>2, <2>3, <2>4, <2>5, <2>6, <2>7, StepInv
<1> QED
  BY <1>4, <1>5 DEF TickActive

LEMMA TickDropInv ==
  ASSUME FreeInv, TickDrop
  PROVE  FreeInv'
<1> DEFINE r == th["tick"]
           t == th["tick"].t
           L == {t}
<1>1. r.at = "checks" /\ r.want = <<>> /\ UNCHANGED calls /\ Return("tick")
  BY DEF TickDrop, At
<1>2. r.force = FALSE /\ t \in Tcbs \cup {"none"}
  BY <1>1, TickFacts
<1>3. \A l \in Locks : Holds(r, l) <=> l \in L
  BY <1>1, <1>2, Tuples, ThreadFacts DEF Holds, HasInfo, HasInp, HasTcb, Locks
<1>4. owner' = [l \in Locks |-> IF l \in L THEN "none" ELSE owner[l]]
  BY DEF TickDrop, Unlock
<1>5. /\ tcb' = IF t = "none" THEN tcb ELSE [tcb EXCEPT ![t].ref = @ - 1]
      /\ inp' = [inp EXCEPT !.ref = @ - 1]
  BY DEF TickDrop
<1> HIDE DEF L
<1> QED
  BY <1>1, <1>3, <1>4, <1>5, TickReturns

LEMMA ExpiredInv ==
  ASSUME FreeInv, Expired
  PROVE  FreeInv'
<1> DEFINE x == "tick"
           q == th'[x]
           r == th[x]
           t == th[x].t
           n == inp.ref - 1
<1>1. /\ x \in Threads /\ x # "close" /\ TypeInv /\ r \in ThreadRec /\ RoleOK(x, r)
      /\ Placed(r) /\ r.at = "expired" /\ r.want = <<>> /\ UNCHANGED calls
  BY ThreadFacts, Here DEF Expired, At
<1>2. /\ r.force = FALSE /\ r.ref = TRUE /\ r.ret = "none" /\ r.todo = {} /\ t \in Tcbs
      /\ r.timer \in {"rxt", "kill"} /\ ~Entering(r) /\ ~Serving(r)
      /\ \A u \in Tcbs : ~Frees(r, u) /\ ~Visits(r, u) /\ ~Refers(r, u)
  BY <1>1 DEF RoleOK, InInp, Entering, Serving, Frees, Visits, Refers, ThreadRec
<1>3. \A l \in Locks : Holds(r, l) <=> l = t
  BY <1>1, <1>2 DEF Holds, HasInfo, HasInp, HasTcb
<1>4. inp.kill # "off" => inp.gone
  BY DEF FreeInv, InpStates
<1>5. CASE /\ \/ tcb' = [tcb EXCEPT ![t].rxt = "queued"]
              \/ tcb' = [tcb EXCEPT ![t] = StartReset(@)]
              \/ UNCHANGED tcb
           /\ inp' = [inp EXCEPT !.ref = @ - 1]
           /\ Unlock({t})
           /\ Return("tick")
  <2> DEFINE L == {t}
  <2>1. /\ tcb' \in [Tcbs -> TcbRec]
        /\ \A u \in Tcbs : /\ tcb'[u].ref = tcb[u].ref /\ tcb'[u].alloc = tcb[u].alloc
                           /\ tcb'[u].dead = tcb[u].dead /\ tcb'[u].about = tcb[u].about
                           /\ tcb'[u].accept = tcb[u].accept /\ SlotKept(u)
    <3>1. CASE tcb' = [tcb EXCEPT ![t].rxt = "queued"]
      <4>1. "queued" \in Timers
        BY DEF Timers
      <4> QED
        BY <1>1, <1>2, <3>1, <4>1, RxtStep DEF SlotKept
    <3>2. CASE tcb' = [tcb EXCEPT ![t] = StartReset(@)]
      <4> DEFINE s == StartReset(tcb[t])
      <4>1. SlotOnly(tcb[t], s) /\ s.kill = "queued" /\ ~tcb[t].dead
        BY <1>1, <1>2, Typed, Slots DEF Placed
      <4>2. tcb' = [tcb EXCEPT ![t] = s]
        BY <3>2
      <4> HIDE DEF s
      <4>3. /\ tcb' \in [Tcbs -> TcbRec] /\ tcb'[t] = s
            /\ \A u \in Tcbs : u # t => tcb'[u] = tcb[u]
        BY <1>1, <1>2, <4>1, <4>2, TcbStep DEF SlotOnly
      <4> QED
        BY <4>1, <4>3 DEF SlotKept, SlotOnly
    <3>3. CASE UNCHANGED tcb
      BY <1>1, <3>3 DEF TypeInv, SlotKept
    <3> QED
      BY <1>5, <3>1, <3>2, <3>3
  <2>2. \A u \in Tcbs : tcb'[u].ref = tcb[u].ref - Bit(Refers(r, u))
    BY <1>1, <1>2, <2>1, Typed DEF Bit
  <2>3. n \in Int /\ inp' = [inp EXCEPT !.ref = n]
    BY <1>1, <1>5, Typed
  <2>4. n = inp.ref - Bit(r.ref) - Bit(Entering(r)) - Bit(Serving(r))
    BY <1>1, <1>2, Typed DEF Bit
  <2> HIDE DEF n
  <2>5. /\ inp' \in InpRec /\ inp'.ref = n
        /\ inp'.alloc = inp.alloc /\ inp'.allgone = inp.allgone /\ inp'.gone = inp.gone
        /\ inp'.close_ip = inp.close_ip /\ inp'.kill = inp.kill
    BY <1>1, <2>3, InpStep
  <2>6. inp'.ref = inp.ref - Bit(r.ref) - Bit(Entering(r)) - Bit(Serving(r))
    BY <2>4, <2>5
  <2>7. Return(x) /\ r.at # "inpdestroy" /\ UNCHANGED calls
    BY <1>1, <1>5
  <2>8. owner' = [l \in Locks |-> IF l \in L THEN "none" ELSE owner[l]]
    BY <1>5 DEF Unlock
  <2>9. \A l \in Locks : Holds(r, l) <=> l \in L
    BY <1>3
  <2> HIDE DEF x, L
  <2> QED
    BY <1>1, <1>2, <1>4, <2>1, <2>2, <2>5, <2>6, <2>7, <2>8, <2>9, ReturnedTcb
<1>6. CASE Goto("tick", "free", <<>>) /\ UNCHANGED <<tcb, inp, owner>>
  <2>1. th' = [th EXCEPT ![x] = q] /\ Goes(q, r, "free", <<>>)
    <3>1. <<>> \in Wants /\ "free" \in Labels
      BY DEF Labels, Wants
    <3> QED
      BY <1>1, <1>6, <3>1, GotoStep
  <2> HIDE DEF q
  <2>2. Moves(x, q, {})
    <3>1. WantOK(q)
      BY <1>2, <2>1 DEF Goes, WantOK
    <3>2. RoleOK(x, q)
      BY <1>1, <1>2, <2>1 DEF Goes, RoleOK, InInp
    <3>3. \A l \in Locks : Holds(q, l) <=> l = t
      BY <1>2, <2>1 DEF Goes, Holds, HasInfo, HasInp, HasTcb
    <3> QED
      BY <1>1, <1>3, <1>6, <2>1, <3>1, <3>2, <3>3, NoUnlock DEF Moves, Onward, Goes
  <2>3. Counted(x, q)
    <3>1. /\ \A u \in Tcbs : ~Refers(q, u)
          /\ ~Entering(q) /\ ~Serving(q) /\ q.ref = TRUE
      BY <1>2, <2>1 DEF Goes, Refers, Entering, Serving
    <3>2. calls' \in [Workers -> 0..MaxCalls]
      BY <1>1 DEF TypeInv
    <3> QED
      BY <1>1, <1>2, <1>6, <3>1, <3>2, CountedSame
  <2>4. Quiet(x, q)
    <3>1. Placed(q)
      BY <1>1, <1>2, <2>1 DEF Placed, InInp, Goes
    <3> QED
      BY <1>1, <1>6, <2>1, <3>1 DEF Quiet, FreeInv, TcbStates, InpStates, Goes
  <2>5. Parted(x, q)
    BY <1>1, <2>1, PartedOut DEF Goes
  <2>6. Steady(x, q)
    BY <1>1, <1>2, <1>6, <2>1 DEF Steady, Goes
  <2>7. Kept(x, q)
    BY <1>1, <1>2, <1>6 DEF Kept, Undisturbed
  <2> QED
    BY <1>1, <2>2, <2>3, <2>4, <2>5, <2>6, <2>7, StepInv
<1> QED
  BY <1>5, <1>6 DEF Expired

\* The kill timer of an association frees it.
LEMMA KillServed ==
  ASSUME FreeInv, At("tick", "checks"), th["tick"].timer = "kill",
         tcb[th["tick"].t].kill = "fired",
         tcb' = [tcb EXCEPT ![th["tick"].t].ref = @ - 1, ![th["tick"].t].kill = "off"],
         inp' = [inp EXCEPT !.ref = @ - 1],
         Goto("tick", "free", <<>>), UNCHANGED <<owner, calls>>
  PROVE  FreeInv'
<1> DEFINE x == "tick"
           q == th'[x]
           r == th[x]
           t == th[x].t
           n == inp.ref - 1
           m == tcb[t].ref - 1
           s == [tcb[t] EXCEPT !.ref = m, !.kill = "off"]
<1>1. /\ x \in Threads /\ x # "close" /\ TypeInv /\ r \in ThreadRec /\ RoleOK(x, r)
      /\ Placed(r) /\ r.at = "checks" /\ r.want = <<>>
  BY ThreadFacts, Here DEF At
<1>2. /\ r.force = FALSE /\ r.ref = FALSE /\ r.ret = "none" /\ r.todo = {} /\ t \in Tcbs
      /\ ~Entering(r) /\ Serving(r) /\ r.timer = "kill"
      /\ \A u \in Tcbs : ~Frees(r, u) /\ ~Visits(r, u) /\ (Refers(r, u) <=> u = t)
  BY <1>1, TickFacts
<1>3. \A l \in Locks : Holds(r, l) <=> l = t
  BY <1>1, <1>2, Tuples DEF Holds, HasInfo, HasInp, HasTcb
<1>4. ~tcb[t].dead
  BY <1>2 DEF FreeInv, TcbStates
<1>5. ~inp.allgone /\ (inp.kill # "off" => inp.gone)
  BY <1>2, <1>4 DEF FreeInv, InpStates
<1>6. n \in Int /\ inp' = [inp EXCEPT !.ref = n]
  BY <1>1, Typed
<1>7. /\ inp' \in InpRec /\ inp'.ref = n
      /\ inp'.alloc = inp.alloc /\ inp'.allgone = inp.allgone /\ inp'.gone = inp.gone
      /\ inp'.close_ip = inp.close_ip /\ inp'.kill = inp.kill
  <2> HIDE DEF n
  <2> QED
    BY <1>1, <1>6, InpStep
<1>8. /\ tcb' \in [Tcbs -> TcbRec] /\ tcb'[t] = s
      /\ s.ref = m /\ s.dead = tcb[t].dead /\ s.alloc = tcb[t].alloc /\ s.kill = "off"
      /\ \A u \in Tcbs : u # t => tcb'[u] = tcb[u]
  <2>1. tcb[t] \in TcbRec /\ m \in Int /\ "off" \in Timers /\ tcb \in [Tcbs -> TcbRec]
    BY <1>1, <1>2, Typed DEF Timers, TypeInv
  <2>2. tcb' = [tcb EXCEPT ![t] = s]
    BY <1>2, <2>1
  <2>3. /\ s \in TcbRec /\ s.ref = m /\ s.dead = tcb[t].dead
        /\ s.alloc = tcb[t].alloc /\ s.kill = "off"
    <3> HIDE DEF m
    <3> QED
      BY <2>1 DEF TcbRec
  <2> HIDE DEF s, t
  <2> QED
    BY <1>1, <1>2, <2>2, <2>3, TcbStep
<1>9. th' = [th EXCEPT ![x] = q] /\ Goes(q, r, "free", <<>>)
  <2>1. <<>> \in Wants /\ "free" \in Labels
    BY DEF Labels, Wants
  <2> QED
    BY <1>1, <2>1, GotoStep
<1> HIDE DEF q, s
<1>10. Moves(x, q, {})
  <2>1. WantOK(q)
    BY <1>2, <1>9 DEF Goes, WantOK
  <2>2. RoleOK(x, q)
    BY <1>1, <1>2, <1>9 DEF Goes, RoleOK, InInp
  <2>3. \A l \in Locks : Holds(q, l) <=> l = t
    BY <1>2, <1>9 DEF Goes, Holds, HasInfo, HasInp, HasTcb
  <2> QED
    BY <1>1, <1>3, <1>9, <2>1, <2>2, <2>3, NoUnlock DEF Moves, Onward, Goes
<1>11. Counted(x, q)
  <2>1. /\ \A u \in Tcbs : ~Refers(q, u)
        /\ ~Entering(q) /\ ~Serving(q) /\ q.ref = FALSE
    BY <1>2, <1>9 DEF Goes, Refers, Entering, Serving
  <2>2. \A u \in Tcbs : tcb'[u].ref = tcb[u].ref + Bit(Refers(q, u)) - Bit(Refers(r, u))
    BY <1>1, <1>2, <1>8, <2>1, Typed DEF Bit
  <2> QED
    BY <1>1, <1>2, <1>7, <1>8, <2>1, <2>2, Typed DEF Counted, Bit, TypeInv
<1>12. Quiet(x, q)
  <2>1. Placed(q)
    BY <1>1, <1>2, <1>4, <1>9 DEF Placed, InInp, Goes
  <2> QED
    BY <1>1, <1>2, <1>5, <1>7, <1>8, <1>9, <2>1 DEF Quiet, FreeInv, TcbStates, Goes
<1>13. Parted(x, q)
  BY <1>1, <1>9, PartedOut DEF Goes
<1>14. Steady(x, q)
  BY <1>1, <1>2, <1>5, <1>7, <1>9 DEF Steady, Goes
<1>15. Kept(x, q)
  <2>1. Frees(q, t)
    BY <1>9 DEF Goes, Frees
  <2> QED
    BY <1>1, <1>2, <1>7, <1>8, <2>1 DEF Kept, Undisturbed
<1> QED
  BY <1>1, <1>10, <1>11, <1>12, <1>13, <1>14, <1>15, StepInv

\* A protocol timer: the reference on the endpoint stays with the timer thread.
LEMMA RxtServed ==
  ASSUME FreeInv, At("tick", "checks"), NEW k \in {"rxt", "kill"}, th["tick"].timer = k,
         ~tcb[th["tick"].t].dead, ~tcb[th["tick"].t].about,
         tcb' = IF k = "kill"
                THEN [tcb EXCEPT ![th["tick"].t].ref = @ - 1, ![th["tick"].t].kill = "off"]
                ELSE [tcb EXCEPT ![th["tick"].t].ref = @ - 1, ![th["tick"].t].rxt = "off"],
         th' = [th EXCEPT !["tick"].at = "expired", !["tick"].ref = TRUE],
         UNCHANGED <<inp, owner, calls>>
  PROVE  FreeInv'
<1> DEFINE x == "tick"
           q == th'[x]
           r == th[x]
           t == th[x].t
           m == tcb[t].ref - 1
           s == IF k = "kill" THEN [tcb[t] EXCEPT !.ref = m, !.kill = "off"]
                ELSE [tcb[t] EXCEPT !.ref = m, !.rxt = "off"]
           p == [r EXCEPT !.at = "expired", !.ref = TRUE]
<1>1. /\ x \in Threads /\ x # "close" /\ TypeInv /\ r \in ThreadRec /\ RoleOK(x, r)
      /\ Placed(r) /\ r.at = "checks" /\ r.want = <<>>
  BY ThreadFacts, Here DEF At
<1>2. /\ r.force = FALSE /\ r.ref = FALSE /\ r.ret = "none" /\ r.todo = {} /\ t \in Tcbs
      /\ ~Entering(r) /\ Serving(r) /\ r.timer = k
      /\ \A u \in Tcbs : ~Frees(r, u) /\ ~Visits(r, u) /\ (Refers(r, u) <=> u = t)
  BY <1>1, TickFacts
<1>3. \A l \in Locks : Holds(r, l) <=> l = t
  BY <1>1, <1>2, Tuples DEF Holds, HasInfo, HasInp, HasTcb
<1>4. ~inp.allgone /\ (inp.kill # "off" => inp.gone)
  BY <1>2 DEF FreeInv, InpStates
<1>5. /\ tcb' \in [Tcbs -> TcbRec] /\ tcb'[t] = s
      /\ s.ref = m /\ s.dead = tcb[t].dead /\ s.alloc = tcb[t].alloc
      /\ s.about = tcb[t].about /\ s.accept = tcb[t].accept /\ s.kill \in {"off", tcb[t].kill}
      /\ \A u \in Tcbs : u # t => tcb'[u] = tcb[u]
  <2>1. tcb[t] \in TcbRec /\ m \in Int /\ "off" \in Timers /\ tcb \in [Tcbs -> TcbRec]
    BY <1>1, <1>2, Typed DEF Timers, TypeInv
  <2>2. tcb' = [tcb EXCEPT ![t] = s]
    BY <1>2, <2>1
  <2>3. /\ s \in TcbRec /\ s.ref = m /\ s.dead = tcb[t].dead
        /\ s.alloc = tcb[t].alloc
        /\ s.about = tcb[t].about /\ s.accept = tcb[t].accept
        /\ s.kill \in {"off", tcb[t].kill}
    <3> HIDE DEF m
    <3>1. CASE k = "kill"
      <4>1. s = [tcb[t] EXCEPT !.ref = m, !.kill = "off"]
        BY <3>1
      <4> HIDE DEF s, t
      <4> QED
        BY <2>1, <4>1 DEF TcbRec
    <3>2. CASE k # "kill"
      <4>1. s = [tcb[t] EXCEPT !.ref = m, !.rxt = "off"]
        BY <3>2
      <4> HIDE DEF s, t
      <4> QED
        BY <2>1, <4>1 DEF TcbRec
    <3> QED
      BY <3>1, <3>2
  <2> HIDE DEF s, t
  <2> QED
    BY <1>1, <1>2, <2>2, <2>3, TcbStep
<1>6. /\ th' = [th EXCEPT ![x] = q] /\ q \in ThreadRec
      /\ q.at = "expired" /\ q.want = <<>> /\ q.t = r.t /\ q.force = FALSE
      /\ q.todo = {} /\ q.ret = "none" /\ q.timer = k /\ q.ref = TRUE
  <2>1. th \in [Threads -> ThreadRec] /\ "expired" \in Labels
    BY <1>1 DEF TypeInv, Labels
  <2>2. p \in ThreadRec
    BY <1>1, <2>1 DEF ThreadRec
  <2>3. /\ p.at = "expired" /\ p.want = r.want /\ p.t = r.t /\ p.force = r.force
        /\ p.todo = r.todo /\ p.ret = r.ret /\ p.timer = r.timer /\ p.ref = TRUE
    BY <1>1 DEF ThreadRec
  <2>4. th' = [th EXCEPT ![x] = p]
    BY <1>1, <2>1
  <2>5. th' = [th EXCEPT ![x] = q] /\ q = p
    BY <1>1, <2>1, <2>4
  <2> HIDE DEF p
  <2> QED
    BY <1>1, <1>2, <2>2, <2>3, <2>5
<1> HIDE DEF q, s, p
<1>7. Moves(x, q, {})
  <2>1. WantOK(q)
    BY <1>6 DEF WantOK
  <2>2. RoleOK(x, q)
    BY <1>1, <1>2, <1>6 DEF RoleOK, InInp
  <2>3. \A l \in Locks : Holds(q, l) <=> l = t
    BY <1>2, <1>6 DEF Holds, HasInfo, HasInp, HasTcb
  <2> QED
    BY <1>1, <1>3, <1>6, <2>1, <2>2, <2>3, NoUnlock DEF Moves, Onward
<1>8. Counted(x, q)
  <2>1. /\ \A u \in Tcbs : ~Refers(q, u)
        /\ ~Entering(q) /\ ~Serving(q)
    BY <1>6 DEF Refers, Entering, Serving
  <2>2. \A u \in Tcbs : tcb'[u].ref = tcb[u].ref + Bit(Refers(q, u)) - Bit(Refers(r, u))
    BY <1>1, <1>2, <1>5, <2>1, Typed DEF Bit
  <2> QED
    BY <1>1, <1>2, <1>5, <1>6, <2>1, <2>2, Typed DEF Counted, Bit, TypeInv
<1>9. Quiet(x, q)
  <2>1. Placed(q)
    BY <1>1, <1>2, <1>6 DEF Placed, InInp
  <2> QED
    BY <1>1, <1>2, <1>4, <1>5, <1>6, <2>1 DEF Quiet, FreeInv, TcbStates
<1>10. Parted(x, q)
  BY <1>1, <1>6, PartedOut
<1>11. Steady(x, q)
  BY <1>1, <1>2, <1>4, <1>6 DEF Steady
<1>12. Kept(x, q)
  BY <1>1, <1>2, <1>5 DEF Kept, Undisturbed
<1> QED
  BY <1>1, <1>7, <1>8, <1>9, <1>10, <1>11, <1>12, StepInv

\* The kill timer of the endpoint calls sctp_inpcb_free, to abort.
LEMMA InpKillServed ==
  ASSUME FreeInv, At("tick", "checks"), th["tick"].timer = "inpkill",
         inp' = [inp EXCEPT !.ref = @ - 1, !.kill = "off"],
         th' = [th EXCEPT !["tick"].at = "inpfree", !["tick"].abort = TRUE],
         UNCHANGED <<tcb, owner, calls>>
  PROVE  FreeInv'
<1> DEFINE x == "tick"
           q == th'[x]
           r == th[x]
           n == inp.ref - 1
<1>1. /\ x \in Threads /\ x # "close" /\ TypeInv /\ r \in ThreadRec /\ RoleOK(x, r)
      /\ Placed(r) /\ r.at = "checks" /\ r.want = <<>>
  BY ThreadFacts, Here DEF At
<1>2. /\ r.force = FALSE /\ r.ref = FALSE /\ r.ret = "none" /\ r.todo = {} /\ r.t = "none"
      /\ ~Entering(r) /\ Serving(r) /\ r.timer = "inpkill"
      /\ \A u \in Tcbs : ~Frees(r, u) /\ ~Visits(r, u) /\ ~Refers(r, u)
  BY <1>1, TickFacts, ThreadFacts
<1>3. \A l \in Locks : ~Holds(r, l)
  BY <1>1, <1>2, ThreadFacts DEF Holds, HasInfo, HasInp, HasTcb
<1>4. inp.gone
  BY <1>1, <1>2 DEF Placed
<1>5. /\ inp' \in InpRec /\ inp'.ref = n
      /\ inp'.alloc = inp.alloc /\ inp'.allgone = inp.allgone /\ inp'.gone = inp.gone
      /\ inp'.close_ip = inp.close_ip /\ inp'.kill = "off"
  <2>1. n \in Int /\ inp' = [inp EXCEPT !.ref = n, !.kill = "off"] /\ "off" \in Timers
    BY <1>1, Typed DEF Timers
  <2> HIDE DEF n
  <2> QED
    BY <1>1, <2>1 DEF TypeInv, InpRec
<1>6. /\ th' = [th EXCEPT ![x] = q] /\ q \in ThreadRec
      /\ q.at = "inpfree" /\ q.want = r.want /\ q.t = r.t /\ q.force = r.force
      /\ q.todo = r.todo /\ q.left = r.left
      /\ q.ret = r.ret /\ q.timer = r.timer /\ q.ref = r.ref
  BY <1>1, AbortStep
<1> HIDE DEF q
<1>7. Moves(x, q, {})
  <2>1. WantOK(q)
    BY <1>1, <1>2, <1>6 DEF WantOK
  <2>2. RoleOK(x, q)
    BY <1>1, <1>2, <1>6 DEF RoleOK, InInp
  <2>3. \A l \in Locks : ~Holds(q, l)
    BY <1>2, <1>6 DEF Holds, HasInfo, HasInp, HasTcb
  <2> QED
    BY <1>1, <1>3, <1>6, <2>1, <2>2, <2>3, NoUnlock DEF Moves, Onward
<1>8. Counted(x, q)
  <2>1. /\ \A u \in Tcbs : ~Refers(q, u)
        /\ ~Entering(q) /\ ~Serving(q)
    BY <1>2, <1>6 DEF Refers, Entering, Serving
  <2>2. \A u \in Tcbs : tcb'[u].ref = tcb[u].ref + Bit(Refers(q, u)) - Bit(Refers(r, u))
    BY <1>1, <1>2, <2>1, Typed DEF Bit
  <2> QED
    BY <1>1, <1>2, <1>5, <1>6, <2>1, <2>2, Typed DEF Counted, Bit, TypeInv
<1>9. Quiet(x, q)
  <2>1. Placed(q)
    BY <1>2, <1>4, <1>6 DEF Placed, InInp
  <2> QED
    BY <1>1, <1>5, <1>6, <2>1 DEF Quiet, FreeInv, TcbStates
<1>10. Parted(x, q)
  BY <1>1, <1>6, PartedOut
<1>11. ~SlowClose => Steady(x, q)
  <2>1. ASSUME ~SlowClose
        PROVE  ~inp.allgone
    BY <1>1, <1>2, <2>1 DEF FreeInv, OneDestroyer
  <2> QED
    BY <1>1, <1>2, <1>5, <1>6, <2>1 DEF Steady
<1>12. Kept(x, q)
  BY <1>1, <1>2, <1>5, <1>6 DEF Kept, Undisturbed
<1> QED
  BY <1>1, <1>7, <1>8, <1>9, <1>10, <1>11, <1>12, StepInv

LEMMA TickServeInv ==
  ASSUME FreeInv, TickServe
  PROVE  FreeInv'
<1> DEFINE k == th["tick"].timer
           t == th["tick"].t
<1>1. /\ k = "kill" => Timer(k, t) = tcb[t].kill
      /\ Wanted(k, t) /\ UNCHANGED <<owner, calls>> /\ At("tick", "checks")
  BY DEF TickServe, Timer
<1>2. CASE /\ k = "kill" /\ ~Resets(k, t)
           /\ tcb' = [tcb EXCEPT ![t].ref = @ - 1, ![t].kill = "off"]
           /\ inp' = [inp EXCEPT !.ref = @ - 1]
           /\ Goto("tick", "free", <<>>)
  <2>1. tcb[t].kill = "fired"
    BY <1>1, <1>2 DEF Wanted
  <2> QED
    BY <1>1, <1>2, <2>1, KillServed
<1>3. CASE /\ Protocol(k, t)
           /\ tcb' = IF k = "kill" THEN [tcb EXCEPT ![t].ref = @ - 1, ![t].kill = "off"]
                     ELSE [tcb EXCEPT ![t].ref = @ - 1, ![t].rxt = "off"]
           /\ th' = [th EXCEPT !["tick"].at = "expired", !["tick"].ref = TRUE]
           /\ UNCHANGED inp
  <2>1. k \in {"rxt", "kill"} /\ ~tcb[t].dead /\ ~tcb[t].about
    BY <1>1, <1>3 DEF Wanted, Protocol, Resets
  <2> QED
    BY <1>1, <1>3, <2>1, RxtServed
<1>4. CASE /\ k = "inpkill"
           /\ inp' = [inp EXCEPT !.ref = @ - 1, !.kill = "off"]
           /\ th' = [th EXCEPT !["tick"].at = "inpfree", !["tick"].abort = TRUE]
           /\ UNCHANGED tcb
  BY <1>1, <1>4, InpKillServed
<1> QED
  BY <1>2, <1>3, <1>4 DEF TickServe

-----------------------------------------------------------------------------
(* The theorems *)

LEMMA InitInv == Init => FreeInv
<1> SUFFICES ASSUME Init PROVE FreeInv
  OBVIOUS
<1>1. PICK b \in BOOLEAN : tcb = [t \in Tcbs |-> NewTcb(b)]
  BY DEF Init
<1>2. /\ inp = [alloc |-> TRUE, allgone |-> FALSE, gone |-> FALSE, close_ip |-> FALSE,
                ref |-> 0, kill |-> "off"]
      /\ th = [x \in Threads |-> Idle]
      /\ owner = [l \in Locks |-> "none"]
      /\ calls = [x \in Workers |-> 0]
  BY DEF Init
<1>3. /\ inp \in InpRec /\ inp.alloc = TRUE /\ inp.allgone = FALSE /\ inp.gone = FALSE
      /\ inp.ref = 0 /\ inp.kill = "off"
  BY <1>2 DEF InpRec, Timers
<1>4. /\ tcb \in [Tcbs -> TcbRec]
      /\ \A t \in Tcbs : /\ tcb[t].alloc = TRUE /\ tcb[t].dead = FALSE
                         /\ tcb[t].about = FALSE /\ tcb[t].ref = 0 /\ tcb[t].kill = "off"
  <2>1. /\ NewTcb(b) \in TcbRec /\ NewTcb(b).alloc = TRUE /\ NewTcb(b).dead = FALSE
        /\ NewTcb(b).about = FALSE /\ NewTcb(b).ref = 0 /\ NewTcb(b).kill = "off"
    BY DEF NewTcb, TcbRec, Timers, Uses
  <2> QED
    BY <1>1, <2>1
<1>5. \A x \in Threads : th[x] = Idle
  BY <1>2
<1>6. TypeInv
  <2>1. 0 \in 0..MaxCalls
    BY FreeAssumption
  <2> QED
    BY <1>2, <1>3, <1>4, <2>1, IdleRec DEF TypeInv
<1>7. Shape /\ AllPlaced
  BY <1>5, IdleOK DEF Shape, AllPlaced
<1>8. LocksHeld
  BY <1>2, <1>5, IdleOK, ThreadFacts DEF LocksHeld
<1>9. TcbRefs
  <2>1. \A t \in Tcbs : Holders(t) = {}
    BY <1>5, IdleOK DEF Holders
  <2> QED
    BY <1>4, <2>1, FS_EmptySet DEF TcbRefs
<1>10. InpRefs
  <2>1. {x \in Threads : th[x].ref} = {} /\ {x \in Threads : Entering(th[x])} = {}
    BY <1>5, IdleOK, IdleRec
  <2>2. ~Serving(th["tick"])
    BY <1>5, IdleOK, ThreadFacts
  <2>3. /\ Cardinality({x \in Threads : th[x].ref}) = 0
        /\ Cardinality({x \in Threads : Entering(th[x])}) = 0
    BY <2>1, FS_EmptySet
  <2>4. Bit(Serving(th["tick"])) = 0
    BY <2>2 DEF Bit
  <2> QED
    BY <1>3, <2>3, <2>4 DEF InpRefs
<1>11. TypeOK
  BY <1>6, <1>9, <1>10, TypeWhole
<1>12. TcbStates /\ WillBeFreed
  BY <1>4 DEF TcbStates, WillBeFreed
<1>13. Alone
  BY <1>5, IdleRec DEF Alone, Apart
<1>14. InpStates /\ OneDestroyer
  BY <1>3, <1>5, IdleRec, ThreadFacts DEF InpStates, OneDestroyer
<1> QED
  BY <1>7, <1>8, <1>9, <1>10, <1>11, <1>12, <1>13, <1>14 DEF FreeInv

LEMMA Unmoved ==
  ASSUME FreeInv, UNCHANGED vars
  PROVE  FreeInv'
<1> USE DEF vars
<1>1. TypeOK' /\ LocksHeld' /\ TcbRefs' /\ InpRefs' /\ TcbStates'
  BY DEF FreeInv, TypeOK, LocksHeld, Holds, HasInfo, HasInp, HasTcb, TcbRefs,
         Holders, Refers, InpRefs, Entering, Serving, TcbStates
<1>2. Shape' /\ AllPlaced' /\ Alone' /\ InpStates'
  BY DEF FreeInv, Shape, WantOK, RoleOK, InInp, AllPlaced, Placed, Alone, Apart, InpStates
<1>3. (OneDestroyer => OneDestroyer') /\ (WillBeFreed => WillBeFreed')
  BY DEF OneDestroyer, WillBeFreed, Reason, Frees, Visits
<1> QED
  BY <1>1, <1>2, <1>3 DEF FreeInv

LEMMA NextInv == FreeInv /\ SlotInv /\ [Next]_vars => FreeInv'
<1> SUFFICES ASSUME FreeInv, Lively, [Next]_vars PROVE FreeInv'
  BY DEF SlotInv
<1>1. ASSUME NEW x \in Threads, Acquire(x) \/ Free(x) PROVE FreeInv'
  BY <1>1, AcquireInv, FreeAssocInv, FreeCheckInv, FreeKillInv, FreeDestroyInv, CallbackInv,
     InpFreeInv, InpEnterInv, InpNextInv, InpEachInv, InpDecideInv, InpDestroyInv DEF Free
<1>2. ASSUME NEW x \in Workers,
             Packet(x) \/ Send(x) \/ ResetStreams(x) \/ Accept(x) \/ Work(x)
      PROVE  FreeInv'
  <2>1. x \in Threads
    BY ThreadFacts
  <2> QED
    BY <1>2, <2>1, PacketInv, SendInv, AcceptInv, LookupInv, FoundInv, InputInv, FirstInv,
       ReferInv, CopiedInv, QueueInv, LeaveInv, UserAbortInv, ResetStreamsInv, PickInv,
       ResetStartInv DEF Work
<1>3. CASE Tick
  BY <1>3, TickReferInv, TickActiveInv, TickDropInv, TickServeInv, ExpiredInv DEF Tick
<1>4. CASE Fires
  BY <1>4, FireInv DEF Fires
<1>5. CASE UNCHANGED vars
  BY <1>5, Unmoved
<1> QED
  BY <1>1, <1>2, <1>3, <1>4, <1>5, CloseInv DEF Next

-----------------------------------------------------------------------------
(* The shared callout *)

\* The step makes nothing about to be freed, starts no callout and brings no thread
\* where it would work with an association.
Calm ==
  /\ \A y \in Threads : th'[y].at \in {"locked", "expired"} =>
        th'[y].at = th[y].at /\ th'[y].t = th[y].t
  /\ \A t \in Tcbs : /\ tcb'[t].about = tcb[t].about /\ tcb'[t].dead = tcb[t].dead
                     /\ tcb'[t].as = tcb[t].as
                     /\ tcb[t].kill = "off" => tcb'[t].kill = "off"

LEMMA CalmStep ==
  ASSUME FreeInv, SlotInv, Calm
  PROVE  SlotInv'
<1>1. ASSUME NEW y \in Threads, th'[y].at \in {"locked", "expired"}
      PROVE  ~tcb'[th'[y].t].about
  <2>1. th'[y].at = th[y].at /\ th'[y].t = th[y].t /\ RoleOK(y, th[y])
    BY <1>1, Here DEF Calm
  <2>2. th[y].t \in Tcbs
    BY <1>1, <2>1 DEF RoleOK
  <2> QED
    BY <1>1, <2>1, <2>2 DEF SlotInv, Lively, Calm
<1>2. \A t \in Tcbs : Fits(tcb[t]) => Fits(tcb'[t])
  BY DEF Calm, Fits
<1> QED
  BY <1>1, <1>2 DEF SlotInv, Lively, Fits

\* The thread x changes one association that nobody else has locked.
LEMMA SlotStep ==
  ASSUME FreeInv, SlotInv, NEW x \in Threads, NEW t \in Tcbs, Holds(th[x], t),
         \A y \in Threads : y # x => th'[y] = th[y],
         th'[x].at \notin {"locked", "expired"},
         \A u \in Tcbs : u # t => tcb'[u] = tcb[u],
         ~LateResets /\ Fits(tcb[t]) => Fits(tcb'[t])
  PROVE  SlotInv'
<1>1. ASSUME NEW y \in Threads, th'[y].at \in {"locked", "expired"}
      PROVE  ~tcb'[th'[y].t].about
  <2>1. y # x /\ th'[y] = th[y] /\ RoleOK(y, th[y])
    BY <1>1, Here
  <2>2. th[y].t \in Tcbs /\ Holds(th[y], th[y].t)
    BY <1>1, <2>1 DEF RoleOK, Holds, HasTcb
  <2>3. th[y].t # t
    BY <2>1, <2>2, OneHolder, ThreadFacts
  <2> QED
    BY <1>1, <2>1, <2>2, <2>3 DEF SlotInv, Lively
<1>2. ~LateResets => \A u \in Tcbs : Fits(tcb'[u])
  BY DEF SlotInv
<1> QED
  BY <1>1, <1>2 DEF SlotInv, Lively, Fits

LEMMA Starts ==
  ASSUME NEW a \in TcbRec, Fits(a)
  PROVE  Fits(StartKill(a)) /\ Fits(StopTimers(a)) /\ Fits(StartKill(StopTimers(a)))
BY DEF TcbRec, Fits, StartKill, StopTimers

\* Only the thread x moves, and not to a place where it would work with an association.
Steps(x) ==
  /\ \A y \in Threads : y # x => th'[y] = th[y]
  /\ th'[x].at \notin {"locked", "expired"}

LEMMA Going ==
  ASSUME TypeInv, NEW x \in Threads, NEW l, NEW w, l \notin {"locked", "expired"},
         Goto(x, l, w)
  PROVE  Steps(x)
BY DEF TypeInv, Goto, Steps, ThreadRec

LEMMA Returning ==
  ASSUME TypeInv, NEW x \in Threads, Return(x)
  PROVE  Steps(x)
BY DEF TypeInv, Return, Steps, Idle

LEMMA AfterFreeing ==
  ASSUME TypeInv, NEW x \in Threads, NEW left, AfterFree(x, left)
  PROVE  Steps(x)
<1>1. CASE th[x].force
  BY <1>1 DEF AfterFree, TypeInv, Steps, ThreadRec
<1>2. CASE ~th[x].force
  BY <1>2, Returning DEF AfterFree
<1> QED
  BY <1>1, <1>2

\* A step that leaves the associations as they are.
LEMMA Idly ==
  ASSUME FreeInv, SlotInv, NEW x \in Threads, Steps(x), UNCHANGED tcb
  PROVE  SlotInv'
<1>1. Calm
  BY DEF Steps, Calm
<1> QED
  BY <1>1, CalmStep

LEMMA FreeSlots ==
  ASSUME FreeInv, SlotInv, NEW x \in Threads, Free(x)
  PROVE  SlotInv'
<1> DEFINE t == th[x].t
<1>1. TypeInv /\ th \in [Threads -> ThreadRec] /\ tcb \in [Tcbs -> TcbRec] /\ RoleOK(x, th[x])
  BY Here DEF TypeInv
<1>2. ASSUME th[x].at \in {"free", "check", "kill", "destroy", "each"}, th[x].want = <<>>
      PROVE  t \in Tcbs /\ Holds(th[x], t) /\ tcb[t] \in TcbRec
             /\ (~LateResets => Fits(tcb[t]))
  <2>1. t \in Tcbs
    BY <1>1, <1>2 DEF RoleOK
  <2> QED
    BY <1>1, <1>2, <2>1, Tuples DEF Holds, HasTcb, SlotInv
<1>3. ASSUME FreeAssoc(x) PROVE SlotInv'
  <2>1. t \in Tcbs /\ Holds(th[x], t) /\ tcb[t] \in TcbRec /\ (~LateResets => Fits(tcb[t]))
    BY <1>2, <1>3 DEF FreeAssoc, At
  <2>2. Steps(x)
    <3>1. \/ AfterFree(x, TRUE) \/ Goto(x, "check", <<>>)
          \/ Goto(x, "check", <<"info", "inp", t>>)
      BY <1>3 DEF FreeAssoc
    <3>2. CASE AfterFree(x, TRUE)
      BY <1>1, <3>2, AfterFreeing
    <3>3. CASE ~AfterFree(x, TRUE)
      <4>1. PICK w : Goto(x, "check", w)
        BY <3>1, <3>3
      <4> QED
        BY <1>1, <4>1, Going
    <3> QED
      BY <3>2, <3>3
  <2>3. PICK s : tcb' = [tcb EXCEPT ![t] = s] /\ (Fits(tcb[t]) => Fits(s))
    <3>1. CASE tcb' = [tcb EXCEPT ![t] = StartKill(@)]
      BY <2>1, <3>1, Starts
    <3>2. CASE tcb' = [tcb EXCEPT ![t] =
                IF tcb[t].ref > 0 \/ inp.gone
                THEN [StartKill(StopTimers(tcb[t])) EXCEPT !.about = TRUE, !.accept = FALSE]
                ELSE [StopTimers(tcb[t]) EXCEPT !.about = TRUE]]
      <4>1. /\ Fits([StartKill(StopTimers(tcb[t])) EXCEPT !.about = TRUE, !.accept = FALSE])
            /\ Fits([StopTimers(tcb[t]) EXCEPT !.about = TRUE])
        BY <2>1 DEF Fits, StartKill, StopTimers, TcbRec
      <4> QED
        BY <3>2, <4>1
    <3>3. CASE tcb' = [tcb EXCEPT ![t] =
                [StopTimers(tcb[t]) EXCEPT !.about = TRUE, !.ref = IF th[x].force THEN 0 ELSE 1]]
      <4>1. Fits([StopTimers(tcb[t]) EXCEPT !.about = TRUE,
                                            !.ref = IF th[x].force THEN 0 ELSE 1])
        BY <2>1 DEF Fits, StopTimers, TcbRec
      <4> QED
        BY <3>3, <4>1
    <3> QED
      BY <1>3, <3>1, <3>2, <3>3 DEF FreeAssoc
  <2>4. tcb'[t] = s /\ \A u \in Tcbs : u # t => tcb'[u] = tcb[u]
    BY <1>1, <2>1, <2>3
  <2> QED
    BY <2>1, <2>2, <2>3, <2>4, SlotStep DEF Steps
<1>4. ASSUME FreeCheck(x) PROVE SlotInv'
  <2> DEFINE n == tcb[t].ref - (IF th[x].force THEN 0 ELSE 1)
  <2>1. t \in Tcbs /\ Holds(th[x], t) /\ tcb[t] \in TcbRec /\ (~LateResets => Fits(tcb[t]))
    BY <1>2, <1>4 DEF FreeCheck, At
  <2>2. Steps(x)
    BY <1>1, <1>4, AfterFreeing, Going DEF FreeCheck
  <2>3. PICK s : tcb' = [tcb EXCEPT ![t] = s] /\ (Fits(tcb[t]) => Fits(s))
    <3>1. CASE tcb' = [tcb EXCEPT ![t] = [StartKill(@) EXCEPT !.ref = n, !.accept = FALSE]]
      <4>1. Fits(tcb[t]) => Fits([StartKill(tcb[t]) EXCEPT !.ref = n, !.accept = FALSE])
        <5> HIDE DEF n, t
        <5> QED
          BY <2>1 DEF Fits, StartKill, TcbRec
      <4> QED
        BY <3>1, <4>1
    <3>2. CASE tcb' = [tcb EXCEPT ![t].ref = n]
      <4>1. Fits(tcb[t]) => Fits([tcb[t] EXCEPT !.ref = n])
        <5> HIDE DEF n, t
        <5> QED
          BY <2>1 DEF Fits, TcbRec
      <4> QED
        BY <3>2, <4>1
    <3> QED
      BY <1>4, <3>1, <3>2 DEF FreeCheck
  <2>4. tcb'[t] = s /\ \A u \in Tcbs : u # t => tcb'[u] = tcb[u]
    BY <1>1, <2>1, <2>3
  <2> QED
    BY <2>1, <2>2, <2>3, <2>4, SlotStep DEF Steps
<1>5. ASSUME FreeKill(x) PROVE SlotInv'
  <2>1. t \in Tcbs /\ Holds(th[x], t) /\ tcb[t] \in TcbRec
    BY <1>2, <1>5 DEF FreeKill, At
  <2>2. Steps(x)
    BY <1>1, <1>5, Going DEF FreeKill
  <2>3. tcb' = [tcb EXCEPT ![t] = [StopTimers(@) EXCEPT !.dead = TRUE]]
    BY <1>5 DEF FreeKill
  <2>4. Fits(tcb'[t]) /\ \A u \in Tcbs : u # t => tcb'[u] = tcb[u]
    BY <1>1, <2>1, <2>3 DEF Fits, StopTimers, TcbRec
  <2> QED
    BY <2>1, <2>2, <2>4, SlotStep DEF Steps
<1>6. ASSUME FreeDestroy(x) PROVE SlotInv'
  <2>1. t \in Tcbs /\ Holds(th[x], t) /\ tcb[t] \in TcbRec
    BY <1>2, <1>6 DEF FreeDestroy, At
  <2>2. Steps(x)
    BY <1>1, <1>6, AfterFreeing, Going DEF FreeDestroy
  <2>3. tcb' = [tcb EXCEPT ![t].alloc = FALSE]
    BY <1>6 DEF FreeDestroy
  <2>4. (Fits(tcb[t]) => Fits(tcb'[t])) /\ \A u \in Tcbs : u # t => tcb'[u] = tcb[u]
    BY <1>1, <2>1, <2>3 DEF Fits, TcbRec
  <2> QED
    BY <2>1, <2>2, <2>4, SlotStep DEF Steps
<1>7. ASSUME InpEach(x) PROVE SlotInv'
  <2>1. t \in Tcbs /\ Holds(th[x], t) /\ tcb[t] \in TcbRec
    BY <1>2, <1>7 DEF InpEach, At
  <2>2. Steps(x)
    BY <1>1, <1>7 DEF InpEach, Steps, ThreadRec
  <2>3. PICK s : tcb' = [tcb EXCEPT ![t] = s] /\ (Fits(tcb[t]) => Fits(s))
    <3>1. CASE UNCHANGED tcb
      <4>1. tcb' = [tcb EXCEPT ![t] = tcb[t]]
        BY <1>1, <2>1, <3>1
      <4> QED
        BY <4>1
    <3>2. CASE tcb' = [tcb EXCEPT ![t] = [StartKill(@) EXCEPT !.accept = FALSE]]
      <4>1. Fits(tcb[t]) => Fits([StartKill(tcb[t]) EXCEPT !.accept = FALSE])
        BY <2>1 DEF Fits, StartKill, TcbRec
      <4> QED
        BY <3>2, <4>1
    <3>3. CASE tcb' = [tcb EXCEPT ![t].rxt = "queued"]
      <4>1. Fits(tcb[t]) => Fits([tcb[t] EXCEPT !.rxt = "queued"])
        BY <2>1 DEF Fits, TcbRec
      <4> QED
        BY <3>3, <4>1
    <3> QED
      BY <1>7, <3>1, <3>2, <3>3 DEF InpEach
  <2>4. tcb'[t] = s /\ \A u \in Tcbs : u # t => tcb'[u] = tcb[u]
    BY <1>1, <2>1, <2>3
  <2> QED
    BY <2>1, <2>2, <2>3, <2>4, SlotStep DEF Steps
<1>8. CASE Callback(x)
  <2>1. Steps(x) /\ UNCHANGED tcb
    BY <1>1, <1>8, Returning DEF Callback, Steps, ThreadRec
  <2> QED
    BY <2>1, Idly
<1>9. CASE InpFree(x) \/ InpDecide(x) \/ InpDestroy(x)
  <2>1. Steps(x) /\ UNCHANGED tcb
    BY <1>1, <1>9, Returning, Going DEF InpFree, InpReturn, InpDecide, InpDestroy
  <2> QED
    BY <2>1, Idly
<1>10. CASE InpEnter(x)
  <2>1. Steps(x) /\ UNCHANGED tcb
    BY <1>1, <1>10 DEF InpEnter, Steps, ThreadRec
  <2> QED
    BY <2>1, Idly
<1>11. CASE InpNext(x)
  <2>1. PICK u : th' = [th EXCEPT ![x].at = "each", ![x].t = u, ![x].want = <<u>>,
                                  ![x].todo = @ \ {u}]
    BY <1>11 DEF InpNext
  <2>2. UNCHANGED tcb
    BY <1>11 DEF InpNext
  <2>3. Steps(x)
    BY <1>1, <2>1 DEF Steps, ThreadRec
  <2> QED
    BY <2>2, <2>3, Idly
<1> QED
  BY <1>3, <1>4, <1>5, <1>6, <1>7, <1>8, <1>9, <1>10, <1>11 DEF Free

\* A change of one association that leaves its callout as it is, or stops it.
LEMMA Elsewhere ==
  ASSUME FreeInv, SlotInv, NEW x \in Threads, Steps(x), NEW t \in Tcbs,
         \A u \in Tcbs : u # t => tcb'[u] = tcb[u],
         tcb'[t].about = tcb[t].about, tcb'[t].dead = tcb[t].dead, tcb'[t].as = tcb[t].as,
         tcb[t].kill = "off" => tcb'[t].kill = "off"
  PROVE  SlotInv'
<1>1. Calm
  BY DEF Steps, Calm
<1> QED
  BY <1>1, CalmStep

LEMMA WorkSlots ==
  ASSUME FreeInv, SlotInv, NEW x \in Workers, Work(x)
  PROVE  SlotInv'
<1> DEFINE t == th[x].t
<1>1. /\ x \in Threads /\ TypeInv /\ th \in [Threads -> ThreadRec]
      /\ tcb \in [Tcbs -> TcbRec] /\ RoleOK(x, th[x])
  BY Here, ThreadFacts DEF TypeInv
<1>2. CASE Lookup(x) \/ First(x) \/ Pick(x)
  <2>1. UNCHANGED tcb
    BY <1>2 DEF Lookup, First, Pick
  <2>2. \/ Return(x)
        \/ \E u \in Linked : \E l \in {"found", "refer", "reset"} :
              \E w \in {<<"inp", u>>, <<u>>} :
                 th' = [th EXCEPT ![x].at = l, ![x].t = u, ![x].want = w]
    BY <1>2 DEF Lookup, First, Pick
  <2>3. CASE Return(x)
    BY <1>1, <2>1, <2>3, Returning, Idly
  <2>4. CASE ~Return(x)
    <3>0. PICK u \in Linked : \E l \in {"found", "refer", "reset"} :
            \E w \in {<<"inp", u>>, <<u>>} :
               th' = [th EXCEPT ![x].at = l, ![x].t = u, ![x].want = w]
      BY <2>2, <2>4
    <3>3. PICK l \in {"found", "refer", "reset"} : \E w \in {<<"inp", u>>, <<u>>} :
               th' = [th EXCEPT ![x].at = l, ![x].t = u, ![x].want = w]
      BY <3>0
    <3>1. PICK w \in {<<"inp", u>>, <<u>>} :
               th' = [th EXCEPT ![x].at = l, ![x].t = u, ![x].want = w]
      BY <3>3
    <3>2. Steps(x)
      BY <1>1, <3>1 DEF Steps, ThreadRec
    <3> QED
      BY <1>1, <2>1, <3>2, Idly
  <2> QED
    BY <2>3, <2>4
<1>3. CASE Found(x)
  <2>1. UNCHANGED tcb
    BY <1>3 DEF Found
  <2>2. CASE tcb[t].about
    BY <1>1, <1>3, <2>1, <2>2, Returning, Idly DEF Found
  <2>3. CASE ~tcb[t].about
    <3>1. Goto(x, "locked", <<>>)
      BY <1>3, <2>3 DEF Found
    <3>2. th'[x].t = t /\ \A y \in Threads : y # x => th'[y] = th[y]
      BY <1>1, <3>1 DEF Goto, ThreadRec
    <3> QED
      BY <2>1, <2>3, <3>2 DEF SlotInv, Lively, Fits
  <2> QED
    BY <2>2, <2>3
<1>4. ASSUME th[x].at \in UseLabels PROVE t \in Tcbs /\ tcb[t] \in TcbRec
  BY <1>1, <1>4 DEF RoleOK
<1>5. CASE Input(x)
  <2>1. t \in Tcbs /\ tcb[t] \in TcbRec /\ th[x].at = "locked" /\ Holds(th[x], t)
    BY <1>4, <1>5 DEF Input, At, Holds, HasTcb
  <2>2. CASE Goto(x, "free", <<>>) /\ UNCHANGED tcb
    BY <1>1, <2>2, Going, Idly
  <2>3. CASE /\ Return(x)
             /\ \E s \in {tcb[t].rxt, "off", "queued"},
                   r \in {tcb[t], StartReset(tcb[t]), StopReset(tcb[t])} :
                       tcb' = [tcb EXCEPT ![t] = [r EXCEPT !.rxt = s]]
    <3>1. PICK s, r : /\ r \in {tcb[t], StartReset(tcb[t]), StopReset(tcb[t])}
                      /\ tcb' = [tcb EXCEPT ![t] = [r EXCEPT !.rxt = s]]
      BY <2>3
    <3>2. ~tcb[t].about
      BY <1>1, <2>1 DEF SlotInv, Lively
    <3>3. r \in TcbRec /\ r.about = tcb[t].about
      BY <2>1, <3>1, Slots DEF SlotOnly
    <3>4. ~[r EXCEPT !.rxt = s].about
      BY <3>2, <3>3 DEF TcbRec
    <3>5. ~tcb'[t].about /\ \A u \in Tcbs : u # t => tcb'[u] = tcb[u]
      BY <1>1, <2>1, <3>1, <3>4
    <3>6. Steps(x)
      BY <1>1, <2>3, Returning
    <3> QED
      BY <1>1, <2>1, <3>5, <3>6, SlotStep DEF Steps, Fits
  <2> QED
    BY <1>5, <2>2, <2>3 DEF Input
<1>6. CASE Refer(x) \/ Leave(x) \/ UserAbort(x)
  <2>1. t \in Tcbs /\ tcb[t] \in TcbRec
    BY <1>4, <1>6 DEF Refer, Leave, UserAbort, At
  <2>2. Steps(x)
    BY <1>1, <1>6, Going, Returning DEF Refer, Leave, UserAbort
  <2>3. PICK n : tcb' = [tcb EXCEPT ![t].ref = n]
    BY <1>6 DEF Refer, Leave, UserAbort
  <2>4. /\ \A u \in Tcbs : u # t => tcb'[u] = tcb[u]
        /\ tcb'[t].about = tcb[t].about /\ tcb'[t].dead = tcb[t].dead
        /\ tcb'[t].as = tcb[t].as /\ tcb'[t].kill = tcb[t].kill
    BY <1>1, <2>1, <2>3 DEF TcbRec
  <2> QED
    BY <1>1, <2>1, <2>2, <2>4, Elsewhere
<1>7. CASE Copied(x)
  <2>1. UNCHANGED tcb /\ Steps(x)
    BY <1>1, <1>7, Going DEF Copied
  <2> QED
    BY <1>1, <2>1, Idly
<1>8. CASE Queue(x)
  <2>1. t \in Tcbs /\ tcb[t] \in TcbRec
    BY <1>4, <1>8 DEF Queue, At
  <2>2. Steps(x)
    BY <1>1, <1>8, Going DEF Queue
  <2>3. PICK n : tcb' = [tcb EXCEPT ![t].rxt = n]
    BY <1>8 DEF Queue
  <2>4. /\ \A u \in Tcbs : u # t => tcb'[u] = tcb[u]
        /\ tcb'[t].about = tcb[t].about /\ tcb'[t].dead = tcb[t].dead
        /\ tcb'[t].as = tcb[t].as /\ tcb'[t].kill = tcb[t].kill
    BY <1>1, <2>1, <2>3 DEF TcbRec
  <2> QED
    BY <1>1, <2>1, <2>2, <2>4, Elsewhere
<1>9. CASE ResetStart(x)
  <2>1. t \in Tcbs /\ tcb[t] \in TcbRec /\ Holds(th[x], t)
    BY <1>4, <1>9, Tuples DEF ResetStart, At, Holds, HasTcb
  <2>2. Steps(x)
    BY <1>1, <1>9, Returning DEF ResetStart
  <2>3. CASE UNCHANGED tcb
    BY <1>1, <2>2, <2>3, Idly
  <2>4. CASE /\ tcb[t].about => LateResets
             /\ \E s \in {tcb[t].rxt, "queued"} :
                   tcb' = [tcb EXCEPT ![t] = [StartReset(@) EXCEPT !.rxt = s]]
    <3>0. PICK s : tcb' = [tcb EXCEPT ![t] = [StartReset(@) EXCEPT !.rxt = s]]
      BY <2>4
    <3>1. /\ tcb'[t] = [StartReset(tcb[t]) EXCEPT !.rxt = s]
          /\ \A u \in Tcbs : u # t => tcb'[u] = tcb[u]
      BY <1>1, <2>1, <3>0
    <3>2. tcb'[t].about = tcb[t].about
      <4>1. StartReset(tcb[t]) \in TcbRec /\ StartReset(tcb[t]).about = tcb[t].about
        BY <2>1, Slots DEF SlotOnly
      <4> QED
        BY <3>1, <4>1 DEF TcbRec
    <3>3. ~LateResets => Fits(tcb'[t])
      BY <2>4, <3>2 DEF Fits
    <3> QED
      BY <1>1, <2>1, <2>2, <3>1, <3>3, SlotStep DEF Steps
  <2> QED
    BY <1>9, <2>3, <2>4 DEF ResetStart
<1> QED
  BY <1>2, <1>3, <1>5, <1>6, <1>7, <1>8, <1>9 DEF Work

LEMMA TickSlots ==
  ASSUME FreeInv, SlotInv, Tick
  PROVE  SlotInv'
<1> DEFINE x == "tick"
           t == th[x].t
           k == th[x].timer
<1>1. /\ x \in Threads /\ TypeInv /\ th \in [Threads -> ThreadRec]
      /\ tcb \in [Tcbs -> TcbRec] /\ RoleOK(x, th[x]) /\ th[x] \in ThreadRec
  BY Here, ThreadFacts DEF TypeInv
<1>2. t \in Tcbs \cup {"none"} /\ "none" \notin Tcbs
  BY <1>1, ThreadFacts DEF ThreadRec
<1>3. ASSUME Steps(x), NEW n, UNCHANGED tcb \/ (t \in Tcbs /\ tcb' = [tcb EXCEPT ![t].ref = n])
      PROVE  SlotInv'
  <2>1. CASE UNCHANGED tcb
    BY <1>1, <1>3, <2>1, Idly
  <2>2. CASE t \in Tcbs /\ tcb' = [tcb EXCEPT ![t].ref = n]
    <3>1. /\ \A u \in Tcbs : u # t => tcb'[u] = tcb[u]
          /\ tcb'[t].about = tcb[t].about /\ tcb'[t].dead = tcb[t].dead
          /\ tcb'[t].as = tcb[t].as /\ tcb'[t].kill = tcb[t].kill
      BY <1>1, <2>2 DEF TcbRec
    <3> QED
      BY <1>1, <1>3, <2>2, <3>1, Elsewhere
  <2> QED
    BY <1>3, <2>1, <2>2
<1>4. CASE TickRefer
  <2>1. Steps(x)
    BY <1>1, <1>4, Returning, Going DEF TickRefer
  <2>2. UNCHANGED tcb \/ (t \in Tcbs /\ tcb' = [tcb EXCEPT ![t].ref = tcb[t].ref + 1])
    BY <1>2, <1>4 DEF TickRefer
  <2> QED
    BY <1>3, <2>1, <2>2
<1>5. CASE TickActive \/ TickDrop
  <2>1. Steps(x)
    <3>1. Return(x) \/ \E w : Goto(x, "checks", w)
      BY <1>5 DEF TickActive, TickDrop
    <3> QED
      BY <1>1, <3>1, Returning, Going
  <2>2. UNCHANGED tcb \/ (t \in Tcbs /\ tcb' = [tcb EXCEPT ![t].ref = tcb[t].ref - 1])
    BY <1>2, <1>5 DEF TickActive, TickDrop
  <2> QED
    BY <1>3, <2>1, <2>2
<1>6. CASE TickServe
  <2>0. th[x].at = "checks" /\ (k # "inpkill" => t \in Tcbs) /\ Wanted(k, t)
    BY <1>1, <1>2, <1>6 DEF TickServe, At, RoleOK
  <2>1. CASE /\ k = "kill" /\ ~Resets(k, t)
             /\ tcb' = [tcb EXCEPT ![t].ref = @ - 1, ![t].kill = "off"]
             /\ Goto("tick", "free", <<>>)
    <3>1. /\ \A u \in Tcbs : u # t => tcb'[u] = tcb[u]
          /\ tcb'[t].about = tcb[t].about /\ tcb'[t].dead = tcb[t].dead
          /\ tcb'[t].as = tcb[t].as /\ tcb'[t].kill = "off"
      BY <1>1, <2>0, <2>1 DEF TcbRec
    <3>2. Steps(x)
      BY <1>1, <2>1, Going
    <3> QED
      BY <1>1, <2>0, <2>1, <3>1, <3>2, Elsewhere
  <2>2. CASE /\ Protocol(k, t)
             /\ tcb' = IF k = "kill" THEN [tcb EXCEPT ![t].ref = @ - 1, ![t].kill = "off"]
                       ELSE [tcb EXCEPT ![t].ref = @ - 1, ![t].rxt = "off"]
             /\ th' = [th EXCEPT !["tick"].at = "expired", !["tick"].ref = TRUE]
    <3>1. t \in Tcbs /\ ~tcb[t].about
      BY <2>0, <2>2 DEF Wanted, Protocol, Resets
    <3>2. ~tcb'[t].about /\ \A u \in Tcbs : u # t => tcb'[u] = tcb[u]
      BY <1>1, <2>2, <3>1 DEF TcbRec
    <3>3. th'[x].t = t /\ \A y \in Threads : y # x => th'[y] = th[y]
      BY <1>1, <2>2 DEF ThreadRec
    <3>4. ASSUME NEW y \in Threads, th'[y].at \in {"locked", "expired"}
          PROVE  ~tcb'[th'[y].t].about
      <4>1. CASE y = x
        BY <3>2, <3>3, <4>1
      <4>2. CASE y # x
        <5>1. th'[y] = th[y] /\ RoleOK(y, th[y])
          BY <3>3, <4>2, Here
        <5>2. th[y].t \in Tcbs /\ ~tcb[th[y].t].about
          BY <3>4, <5>1 DEF RoleOK, SlotInv, Lively
        <5> QED
          BY <3>2, <5>1, <5>2
      <4> QED
        BY <4>1, <4>2
    <3>5. ~LateResets => \A u \in Tcbs : Fits(tcb'[u])
      BY <3>2 DEF SlotInv, Fits
    <3> QED
      BY <3>4, <3>5 DEF SlotInv, Lively, Fits
  <2>3. CASE /\ th' = [th EXCEPT !["tick"].at = "inpfree", !["tick"].abort = TRUE]
             /\ UNCHANGED tcb
    <3>1. Steps(x)
      BY <1>1, <2>3 DEF Steps, ThreadRec
    <3> QED
      BY <1>1, <2>3, <3>1, Idly
  <2> QED
    BY <1>6, <2>1, <2>2, <2>3 DEF TickServe
<1>7. CASE Expired
  <2>1. th[x].at = "expired" /\ t \in Tcbs /\ ~tcb[t].about /\ Holds(th[x], t)
    BY <1>1, <1>7 DEF Expired, At, RoleOK, SlotInv, Lively, Holds, HasTcb
  <2>2. Steps(x)
    BY <1>1, <1>7, Going, Returning DEF Expired
  <2>3. CASE UNCHANGED tcb
    BY <1>1, <2>2, <2>3, Idly
  <2>4. CASE tcb' = [tcb EXCEPT ![t].rxt = "queued"] \/ tcb' = [tcb EXCEPT ![t] = StartReset(@)]
    <3>1. SlotOnly(tcb[t], StartReset(tcb[t]))
      BY <1>1, <2>1, Slots
    <3>2. ~tcb'[t].about /\ \A u \in Tcbs : u # t => tcb'[u] = tcb[u]
      BY <1>1, <2>1, <2>4, <3>1 DEF SlotOnly, TcbRec
    <3>3. Fits(tcb'[t])
      BY <3>2 DEF Fits
    <3> HIDE DEF x
    <3> QED
      BY <1>1, <2>1, <2>2, <3>2, <3>3, SlotStep DEF Steps
  <2> QED
    BY <1>7, <2>3, <2>4 DEF Expired
<1> QED
  BY <1>4, <1>5, <1>6, <1>7 DEF Tick

LEMMA FireSlots ==
  ASSUME FreeInv, SlotInv, NEW k \in {"kill", "rxt", "inpkill"}, NEW t \in Tcbs \cup {"none"},
         Fire(k, t)
  PROVE  SlotInv'
<1> DEFINE x == "tick"
<1>1. /\ x \in Threads /\ TypeInv /\ th \in [Threads -> ThreadRec]
      /\ tcb \in [Tcbs -> TcbRec] /\ "none" \notin Tcbs
  BY Here, ThreadFacts DEF TypeInv
<1>2. th' = [th EXCEPT ![x].at = "called", ![x].timer = k, ![x].t = t]
  BY DEF Fire
<1>3. Steps(x)
  BY <1>1, <1>2 DEF Steps, ThreadRec
<1>4. CASE k = "inpkill"
  BY <1>1, <1>3, <1>4, Idly DEF Fire, SetTimer
<1>5. CASE k # "inpkill"
  <2>1. t \in Tcbs
    BY <1>5 DEF Fire
  <2>2. k = "kill" => tcb[t].kill = "queued"
    BY DEF Fire, Timer
  <2>3. tcb' = IF k = "kill" THEN [tcb EXCEPT ![t].kill = "fired"]
               ELSE [tcb EXCEPT ![t].rxt = "fired"]
    BY <1>5 DEF Fire, SetTimer
  <2>4. /\ \A u \in Tcbs : u # t => tcb'[u] = tcb[u]
        /\ tcb'[t].about = tcb[t].about /\ tcb'[t].dead = tcb[t].dead
        /\ tcb'[t].as = tcb[t].as /\ (tcb[t].kill = "off" => tcb'[t].kill = "off")
    BY <1>1, <2>1, <2>2, <2>3 DEF TcbRec
  <2> QED
    BY <1>1, <1>3, <2>1, <2>4, Elsewhere
<1> QED
  BY <1>4, <1>5

LEMMA NextSlots == FreeInv /\ SlotInv /\ [Next]_vars => SlotInv'
<1> SUFFICES ASSUME FreeInv, SlotInv, [Next]_vars PROVE SlotInv'
  OBVIOUS
<1>1. TypeInv /\ th \in [Threads -> ThreadRec] /\ tcb \in [Tcbs -> TcbRec]
  BY ThreadFacts, Here DEF TypeInv
<1>2. ASSUME NEW x \in Threads, Acquire(x) PROVE SlotInv'
  <2>1. \A y \in Threads : th'[y].at = th[y].at /\ th'[y].t = th[y].t
    BY <1>1, <1>2 DEF Acquire, ThreadRec
  <2>2. Calm
    BY <1>2, <2>1 DEF Acquire, Calm
  <2> QED
    BY <2>2, CalmStep
<1>3. ASSUME NEW x \in Workers, Packet(x) \/ Send(x) \/ ResetStreams(x)
      PROVE  SlotInv'
  <2>1. x \in Threads /\ UNCHANGED tcb
    BY <1>3, ThreadFacts DEF Packet, Send, ResetStreams
  <2>2. PICK l \in {"lookup", "first", "pick"} : \E w : Goto(x, l, w)
    BY <1>3 DEF Packet, Send, ResetStreams
  <2>3. Steps(x)
    BY <1>1, <2>1, <2>2, Going
  <2> QED
    BY <2>1, <2>3, Idly
<1>4. ASSUME NEW x \in Workers, Accept(x) PROVE SlotInv'
  <2>1. UNCHANGED th
    BY <1>4 DEF Accept
  <2>2. PICK t \in Tcbs : tcb' = [tcb EXCEPT ![t].accept = FALSE]
    BY <1>4 DEF Accept, Linked
  <2>3. Calm
    BY <1>1, <2>1, <2>2 DEF Calm, TcbRec
  <2> QED
    BY <2>3, CalmStep
<1>5. CASE Close
  <2>1. PICK b : th' = [th EXCEPT !["close"].at = "inpfree", !["close"].abort = b]
    BY <1>5 DEF Close
  <2>2. Steps("close") /\ UNCHANGED tcb
    BY <1>1, <1>5, <2>1, ThreadFacts DEF Close, Steps, ThreadRec
  <2> QED
    BY <2>2, ThreadFacts, Idly
<1>6. CASE UNCHANGED vars
  <2>1. Calm
    BY <1>6 DEF vars, Calm
  <2> QED
    BY <2>1, CalmStep
<1>7. CASE Fires
  BY <1>7, FireSlots DEF Fires
<1>8. CASE Next
  BY <1>2, <1>3, <1>4, <1>5, <1>7, <1>8, FreeSlots, WorkSlots, TickSlots DEF Next
<1> QED
  BY <1>6, <1>8

LEMMA Invariant == Spec => [](FreeInv /\ SlotInv)
<1>1. Init => SlotInv
  <2> SUFFICES ASSUME Init PROVE SlotInv
    OBVIOUS
  <2>1. PICK b \in BOOLEAN : tcb = [t \in Tcbs |-> NewTcb(b)]
    BY DEF Init
  <2>2. \A t \in Tcbs : ~tcb[t].about
    BY <2>1 DEF NewTcb
  <2>3. \A x \in Threads : th[x].at = "idle"
    BY DEF Init, Idle
  <2> QED
    BY <2>2, <2>3 DEF SlotInv, Lively, Fits
<1> QED
  BY <1>1, InitInv, NextInv, NextSlots, PTL DEF Spec

\* FreeTypes: whatever the number of associations and threads, the flags, timers, lock
\* owners and places of sctp_free_assoc, sctp_inpcb_free and their callers have their
\* types, and no reference count goes below zero.
THEOREM FreeTypes == Spec => []TypeOK
<1>1. FreeInv => TypeOK
  BY DEF FreeInv
<1> QED
  BY <1>1, Invariant, PTL

LEMMA OneFreeing ==
  ASSUME FreeInv, NEW t \in Tcbs, NEW x \in Freeing(t), NEW y \in Freeing(t)
  PROVE  x = y
<1> SUFFICES ASSUME x # y PROVE FALSE
  OBVIOUS
<1>1. /\ x \in Threads /\ th[x].t = t /\ th[x].at \in {"check", "kill", "destroy"}
      /\ y \in Threads /\ th[y].t = t /\ th[y].at \in {"check", "kill", "destroy"}
  BY DEF Freeing
<1>2. Apart(th[x], th[y]) /\ Apart(th[y], th[x])
  BY <1>1 DEF FreeInv, Alone
<1>3. Placed(th[x]) /\ Placed(th[y])
  BY <1>1, Here
<1>4. CASE th[x].at # "check" /\ th[y].at # "check"
  <2>1. Holds(th[x], t) /\ Holds(th[y], t)
    BY <1>1, <1>4 DEF Holds, HasTcb
  <2> QED
    BY <1>1, <2>1, OneHolder, ThreadFacts
<1>5. CASE th[x].at = "check" \/ th[y].at = "check"
  BY <1>1, <1>2, <1>3, <1>5 DEF Apart, Placed
<1> QED
  BY <1>4, <1>5

\* FreesOnce: however packets, users, close, accept and timers compete, sctp_free_assoc
\* lets at most one thread past the decision to free an association, through the window
\* in which it holds no lock, and nobody frees what was freed.
THEOREM FreesOnce == Spec => []FreedOnce
<1>1. ASSUME FreeInv, NEW t \in Tcbs
      PROVE  Cardinality(Freeing(t)) <= 1
  <2>1. CASE Freeing(t) = {}
    BY <2>1, FS_EmptySet
  <2>2. CASE Freeing(t) # {}
    <3>1. PICK x : x \in Freeing(t)
      BY <2>2
    <3>2. Freeing(t) = {x}
      BY <1>1, <3>1, OneFreeing
    <3>3. Cardinality({x}) = 1
      BY FS_Singleton
    <3> QED
      BY <3>2, <3>3
  <2> QED
    BY <2>1, <2>2
<1>2. ASSUME FreeInv, NEW t \in Tcbs, NEW x \in Threads, th[x].t = t
      PROVE  /\ th[x].at \in {"free", "check", "kill"} => ~tcb[t].dead
             /\ th[x].at = "destroy" => tcb[t].alloc
  <2>1. Placed(th[x])
    BY <1>2, Here
  <2> QED
    BY <1>2, <2>1 DEF Placed
<1>3. FreeInv => FreedOnce
  BY <1>1, <1>2 DEF FreedOnce
<1> QED
  BY <1>3, Invariant, PTL

\* RefsExact: the reference counts of an association and of the endpoint are exactly what
\* the threads inside sctp_lower_sosend, sctp_timeout_handler, sctp_free_assoc and
\* sctp_inpcb_free hold, on every path through them.
THEOREM RefsExact == Spec => []RefExact
<1>1. FreeInv => RefExact
  BY DEF FreeInv, TcbRefs, Holders, Refers, InpRefs, Entering, Serving, RefExact
<1> QED
  BY <1>1, Invariant, PTL

\* UseProtected: when the endpoint's kill timer does not come up inside sctp_close, a
\* thread that has found, locked or referred to an association works with one that is
\* allocated, and so is the endpoint.
THEOREM UseProtected ==
  ASSUME SlowClose = FALSE
  PROVE  Spec => []Protected
<1>1. ASSUME FreeInv, NEW x \in Threads
      PROVE  /\ th[x].at \in UseLabels \cup {"destroy"} => tcb[th[x].t].alloc
             /\ th[x].at \notin {"idle", "lookup", "called", "referred", "checks"}
                  => inp.alloc
  <2>1. Placed(th[x]) /\ RoleOK(x, th[x]) /\ TcbStates
    BY <1>1, Here DEF FreeInv
  <2>2. th[x].at \in UseLabels \cup {"destroy"} => tcb[th[x].t].alloc
    BY <2>1 DEF Placed, RoleOK, TcbStates
  <2>3. ~inp.alloc => inp.allgone
    BY <1>1 DEF FreeInv, InpStates
  <2>4. OneDestroyer
    BY <1>1 DEF FreeInv
  <2>5. inp.alloc \/ th[x].at \in {"idle", "lookup", "called", "referred", "checks"}
    BY <2>3, <2>4 DEF OneDestroyer
  <2> QED
    BY <2>2, <2>5
<1>2. FreeInv => Protected
  BY <1>1 DEF Protected
<1> QED
  BY <1>2, Invariant, PTL

\* KillTimersRun: when the user does not accept what was aborted in the queue and starts
\* no stream reset on what is about to be freed, an association that is about to be freed
\* is never forgotten: a thread is at it, the callout it shares with the stream reset
\* timer runs as its kill timer, or it waits in the accept queue of an open socket or of
\* a close under way.
THEOREM KillTimersRun ==
  ASSUME AcceptAborted = FALSE, LateResets = FALSE
  PROVE  Spec => []KillTimerRuns
<1>1. ASSUME FreeInv, SlotInv, NEW t \in Tcbs, tcb[t].about, ~tcb[t].dead
      PROVE  \/ Freeing(t) # {} \/ (\E x \in Threads : th[x].t = t /\ th[x].at = "free")
             \/ tcb[t].kill # "off" /\ tcb[t].as = "kill"
             \/ tcb[t].accept /\ (~inp.gone \/ \E x \in Threads :
                    th[x].at \in {"inpfree", "enter"} \/ t \in th[x].todo
                    \/ (th[x].at = "each" /\ th[x].t = t))
  <2>1. Reason(t)
    BY <1>1 DEF FreeInv, WillBeFreed
  <2>2. CASE \E x \in Threads : Frees(th[x], t)
    BY <2>2 DEF Frees, Freeing
  <2>3. CASE tcb[t].kill # "off"
    BY <1>1, <2>3 DEF SlotInv, Fits
  <2>4. CASE tcb[t].accept /\ (~inp.gone \/ \E x \in Threads : Visits(th[x], t))
    BY <2>4 DEF Visits
  <2> QED
    BY <2>1, <2>2, <2>3, <2>4 DEF Reason
<1>2. FreeInv /\ SlotInv => KillTimerRuns
  BY <1>1 DEF KillTimerRuns
<1> QED
  BY <1>2, Invariant, PTL
=============================================================================

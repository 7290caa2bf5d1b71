---------------------------- MODULE ReceivedSet ----------------------------
(***************************************************************************)
(* What the receive side of an association promises about TSNs, with no    *)
(* arrays, no base and no wrap: TSN n is the n-th one of the association.   *)
(* got is what arrived and is still held or was delivered, kept the part   *)
(* that may no longer be dropped, acked the cumulative TSN of the last     *)
(* SACK.  SctpTsnMap implements this specification.                        *)
(***************************************************************************)
EXTENDS Naturals

VARIABLES got, kept, acked

setVars == <<got, kept, acked>>

\* n is the last TSN of the unbroken run that starts with the first TSN.
IsPrefixEnd(n, S) == 1..n \subseteq S /\ n + 1 \notin S

Init ==
    /\ got = {}
    /\ kept = {}
    /\ acked = 0

\* Growing the part that is kept never gives up a TSN.
Keep == kept \subseteq kept' /\ kept' \subseteq got'

\* A TSN not seen before arrives; anything else is refused.
Accept ==
    /\ \E n \in got' \ got : got' = got \cup {n}
    /\ Keep
    /\ UNCHANGED acked

\* The peer abandons every TSN up to n.
Skip ==
    /\ \E n \in got' : got' = got \cup 1..n
    /\ Keep
    /\ UNCHANGED acked

\* A SACK reports exactly the end of the unbroken run.
Report ==
    /\ acked' \in Nat
    /\ IsPrefixEnd(acked', got')
    /\ acked' >= acked

Acknowledge ==
    /\ UNCHANGED got
    /\ Keep
    /\ Report

\* Memory pressure: TSNs with a hole before them are dropped, never a kept one,
\* and a SACK says so when there is memory for it.
Renege ==
    /\ got' \subseteq got
    /\ \A n \in got \ got' : n \notin kept /\ ~(1..(n - 1) \subseteq got)
    /\ Keep
    /\ Report \/ UNCHANGED acked

\* A chunk that is held already becomes kept.
Deliver ==
    /\ UNCHANGED <<got, acked>>
    /\ Keep

Next == Accept \/ Skip \/ Acknowledge \/ Renege \/ Deliver

Safety == Init /\ [][Next]_setVars
=============================================================================

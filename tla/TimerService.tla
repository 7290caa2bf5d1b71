----------------------------- MODULE TimerService -----------------------------
(***************************************************************************)
(* What the protocol expects of its timers, and what SctpAssoc takes for   *)
(* granted of its timer slots: a timer that was started expires once,      *)
(* unless it is stopped or started again first.  Starts are numbered, so   *)
(* that an expiry names the start it belongs to.                           *)
(***************************************************************************)
EXTENDS Naturals

CONSTANT Timers

VARIABLES
  armed,    \* timer -> it was started and has neither expired nor been stopped
  gen,      \* timer -> number of starts
  expired   \* the <<timer, start>> pairs whose expiry was handled

svars == <<armed, gen, expired>>

Init ==
  /\ armed = [c \in Timers |-> FALSE]
  /\ gen = [c \in Timers |-> 0]
  /\ expired = {}

Start(c) ==
  /\ armed' = [armed EXCEPT ![c] = TRUE]
  /\ gen' = [gen EXCEPT ![c] = @ + 1]
  /\ UNCHANGED expired

Stop(c) ==
  /\ armed' = [armed EXCEPT ![c] = FALSE]
  /\ UNCHANGED <<gen, expired>>

Expire(c) ==
  /\ armed[c]
  /\ armed' = [armed EXCEPT ![c] = FALSE]
  /\ expired' = expired \cup {<<c, gen[c]>>}
  /\ UNCHANGED gen

Next == \E c \in Timers : Start(c) \/ Stop(c) \/ Expire(c)

Safety == Init /\ [][Next]_svars
Spec == Safety /\ \A c \in Timers : WF_svars(Expire(c))
=============================================================================

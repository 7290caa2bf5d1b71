---------------------------- MODULE MCSctpAssoc ----------------------------
(***************************************************************************)
(* Small instances of SctpAssoc.  Each definition lists the calls that the *)
(* applications at A and at B make in one run.                             *)
(***************************************************************************)
EXTENDS SctpAssoc

Ops(a, b) == [n \in Node |-> IF n = A THEN a ELSE b]

ShutdownOps == Ops({"connect", "send", "shutdown", "close"}, {"send", "shutdown"})
CollisionOps == Ops({"connect", "send", "close"}, {"connect", "abort"})
RestartOps == Ops({"connect", "send", "reboot"}, {"stale"})
SendRaceOps == Ops({"connect", "send", "shutdown"}, {})
ReacceptOps == Ops({"connect"}, {"connect", "send", "abort"})
=============================================================================

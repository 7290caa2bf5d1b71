---------------------------- MODULE MCSctpSender ----------------------------
(* Small instances of SctpSender. *)
EXTENDS SctpSender, TLC

NetSymmetry == Permutations(Nets)
=============================================================================

---------------------------- MODULE MCSctpTsnMap ----------------------------
(* Small arrays for SctpTsnMap; the constants are given in the configuration. *)
EXTENDS SctpTsnMap
=============================================================================

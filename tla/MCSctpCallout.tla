---------------------------- MODULE MCSctpCallout ----------------------------
(* A small instance of SctpCallout; the constants are in the configuration. *)
EXTENDS SctpCallout
=============================================================================

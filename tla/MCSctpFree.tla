----------------------------- MODULE MCSctpFree -----------------------------
EXTENDS SctpFree
=============================================================================

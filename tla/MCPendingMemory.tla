--------------------------- MODULE MCPendingMemory ---------------------------
(* Instances of PendingMemory for TLC.                                      *)
EXTENDS PendingMemory
=============================================================================

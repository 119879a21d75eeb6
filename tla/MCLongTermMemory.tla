-------------------------- MODULE MCLongTermMemory --------------------------
(* The vector memory with two facts that resemble each other.               *)
EXTENDS LongTermMemory

CONSTANTS f1, f2

AllResemble == {<<f1, f2>>, <<f2, f1>>}
=============================================================================

--------------------------- MODULE MCProactiveTick ---------------------------
(* The proactive tick with few items.                                       *)
EXTENDS ProactiveTick
=============================================================================

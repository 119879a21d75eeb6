----------------------------- MODULE MCAgentLoop -----------------------------
(* The turn loop with small sets of chats, callers and messages.           *)
EXTENDS AgentLoop, TLC

\* Chats and callers of process_direct are interchangeable; sound for the
\* runs that check no liveness.
Symmetry == Permutations(Chats) \cup Permutations(DirectTasks)
=============================================================================

--------------------------- MODULE MCMemoryPipeline ---------------------------
(* The two halves of the way from a message to long-term memory, for TLC: the  *)
(* session with its cursor and windows, and the memory files.  They share no   *)
(* variable, so a behaviour is one of either: focus says which.                *)
EXTENDS PendingMemory, SessionCursor

VARIABLE focus

PipelineInit == focus \in {"files", "session"} /\ Init /\ CursorInit

PipelineNext ==
    \/ focus = "files" /\ Next /\ UNCHANGED <<cursorVars, focus>>
    \/ focus = "session" /\ CursorNext /\ UNCHANGED <<vars, focus>>

\* The fairness of FairSpec and of CursorFairSpec, each for its own behaviours.
PipelineSpec ==
    /\ PipelineInit /\ [][PipelineNext]_<<vars, cursorVars, focus>>
    /\ WF_vars(focus = "files" /\ Optimizer)
    /\ SF_vars(focus = "files" /\ MergeSucceeds)
    /\ WF_cursorVars(focus = "session" /\ (Consolidate \/ TaskDone))
    /\ SF_cursorVars(focus = "session" /\ (TaskNext \/ TaskReturn))

\* The type invariants of both halves.
PipelineTypesOK == TypeOK /\ CursorTypeOK
=============================================================================

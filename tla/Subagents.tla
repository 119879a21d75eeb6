------------------------------ MODULE Subagents ------------------------------
(***************************************************************************)
(* Background subagents: the spawn tool starts a job, a task of its own runs *)
(* the subagent's loop of model and tool calls, and its outcome, whatever it *)
(* is, goes back to the chat as an item of the inbound queue.  A job can be  *)
(* cancelled at any step, and again while it unwinds.                        *)
(*                                                                           *)
(* publish_inbound does not suspend, the queue has no limit: announcing and  *)
(* returning are one step.                                                   *)
(***************************************************************************)
EXTENDS Naturals, FiniteSets

CONSTANTS
    SpawnedJobs,         \* ids of the jobs ever spawned
    MaxConcurrent,       \* _MAX_CONCURRENT_SPAWNS
    SubagentIterations,  \* _SPAWN_MAX_ITERATIONS
    MaxCalls,            \* bound: tool calls of one model answer
    MaxCancels           \* bound: cancel calls for a job

ASSUME SubagentConstants ==
    /\ {MaxConcurrent, SubagentIterations, MaxCalls} \subseteq Nat \ {0}
    /\ MaxCancels \in Nat

VARIABLES
    job,             \* each job's task: [at, iteration, unanswered]
    runningTasks,    \* _running_tasks
    cancelAnnounced, \* _cancel_announced
    completions,     \* history: completion items published for each job
    cancelRequests   \* history: cancel calls that found the task running

spawnVars == <<job, runningTasks, cancelAnnounced, completions, cancelRequests>>
spawnRegistry == <<runningTasks, cancelAnnounced, cancelRequests>>

SpawnInit ==
    /\ job = [j \in SpawnedJobs |-> [at |-> "none", iteration |-> 0, unanswered |-> 0]]
    /\ runningTasks = {} /\ cancelAnnounced = {}
    /\ completions = [j \in SpawnedJobs |-> 0] /\ cancelRequests = [j \in SpawnedJobs |-> 0]

InProgress == {"think", "tools", "cleanup", "summary"}
MoveTo(j, at) == job' = [job EXCEPT ![j].at = at]
Announce(j) == completions' = [completions EXCEPT ![j] = @ + 1]

-----------------------------------------------------------------------------
\* DelegationPolicy.decide, then spawn: the task is created and registered.
SpawnJob(j) ==
    /\ job[j].at = "none"
    /\ Cardinality(runningTasks) < MaxConcurrent
    /\ MoveTo(j, "think")
    /\ runningTasks' = runningTasks \cup {j}
    /\ UNCHANGED <<cancelAnnounced, completions, cancelRequests>>

\* SubAgent.run: the model asks for n tools; what it wrote joins the transcript.
AskTools(j, n) ==
    /\ job[j].at = "think"
    /\ job' = [job EXCEPT ![j].at = "tools", ![j].unanswered = n]
    /\ UNCHANGED <<spawnRegistry, completions>>

\* A tool has run, or failed, and its result joins the transcript.
ToolResult(j) ==
    /\ job[j].at = "tools"
    /\ LET left == job[j].unanswered - 1
           round == job[j].iteration + 1
       IN  job' = [job EXCEPT ![j].unanswered = left,
                     ![j].iteration = IF left = 0 THEN round ELSE @,
                     ![j].at = IF left > 0 THEN "tools"
                               ELSE IF round < SubagentIterations THEN "think" ELSE "cleanup"]
    /\ UNCHANGED <<spawnRegistry, completions>>

\* Variant: the calls after the denied one get no result.
LoopGuardKeepingRest(j) ==
    /\ job[j].at = "tools"
    /\ job' = [job EXCEPT ![j].unanswered = @ - 1, ![j].at = "cleanup"]
    /\ UNCHANGED <<spawnRegistry, completions>>

\* The loop guard denies a call: the rest of the answer's calls are marked skipped.
LoopGuardStops(j) ==
    /\ job[j].at = "tools"
    /\ job' = [job EXCEPT ![j].unanswered = 0, ![j].at = "cleanup"]
    /\ UNCHANGED <<spawnRegistry, completions>>

\* _run_mandatory_exit: each such tool is asked for and run; failures are passed over.
MandatoryExit(j) ==
    /\ job[j].at = "cleanup"
    /\ MoveTo(j, "summary")
    /\ UNCHANGED <<spawnRegistry, completions>>

\* The subagent returns: an answer, nothing because the model call failed, a
\* summary, or the fixed text in its place.  The outcome is announced.
ReturnResult(j) ==
    /\ job[j].at \in {"think", "summary"}
    /\ MoveTo(j, "returned")
    /\ Announce(j)
    /\ UNCHANGED spawnRegistry

-----------------------------------------------------------------------------
\* cancel: announced first, then the task is cancelled; a tool or a connection
\* may take several steps to unwind.
CancelJob(j) ==
    /\ j \in runningTasks /\ cancelRequests[j] < MaxCancels
    /\ job[j].at \in InProgress \cup {"unwinding"}
    /\ cancelAnnounced' = cancelAnnounced \cup {j}
    /\ Announce(j)
    /\ cancelRequests' = [cancelRequests EXCEPT ![j] = @ + 1]
    /\ MoveTo(j, "unwinding")
    /\ UNCHANGED runningTasks

\* The event loop ends and cancels the tasks that are left.
LoopCancels(j) ==
    /\ job[j].at \in InProgress
    /\ MoveTo(j, "unwinding")
    /\ UNCHANGED <<spawnRegistry, completions>>

\* Variant: the task announces what cancel has announced.
UnwoundAnnouncing(j) ==
    /\ job[j].at = "unwinding"
    /\ MoveTo(j, "returned")
    /\ Announce(j)
    /\ UNCHANGED spawnRegistry

\* Variant: only an Exception is announced, and CancelledError is none.
UnwoundSilently(j) ==
    /\ job[j].at = "unwinding"
    /\ MoveTo(j, "returned")
    /\ UNCHANGED <<spawnRegistry, completions>>

\* CancelledError reaches _run_subagent.
Unwound(j) ==
    /\ job[j].at = "unwinding"
    /\ MoveTo(j, "returned")
    /\ IF j \in cancelAnnounced THEN UNCHANGED completions ELSE Announce(j)
    /\ UNCHANGED spawnRegistry

\* The done-callback.
ForgetRunningJob(j) ==
    /\ job[j].at = "returned" /\ j \in runningTasks
    /\ runningTasks' = runningTasks \ {j}
    /\ cancelAnnounced' = cancelAnnounced \ {j}
    /\ UNCHANGED <<job, completions, cancelRequests>>

SubagentStep(j) ==
    \/ \E n \in 1 .. MaxCalls : AskTools(j, n)
    \/ ToolResult(j) \/ LoopGuardStops(j) \/ MandatoryExit(j)
    \/ ReturnResult(j) \/ Unwound(j) \/ ForgetRunningJob(j)

SpawnNext == \E j \in SpawnedJobs :
    SpawnJob(j) \/ SubagentStep(j) \/ CancelJob(j) \/ LoopCancels(j)

SpawnSpec == SpawnInit /\ [][SpawnNext]_spawnVars

\* Model and tool calls return: each has a timeout.
SpawnFairSpec == SpawnSpec /\ \A j \in SpawnedJobs : WF_spawnVars(SubagentStep(j))

-----------------------------------------------------------------------------
\* Every variable stays within its type.
SpawnTypeOK ==
    /\ job \in [SpawnedJobs ->
         [at : {"none", "unwinding", "returned"} \cup InProgress,
          iteration : 0 .. SubagentIterations, unanswered : 0 .. MaxCalls]]
    /\ runningTasks \subseteq SpawnedJobs /\ cancelAnnounced \subseteq SpawnedJobs
    /\ completions \in [SpawnedJobs -> Nat] /\ cancelRequests \in [SpawnedJobs -> Nat]

\* The chat hears of every job that has ended, once; twice only if the job was
\* cancelled again while it unwound.
EndedJobAnnounced ==
    \A j \in SpawnedJobs : job[j].at = "returned" =>
        /\ completions[j] >= 1
        /\ completions[j] > 1 => cancelRequests[j] > 1

\* A provider refuses a transcript in which a call has no result: whenever a model
\* is called, all calls are answered.
CallsAnswered ==
    \A j \in SpawnedJobs :
        job[j].at \in {"think", "cleanup", "summary"} => job[j].unanswered = 0

\* A job that was started is heard of, and its slot is free again.
JobsEnd ==
    \A j \in SpawnedJobs :
        j \in runningTasks ~> j \notin runningTasks /\ completions[j] > 0
=============================================================================

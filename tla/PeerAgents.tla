------------------------------ MODULE PeerAgents ------------------------------
(***************************************************************************)
(* Tasks delegated to a peer agent: a service on this machine, launched when *)
(* a task needs it and terminated when a task of it has ended.  The tool     *)
(* (PeerAgentTool) sees that the agent answers, submits and registers; the   *)
(* poller asks after each registered task, announces its end in the chat and *)
(* has the agent terminated; PeerProcessManager starts and stops under one   *)
(* lock per agent.  Agents share nothing but the poller: one is modelled.    *)
(*                                                                           *)
(* The agent is external: it comes up, or fails to bind its port when        *)
(* another copy has it; it works on what it accepted, answers or not, dies.  *)
(***************************************************************************)
EXTENDS Naturals

CONSTANTS
    Delegations,   \* calls of the delegate tool
    MaxLaunches,   \* bound: processes ever launched
    MaxSilences    \* bound: health checks a serving agent does not answer in time

ASSUME PeerConstants == MaxLaunches \in Nat \ {0} /\ MaxSilences \in Nat

Launches == 1 .. MaxLaunches
NoLaunch == 0
Poller == "poller"
Unlocked == "free"
ASSUME NamesDiffer == {Poller, Unlocked} \cap Delegations = {}

VARIABLES
    agent,        \* each launched process: none, starting, serving, exited
    told,         \* processes that were sent SIGTERM
    procs,        \* _procs[name]
    lock,         \* who holds _locks[name]
    call,         \* each delegation: [at, launched], the tool's call
    work,         \* each delegation's task on the agent
    pending,      \* _pending: registered tasks
    late,         \* registered tasks that are older than _TASK_TIMEOUT_S
    poller,       \* [at, left, victim]: PeerAgentPoller._loop, later shutdown_all
    notices,      \* history: messages put into the inbound queue for each task
    passedOver,   \* history: processes running when a health check failed
    silences      \* health checks a serving agent did not answer

peerVars == <<agent, told, procs, lock, call, work, pending, late, poller, notices,
              passedOver, silences>>
agentVars == <<agent, told, procs>>
taskVars == <<pending, late, notices>>
checkVars == <<passedOver, silences>>

PeerInit ==
    /\ agent = [p \in Launches |-> "none"] /\ told = {} /\ procs = NoLaunch
    /\ lock = Unlocked
    /\ call = [d \in Delegations |-> [at |-> "none", launched |-> NoLaunch]]
    /\ work = [d \in Delegations |-> "none"]
    /\ pending = {} /\ late = {}
    /\ poller = [at |-> "asleep", left |-> {}, victim |-> NoLaunch]
    /\ notices = [d \in Delegations |-> 0]
    /\ passedOver = {} /\ silences = 0

Alive == {p \in Launches : agent[p] \in {"starting", "serving"}}
Serving == {p \in Launches : agent[p] = "serving"}
InCall == {"lock", "health", "spawning", "starting", "ready", "sent"}

To(d, at) == call' = [call EXCEPT ![d].at = at]
Release == lock' = Unlocked

-----------------------------------------------------------------------------
(* PeerAgentTool.execute and PeerProcessManager.ensure_ready.              *)

Delegate(d) ==
    /\ call[d].at = "none"
    /\ To(d, "lock")
    /\ UNCHANGED <<agentVars, lock, work, taskVars, poller, checkVars>>

\* Variant: ensure_ready without its lock.
LockNothing(d) ==
    /\ call[d].at = "lock"
    /\ lock' = d /\ To(d, "health")
    /\ UNCHANGED <<agentVars, work, taskVars, poller, checkVars>>

AcquireLock(d) ==
    /\ call[d].at = "lock" /\ lock = Unlocked
    /\ lock' = d /\ To(d, "health")
    /\ UNCHANGED <<agentVars, work, taskVars, poller, checkVars>>

\* The health check passes, at once or while the launched process starts: it asks
\* the address, whichever process answers there.
Healthy(d) ==
    /\ \/ call[d].at = "health"
       \/ (call[d].at = "starting" /\ agent[call[d].launched] # "exited")
    /\ Serving # {}
    /\ Release /\ To(d, "ready")
    /\ UNCHANGED <<agentVars, work, taskVars, poller, checkVars>>

\* It fails: nothing serves there, or what does is silent for two seconds.
Unhealthy(d) ==
    /\ call[d].at = "health"
    /\ \/ Serving = {} /\ UNCHANGED silences
       \/ Serving # {} /\ silences < MaxSilences /\ silences' = silences + 1
    /\ To(d, "spawning")
    /\ passedOver' = passedOver \cup Alive
    /\ UNCHANGED <<agentVars, lock, work, taskVars, poller>>

\* _spawn: the new process takes the entry, whatever it held.
Spawn(d) ==
    /\ call[d].at = "spawning"
    /\ \E p \in Launches :
        /\ agent[p] = "none" /\ \A q \in 1 .. p - 1 : agent[q] # "none"
        /\ agent' = [agent EXCEPT ![p] = "starting"]
        /\ procs' = p
        /\ call' = [call EXCEPT ![d] = [at |-> "starting", launched |-> p]]
    /\ UNCHANGED <<told, lock, work, taskVars, poller, checkVars>>

StartIsDoomed(d) ==
    \/ call[d].at = "spawning"
    \/ call[d].at = "starting" /\ agent[call[d].launched] = "exited"

\* The launcher cannot be run, or the process is gone at the next look.
StartFails(d) ==
    /\ StartIsDoomed(d)
    /\ Release /\ To(d, "over")
    /\ UNCHANGED <<agentVars, work, taskVars, poller, checkVars>>

\* startup_timeout_s have passed: SIGTERM, and the entry is dropped unawaited.
StartTimesOut(d) ==
    /\ call[d].at = "starting" /\ Serving = {} /\ agent[call[d].launched] # "exited"
    /\ told' = told \cup {call[d].launched} /\ procs' = NoLaunch
    /\ Release /\ To(d, "over")
    /\ UNCHANGED <<agent, work, taskVars, poller, checkVars>>

\* _submit_task: the agent accepts the task; the answer is on its way.
Submit(d) ==
    /\ call[d].at = "ready" /\ Serving # {}
    /\ work' = [work EXCEPT ![d] = "working"]
    /\ To(d, "sent")
    /\ UNCHANGED <<agentVars, lock, taskVars, poller, checkVars>>

\* No connection, or no answer: the tool reports an error.
SubmitFails(d) ==
    /\ \/ call[d].at = "ready" /\ Serving = {}
       \/ call[d].at = "sent"
    /\ To(d, "over")
    /\ UNCHANGED <<agentVars, lock, work, taskVars, poller, checkVars>>

\* The answer is there: register, and the tool returns.
Register(d) ==
    /\ call[d].at = "sent"
    /\ pending' = pending \cup {d}
    /\ To(d, "over")
    /\ UNCHANGED <<agentVars, lock, work, late, notices, poller, checkVars>>

\* The turn that made the call is cancelled; async with gives the lock back.
CancelCall(d) ==
    /\ call[d].at \in InCall
    /\ lock' = IF lock = d THEN Unlocked ELSE lock
    /\ To(d, "over")
    /\ UNCHANGED <<agentVars, work, taskVars, poller, checkVars>>

-----------------------------------------------------------------------------
(* The agent's process.                                                    *)

ComeUp(p) ==
    /\ agent[p] = "starting" /\ Serving = {}
    /\ agent' = [agent EXCEPT ![p] = "serving"]
    /\ UNCHANGED <<told, procs, lock, call, work, taskVars, poller, checkVars>>

\* What a process that exits was working on, or has not been asked about, is gone.
WorkAfter(p) ==
    [d \in Delegations |->
        IF agent[p] = "serving" /\ work[d] # "none" THEN "gone" ELSE work[d]]

\* On SIGTERM, because the port is taken, or by itself.
AgentExits(p) ==
    /\ p \in Alive
    /\ agent' = [agent EXCEPT ![p] = "exited"]
    /\ work' = WorkAfter(p)
    /\ UNCHANGED <<told, procs, lock, call, taskVars, poller, checkVars>>

EndWork(d) ==
    /\ work[d] = "working"
    /\ \E outcome \in {"completed", "failed"} : work' = [work EXCEPT ![d] = outcome]
    /\ UNCHANGED <<agentVars, lock, call, taskVars, poller, checkVars>>

GrowLate(d) ==
    /\ d \in pending \ late
    /\ late' = late \cup {d}
    /\ UNCHANGED <<agentVars, lock, call, work, pending, notices, poller, checkVars>>

-----------------------------------------------------------------------------
(* PeerAgentPoller._loop, PeerProcessManager.terminate, CoreRuntime.stop.  *)

Wake ==
    /\ poller.at = "asleep"
    /\ poller' = [poller EXCEPT !.at = "round", !.left = pending]
    /\ UNCHANGED <<agentVars, lock, call, work, taskVars, checkVars>>

\* _check of an ended or overdue task: forgotten, announced, then terminate.
Conclude(d) ==
    /\ pending' = pending \ {d} /\ late' = late \ {d}
    /\ notices' = [notices EXCEPT ![d] = @ + 1]
    /\ poller' = [poller EXCEPT !.at = "ending", !.left = @ \ {d}]
    /\ UNCHANGED <<agentVars, lock, call, work, checkVars>>

\* Variant: no hard timeout.
ConcludeEndedOnly(d) ==
    /\ poller.at = "round" /\ d \in poller.left
    /\ Serving # {} /\ work[d] \in {"completed", "failed"}
    /\ Conclude(d)

ConcludeDue(d) ==
    /\ poller.at = "round" /\ d \in poller.left
    /\ \/ d \in late
       \/ Serving # {} /\ work[d] \in {"completed", "failed"}
    /\ Conclude(d)

\* Still working, or an error: the agent is gone, silent, or does not know the task.
KeepPending(d) ==
    /\ poller.at = "round" /\ d \in poller.left \ late
    /\ poller' = [poller EXCEPT !.left = @ \ {d}]
    /\ UNCHANGED <<agentVars, lock, call, work, taskVars, checkVars>>

RoundEnds ==
    /\ poller.at = "round" /\ poller.left = {}
    /\ poller' = [poller EXCEPT !.at = "asleep"]
    /\ UNCHANGED <<agentVars, lock, call, work, taskVars, checkVars>>

\* terminate: the lock, the entry, and SIGTERM when the process still runs.
Terminate(killing, next) ==
    /\ lock = Unlocked
    /\ procs' = NoLaunch
    /\ IF procs \in Alive
       THEN /\ lock' = Poller /\ told' = told \cup {procs}
            /\ poller' = [poller EXCEPT !.at = killing, !.victim = procs]
       ELSE /\ UNCHANGED <<lock, told>>
            /\ poller' = [poller EXCEPT !.at = next]
    /\ UNCHANGED <<agent, call, work, taskVars, checkVars>>

\* It has exited, by itself or, after shutdown_timeout_s, on SIGKILL.
AgentKilled(next) ==
    /\ agent' = [agent EXCEPT ![poller.victim] = "exited"]
    /\ work' = IF poller.victim \in Alive THEN WorkAfter(poller.victim) ELSE work
    /\ Release
    /\ poller' = [poller EXCEPT !.at = next, !.victim = NoLaunch]
    /\ UNCHANGED <<told, procs, call, taskVars, checkVars>>

TerminateAgent == poller.at = "ending" /\ Terminate("killing", "round")
KillAgent == poller.at = "killing" /\ AgentKilled("round")

\* CoreRuntime.stop: the poller is cancelled where it is.  In the middle of _kill
\* that is after SIGTERM and before SIGKILL.
StopPoller ==
    /\ poller.at \in {"asleep", "round", "ending", "killing"}
    /\ lock' = IF lock = Poller THEN Unlocked ELSE lock
    /\ poller' = [at |-> IF procs = NoLaunch THEN "closed" ELSE "closing",
                  left |-> {}, victim |-> NoLaunch]
    /\ UNCHANGED <<agentVars, call, work, taskVars, checkVars>>

\* shutdown_all, for the entry there was when it looked.
CloseAgent == poller.at = "closing" /\ Terminate("closingKill", "closed")
CloseKill == poller.at = "closingKill" /\ AgentKilled("closed")

-----------------------------------------------------------------------------
CallStep(d) ==
    \/ AcquireLock(d) \/ Healthy(d) \/ Unhealthy(d) \/ Spawn(d) \/ StartFails(d)
    \/ StartTimesOut(d) \/ Submit(d) \/ SubmitFails(d) \/ Register(d)

PollerStep ==
    \/ Wake \/ RoundEnds \/ TerminateAgent \/ KillAgent
    \/ \E d \in Delegations : ConcludeDue(d) \/ KeepPending(d)

PeerNext ==
    \/ \E d \in Delegations :
        Delegate(d) \/ CallStep(d) \/ CancelCall(d) \/ EndWork(d) \/ GrowLate(d)
    \/ \E p \in Launches : ComeUp(p) \/ AgentExits(p)
    \/ PollerStep \/ StopPoller \/ CloseAgent \/ CloseKill

PeerSpec == PeerInit /\ [][PeerNext]_peerVars

\* Each wait of a call and of the poller ends: the lock is first come first served,
\* requests and starts have time limits, SIGKILL ends a process; time passes.  The
\* agent itself owes nothing.
PeerFairness ==
    /\ \A d \in Delegations : WF_peerVars(CallStep(d)) /\ WF_peerVars(GrowLate(d))
    /\ WF_peerVars(PollerStep)

PeerFairSpec == PeerSpec /\ PeerFairness

-----------------------------------------------------------------------------
PeerTypeOK ==
    /\ agent \in [Launches -> {"none", "starting", "serving", "exited"}]
    /\ told \subseteq Launches /\ passedOver \subseteq Launches
    /\ procs \in Launches \cup {NoLaunch}
    /\ lock \in Delegations \cup {Unlocked, Poller}
    /\ call \in [Delegations -> [at : InCall \cup {"none", "over"},
                                 launched : Launches \cup {NoLaunch}]]
    /\ work \in [Delegations -> {"none", "working", "completed", "failed", "gone"}]
    /\ pending \subseteq Delegations /\ late \subseteq pending
    /\ poller \in [at : {"asleep", "round", "ending", "killing", "closing",
                         "closingKill", "closed"},
                   left : SUBSET Delegations, victim : Launches \cup {NoLaunch}]
    /\ notices \in [Delegations -> 0 .. 1]
    /\ silences \in 0 .. MaxSilences

\* A running process of the agent that was not told to stop, and that no failed
\* health check passed over, is the one terminate and shutdown_all would find: two
\* calls that need the agent at once do not launch it twice (process_manager.py:121).
AgentIsTerminable == \A p \in Alive \ (told \cup passedOver) : p = procs

\* The end of a registered task is announced in its chat: when it completed or
\* failed, and at the hard timeout when the agent was terminated under it, because
\* another of its tasks ended, or died, hangs or forgot it (poller.py:94-116).
TasksReported ==
    \A d \in Delegations :
        d \in pending ~> notices[d] = 1 \/ poller.at \in {"closing", "closingKill", "closed"}
=============================================================================

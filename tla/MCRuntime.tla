------------------------------ MODULE MCRuntime ------------------------------
(***************************************************************************)
(* The components of the running process on one small instance each: the   *)
(* turn loop, the scheduler, the proactive tick, shell commands,           *)
(* subagents, the reasoner's loop, the vector memory, a peer agent, the    *)
(* MCP servers and one server's calls.  They share no variable: focus,     *)
(* chosen at the start, says which of them a behaviour exercises, and the  *)
(* others stay as they were.                                               *)
(***************************************************************************)
EXTENDS AgentLoop, Scheduler, ProactiveTick, ShellTasks, Subagents, Reasoner,
        LongTermMemory, PeerAgents, McpRegistry, McpCalls, TLC

CONSTANTS f1, f2

\* What the model asks for in one answer: a tool, a deferred tool it has not
\* loaded, a search followed by the tool it finds, a tool the guard does not
\* count with one a background turn may not use.
SomeBatches ==
    {<<"read">>, <<"hidden", "read">>, <<"search", "hidden">>, <<"poll", "push">>}

AllResemble == {<<f1, f2>>, <<f2, f1>>}

VARIABLE focus

RuntimeInit ==
    /\ focus \in {"loop", "scheduler", "tick", "shell", "spawn", "react", "memory",
                 "peer", "servers", "calls"}
    /\ Init /\ ScheduleInit /\ TickInit /\ ShellInit /\ SpawnInit /\ ReactInit /\ LtmInit
    /\ PeerInit /\ ServersInit /\ CallsInit
    /\ focus # "servers" => serversFile = {}

runtimeVars ==
    <<focus, vars, schedVars, tickVars, shellVars, spawnVars, reactVars, ltmVars,
      peerVars, serverVars, callVars>>

RuntimeNext ==
    \/ /\ focus = "loop" /\ Next
       /\ UNCHANGED <<focus, schedVars, tickVars, shellVars, spawnVars, reactVars, ltmVars,
                      peerVars, serverVars, callVars>>
    \/ /\ focus = "scheduler" /\ ScheduleNext
       /\ UNCHANGED <<focus, vars, tickVars, shellVars, spawnVars, reactVars, ltmVars,
                      peerVars, serverVars, callVars>>
    \/ /\ focus = "tick" /\ TickNext
       /\ UNCHANGED <<focus, vars, schedVars, shellVars, spawnVars, reactVars, ltmVars,
                      peerVars, serverVars, callVars>>
    \/ /\ focus = "shell" /\ ShellNext
       /\ UNCHANGED <<focus, vars, schedVars, tickVars, spawnVars, reactVars, ltmVars,
                      peerVars, serverVars, callVars>>
    \/ /\ focus = "spawn" /\ SpawnNext
       /\ UNCHANGED <<focus, vars, schedVars, tickVars, shellVars, reactVars, ltmVars,
                      peerVars, serverVars, callVars>>
    \/ /\ focus = "react" /\ ReactNext
       /\ UNCHANGED <<focus, vars, schedVars, tickVars, shellVars, spawnVars, ltmVars,
                      peerVars, serverVars, callVars>>
    \/ /\ focus = "memory" /\ LtmNext
       /\ UNCHANGED <<focus, vars, schedVars, tickVars, shellVars, spawnVars, reactVars,
                      peerVars, serverVars, callVars>>
    \/ /\ focus = "peer" /\ PeerNext
       /\ UNCHANGED <<focus, vars, schedVars, tickVars, shellVars, spawnVars, reactVars,
                      ltmVars, serverVars, callVars>>
    \/ /\ focus = "servers" /\ ServersNext
       /\ UNCHANGED <<focus, vars, schedVars, tickVars, shellVars, spawnVars, reactVars,
                      ltmVars, peerVars, callVars>>
    \/ /\ focus = "calls" /\ CallsNext
       /\ UNCHANGED <<focus, vars, schedVars, tickVars, shellVars, spawnVars, reactVars,
                      ltmVars, peerVars, serverVars>>

RuntimeSpec == RuntimeInit /\ [][RuntimeNext]_runtimeVars

\* The fairness each component states, for its own behaviours.
RuntimeFairness ==
    /\ WF_vars(focus = "loop" /\ Consume)
    /\ WF_vars(focus = "loop" /\ Collect)
    /\ WF_vars(focus = "loop" /\ StartTurn)
    /\ \A t \in Tasks : WF_vars(focus = "loop" /\ Advance(t))
    /\ \A d \in DirectTasks : WF_vars(focus = "loop" /\ EndDirect(d))
    /\ WF_schedVars(focus = "scheduler" /\ \E lead \in 0 .. MaxLead : Tick(lead))
    /\ \A e \in Entries : WF_schedVars(focus = "scheduler" /\ Execute(e))
    /\ WF_tickVars(focus = "tick" /\ TickStep)
    /\ \A c \in Commands :
        /\ WF_shellVars(/\ focus = "shell"
                        /\ \/ WaitReturns(c) \/ Promote(c)
                           \/ FinalizeTimedOut(c) \/ Reaped(c))
        /\ WF_shellVars(focus = "shell" /\ PumpEnds(c))
        /\ WF_shellVars(focus = "shell" /\ BgTimeout(c))
        /\ WF_shellVars(focus = "shell" /\ (ReadReturns(c) \/ ReadCut(c)))
        /\ WF_shellVars(focus = "shell" /\ Evict(c))
    /\ \A j \in SpawnedJobs : WF_spawnVars(focus = "spawn" /\ SubagentStep(j))
    /\ WF_reactVars(focus = "react" /\ ReactProgress)
    /\ \A g \in Delegations :
        /\ WF_peerVars(focus = "peer" /\ CallStep(g))
        /\ WF_peerVars(focus = "peer" /\ GrowLate(g))
    /\ WF_peerVars(focus = "peer" /\ PollerStep)

RuntimeFairSpec == RuntimeSpec /\ RuntimeFairness

\* Chats and callers of process_direct are interchangeable; sound where no
\* liveness is checked.
RuntimeSymmetry == Permutations(Chats) \cup Permutations(DirectTasks)

\* The type invariants of the components.
RuntimeTypesOK ==
    /\ TypeOK /\ ScheduleTypeOK /\ TickTypeOK /\ ShellTypeOK /\ SpawnTypeOK
    /\ ReactTypeOK /\ LtmTypeOK /\ PeerTypeOK /\ ServersTypeOK /\ CallsTypeOK

\* DueEntriesRun, in the behaviours in which the scheduler runs: whatever is due
\* is started, whichever entry waits before it.
DueEntriesStart == focus = "scheduler" => DueEntriesRun
=============================================================================

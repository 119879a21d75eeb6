--------------------------- MODULE RuntimeProofs ---------------------------
(***************************************************************************)
(* The running process as TLC checks it, for any value of the constants: a   *)
(* behaviour of MCRuntime is a behaviour of every component, so that what is *)
(* a theorem about a component alone is one about the process.               *)
(***************************************************************************)
EXTENDS MCRuntime, AgentLoopProofs, SchedulerProofs, ProactiveTickProofs,
        BackgroundProofs, LongTermMemoryProofs

\* A component that is not in focus stutters: what the process does is, to each of
\* its components, a step of that component or nothing.
LEMMA EachComponentSteps ==
  [RuntimeNext]_runtimeVars =>
    /\ [Next]_vars
    /\ [ScheduleNext]_schedVars
    /\ [TickNext]_tickVars
    /\ [ShellNext]_shellVars
    /\ [SpawnNext]_spawnVars
    /\ [ReactNext]_reactVars
    /\ [LtmNext]_ltmVars
    /\ [PeerNext]_peerVars
    /\ [ServersNext]_serverVars
    /\ [CallsNext]_callVars
BY DEF RuntimeNext, runtimeVars

\* The process starts with every component in its initial state.
LEMMA EachComponentStarts ==
  RuntimeInit =>
    /\ Init /\ ScheduleInit /\ TickInit /\ ShellInit /\ SpawnInit
    /\ ReactInit /\ LtmInit /\ PeerInit /\ ServersInit /\ CallsInit
BY DEF RuntimeInit

\* Every behaviour of the process is one of the turn loop, of the scheduler, of the
\* proactive tick and so on: putting them side by side adds no behaviour to any.
THEOREM ProcessRunsComponents ==
  RuntimeSpec =>
    /\ Spec /\ ScheduleSpec /\ TickSpec /\ ShellSpec /\ SpawnSpec
    /\ ReactSpec /\ LtmSpec /\ PeerSpec /\ ServersSpec /\ CallsSpec
BY EachComponentStarts, EachComponentSteps, PTL
   DEF RuntimeSpec, Spec, ScheduleSpec, TickSpec, ShellSpec, SpawnSpec,
       ReactSpec, LtmSpec, PeerSpec, ServersSpec, CallsSpec

\* All variables of the process keep their types.
THEOREM ProcessTypesCorrect == RuntimeSpec => []RuntimeTypesOK
<1>1. /\ TypeOK /\ ScheduleTypeOK /\ TickTypeOK /\ ShellTypeOK /\ SpawnTypeOK
      /\ ReactTypeOK /\ LtmTypeOK /\ PeerTypeOK /\ ServersTypeOK /\ CallsTypeOK
      => RuntimeTypesOK
  BY DEF RuntimeTypesOK
<1> QED
  BY <1>1, ProcessRunsComponents, LoopTypeCorrect, ScheduleTypeCorrect, TickTypeCorrect,
     ShellTypeCorrect, SpawnTypeCorrect, ReactTypeCorrect, LtmTypeCorrect,
     PeerTypeCorrect, ServersTypeCorrect, CallsTypeCorrect, PTL

\* What the process never does, whichever component a behaviour exercises: a second
\* interruptible turn, an answer twice, a busy count that is off, two executions of a
\* job, a message sent twice, a command or an agent out of reach, an open transcript.
THEOREM ProcessIsSafe ==
  RuntimeSpec =>
    /\ [](/\ OneInterruptibleTurn /\ AnsweredIsOver /\ BusyMatchesTurns
          /\ NoOverlap /\ PendingIsDurable
          /\ SentOnce /\ OneDeliveryPerWindow /\ NothingDropped
          /\ RunningIsReachable /\ EndedJobAnnounced /\ CallsAnswered
          /\ TranscriptClosed /\ ReplyRecordsAttempt /\ PreferencesDistinct
          /\ AgentIsTerminable /\ LoneCallGetsItsAnswer)
    /\ NoReplyAfterStop /\ OccurrenceStartedOnce /\ SavedIsActive
    /\ RedeliveryRevivesNothing /\ LifecycleSpec
BY ProcessRunsComponents,
   InterruptTargetsTheTurn, AnsweredOnce, BusyIsExact, StoppedIsSilent,
   LoopFollowsLifecycle, ExecutionsExclude, CrashLosesOnlyTornSaves,
   OccurrencesAreDistinct, CitedItemsSentOnce, CooldownHolds, LeavesOnlyForAReason,
   NoOrphans, EndingsAnnounced, TranscriptsComplete, EveryCallHasAResult,
   NothingRanUnrecorded, PreferencesStayDistinct, SavedItemsAreActive,
   RedeliveryIsQuiet, AgentsAreTerminable, LoneCallsAreAnswered, PTL
=============================================================================

------------------------------ MODULE AgentLoop ------------------------------
(***************************************************************************)
(* The passive turn loop of agent_runtime: AgentLoop.run takes one inbound *)
(* item at a time and awaits the task that processes it; channels cancel   *)
(* that task through request_interrupt, outside the message bus; scheduled *)
(* jobs run further turns through process_direct, concurrently, on the     *)
(* same tool registry and the same busy counters.                          *)
(*                                                                         *)
(* asyncio runs one coroutine at a time and switches only at an await that *)
(* suspends, so a step is the code from one such await to the next.        *)
(***************************************************************************)
EXTENDS Naturals, Sequences, FiniteSets

CONSTANTS
    Chats,        \* chat session keys, "channel:chat_id"
    DirectKeys,   \* session keys of process_direct, "scheduler:<job id>"
    MainTask,     \* the task AgentLoop.run creates and awaits
    DirectTasks,  \* callers of process_direct that may run at once
    NoChat,       \* the key and chat of a task that is not there
    MaxItems,     \* bound: inbound items published in a behaviour
    Shutdowns     \* bound: BOOLEAN, whether a shutdown signal may arrive

ASSUME LoopConstants ==
    /\ MainTask \notin DirectTasks
    /\ Chats \cap DirectKeys = {}
    /\ NoChat \notin Chats \cup DirectKeys
    /\ IsFiniteSet(DirectTasks)
    /\ MaxItems \in Nat
    /\ Shutdowns \in BOOLEAN

Tasks == {MainTask} \cup DirectTasks
Keys == Chats \cup DirectKeys
ItemIds == 1 .. MaxItems

VARIABLES
    inbound,      \* MessageBus._inbound, a queue of items
    published,    \* number of items published so far; names the next one
    loop,         \* where AgentLoop.run stands
    turn,         \* the task of each caller of _process
    activeTask,   \* AgentLoop._active_tasks: the chats it has an entry for
    activeState,  \* AgentLoop._active_turn_states: the request text kept
    parked,       \* AgentLoop._interrupt_states
    busy,         \* ProcessingState._counts
    toolContext,  \* ToolRegistry._context: the chat tools act for
    stopping,     \* a shutdown signal has cancelled run()
    answered,     \* history: requests a reply has been dispatched for
    failed,       \* history: requests whose turn ended in an error notice
    promised      \* history: requests their sender was told are kept, until
                  \* they are answered, failed with a notice, or too old

vars == <<inbound, published, loop, turn, activeTask, activeState, parked,
          busy, toolContext, stopping, answered, failed, promised>>

-----------------------------------------------------------------------------
(* A request's text is abstracted to the set of ids whose text it includes: *)
(* a resumed message contains the interrupted request's text and its own.   *)

Item == [id : ItemIds, chat : Chats, kind : {"user", "spawn"}]

\* The awaits of _process at which a task can be suspended.
Running == {"observing", "preparing", "reasoning", "committed"}
Done == {"ok", "error", "cancelled"}
\* Between processing_state.enter and processing_state.exit.
InCore == {"preparing", "reasoning", "committed"}

Turn == [pc : {"idle", "created"} \cup Running \cup Done,
         key : Keys \cup {NoChat}, chat : Chats \cup {NoChat}, kind : {"user", "spawn", "direct"},
         carries : SUBSET ItemIds, resumed : BOOLEAN, cancel : BOOLEAN]

Kept == [carries : SUBSET ItemIds, expired : BOOLEAN]

NoState == [carries |-> {}, expired |-> FALSE]

IdleTurn == [pc |-> "idle", key |-> NoChat, chat |-> NoChat, kind |-> "direct",
             carries |-> {}, resumed |-> FALSE, cancel |-> FALSE]

Init ==
    /\ inbound = <<>>
    /\ published = 0
    /\ loop = "consume"
    /\ turn = [t \in Tasks |-> IdleTurn]
    /\ activeTask = {}
    /\ activeState = [c \in Chats |-> {}]
    /\ parked = [c \in Chats |-> NoState]
    /\ busy = [k \in Keys |-> 0]
    /\ toolContext = NoChat
    /\ stopping = FALSE
    /\ answered = {}
    /\ failed = {}
    /\ promised = {}

-----------------------------------------------------------------------------
(* The message bus and AgentLoop.run                                        *)

\* A channel publishes a user message, or a subagent its completion.
PublishInbound(c, kind) ==
    /\ published < MaxItems
    /\ published' = published + 1
    /\ inbound' = Append(inbound, [id |-> published + 1, chat |-> c, kind |-> kind])
    /\ UNCHANGED <<loop, turn, activeTask, activeState, parked, busy, toolContext,
                   stopping, answered, failed, promised>>

\* Variant: run() does not await the task it created.
ConsumeWithoutAwait ==
    /\ inbound # <<>>
    /\ LET item == Head(inbound) IN
       /\ inbound' = Tail(inbound)
       /\ activeState' = [activeState EXCEPT ![item.chat] = {item.id}]
       /\ activeTask' = activeTask \cup {item.chat}
       /\ turn' = [turn EXCEPT ![MainTask] =
             [pc |-> "created", key |-> item.chat, chat |-> item.chat,
              kind |-> item.kind, carries |-> {item.id}, resumed |-> FALSE,
              cancel |-> FALSE]]
    /\ loop' = "await"
    /\ UNCHANGED <<published, parked, busy, toolContext, stopping, answered,
                   failed, promised>>

\* run(): take an item, keep its text, create its task and await it.
Consume ==
    /\ loop = "consume"
    /\ inbound # <<>>
    /\ LET item == Head(inbound) IN
       /\ inbound' = Tail(inbound)
       /\ activeState' = [activeState EXCEPT ![item.chat] = {item.id}]
       /\ activeTask' = activeTask \cup {item.chat}
       /\ turn' = [turn EXCEPT ![MainTask] =
             [pc |-> "created", key |-> item.chat, chat |-> item.chat,
              kind |-> item.kind, carries |-> {item.id}, resumed |-> FALSE,
              cancel |-> FALSE]]
    /\ loop' = "await"
    /\ UNCHANGED <<published, parked, busy, toolContext, stopping, answered,
                   failed, promised>>

\* Variant: the entries of the chat are not removed.
CollectKeepsEntries ==
    LET t == turn[MainTask] IN
    /\ loop = "await"
    /\ t.pc \in Done
    /\ failed' = IF t.pc = "error" THEN failed \cup (t.carries \ parked[t.key].carries)
                                   ELSE failed
    /\ turn' = [turn EXCEPT ![MainTask] = IdleTurn]
    /\ loop' = "consume"
    /\ UNCHANGED <<inbound, published, activeTask, activeState, parked, busy,
                   toolContext, stopping, answered, promised>>

\* Variant: a cancelled turn ends run().
CollectNotSwallowing ==
    LET t == turn[MainTask] IN
    /\ loop = "await"
    /\ t.pc \in Done
    /\ failed' = IF t.pc = "error" THEN failed \cup (t.carries \ parked[t.key].carries)
                                   ELSE failed
    /\ activeTask' = activeTask \ {t.key}
    /\ activeState' = [activeState EXCEPT ![t.key] = {}]
    /\ turn' = [turn EXCEPT ![MainTask] = IdleTurn]
    /\ loop' = IF t.pc = "cancelled" THEN "stopped" ELSE "consume"
    /\ UNCHANGED <<inbound, published, parked, busy, toolContext, stopping,
                   answered, promised>>

\* run() wakes up on the finished task: an exception becomes an error notice,
\* a cancellation is swallowed, and the entries of the chat are removed.
Collect ==
    LET t == turn[MainTask] IN
    /\ loop = "await"
    /\ t.pc \in Done
    /\ failed' = IF t.pc = "error" THEN failed \cup (t.carries \ parked[t.key].carries)
                                   ELSE failed
    /\ activeTask' = activeTask \ {t.key}
    /\ activeState' = [activeState EXCEPT ![t.key] = {}]
    /\ turn' = [turn EXCEPT ![MainTask] = IdleTurn]
    /\ loop' = "consume"
    /\ UNCHANGED <<inbound, published, parked, busy, toolContext, stopping,
                   answered, promised>>

\* task.cancel() on run() while it awaits its task: a live task gets the
\* cancellation, a failed one has its exception replaced by it.
CancelAwaited(t) ==
    CASE t.pc = "error" -> [t EXCEPT !.pc = "cancelled"]
      [] t.pc \in {"ok", "cancelled"} -> t
      [] OTHER -> [t EXCEPT !.cancel = TRUE]

\* A shutdown signal cancels AppRuntime.run, hence run(): the wait for an item
\* ends it, but a cancellation that arrives at "await task" is swallowed there.
Shutdown ==
    /\ Shutdowns
    /\ ~stopping
    /\ stopping' = TRUE
    /\ \/ /\ loop = "consume"
          /\ loop' = "stopped"
          /\ UNCHANGED turn
       \/ /\ loop = "await"
          /\ turn' = [turn EXCEPT ![MainTask] = CancelAwaited(@)]
          /\ UNCHANGED loop
    /\ UNCHANGED <<inbound, published, activeTask, activeState, parked, busy,
                   toolContext, answered, failed, promised>>

-----------------------------------------------------------------------------
(* The interrupt control plane                                              *)

\* Variant: the text is kept but the task is not cancelled.
InterruptWithoutCancel(c) ==
    /\ c \in activeTask
    /\ turn[MainTask].pc \notin Done
    /\ parked' = [parked EXCEPT ![c] = [carries |-> activeState[c], expired |-> FALSE]]
    /\ promised' = promised \cup activeState[c]
    /\ UNCHANGED <<inbound, published, loop, turn, activeTask, activeState, busy,
                   toolContext, stopping, answered, failed>>

\* request_interrupt: a channel saw /stop.  Without a live task it answers
\* "idle" and changes nothing; with one it keeps the active text and cancels.
RequestInterrupt(c) ==
    /\ c \in activeTask
    /\ turn[MainTask].pc \notin Done
    /\ parked' = [parked EXCEPT ![c] = [carries |-> activeState[c], expired |-> FALSE]]
    /\ promised' = promised \cup activeState[c]
    /\ turn' = [turn EXCEPT ![MainTask].cancel = TRUE]
    /\ UNCHANGED <<inbound, published, loop, activeTask, activeState, busy,
                   toolContext, stopping, answered, failed>>

\* Thirty minutes pass over a kept state.
Expire(c) ==
    /\ parked[c].carries # {}
    /\ ~parked[c].expired
    /\ parked' = [parked EXCEPT ![c].expired = TRUE]
    /\ promised' = promised \ parked[c].carries
    /\ UNCHANGED <<inbound, published, loop, turn, activeTask, activeState, busy,
                   toolContext, stopping, answered, failed>>

-----------------------------------------------------------------------------
(* _process, shared by the main task and by direct turns                    *)

\* A task's next step raises CancelledError once cancel() was called on it.
Live(t) == ~turn[t].cancel

\* _get_interrupt_state: an expired entry is removed and not used.
Usable(c) == parked[c].carries # {} /\ ~parked[c].expired

\* First step of the main task.  A task cancelled before it never runs its
\* body.  A user message picks up the chat's interrupt state, which stays in
\* place until the turn has completed; a spawn completion does not.
StartTurn ==
    LET t == turn[MainTask]
        picksUp == t.kind = "user" /\ Usable(t.key)
        text == IF picksUp THEN t.carries \cup parked[t.key].carries ELSE t.carries
    IN
    /\ t.pc = "created"
    /\ IF t.cancel
       THEN /\ turn' = [turn EXCEPT ![MainTask].pc = "cancelled"]
            /\ UNCHANGED <<parked, activeState>>
       ELSE /\ turn' = [turn EXCEPT ![MainTask] =
                 [@ EXCEPT !.pc = "observing", !.carries = text, !.resumed = picksUp]]
            /\ parked' = IF t.kind = "user" /\ parked[t.key].expired
                         THEN [parked EXCEPT ![t.key] = NoState] ELSE parked
            /\ activeState' = IF picksUp THEN [activeState EXCEPT ![t.key] = text]
                                         ELSE activeState
    /\ UNCHANGED <<inbound, published, loop, activeTask, busy, toolContext, stopping,
                   answered, failed, promised>>

\* process_direct: the caller's own task runs _process under its own key, on
\* behalf of a chat.  Nothing is ever parked under such a key.
StartDirect(d, k, c) ==
    /\ turn[d].pc = "idle"
    /\ turn' = [turn EXCEPT ![d] =
          [pc |-> "observing", key |-> k, chat |-> c, kind |-> "direct",
           carries |-> {}, resumed |-> FALSE, cancel |-> FALSE]]
    /\ UNCHANGED <<inbound, published, loop, activeTask, activeState, parked, busy,
                   toolContext, stopping, answered, failed, promised>>

\* TurnStarted has been observed: enter the busy state and the core runner.  A
\* spawn completion sets the tool context at once and starts reasoning.
Enter(t) ==
    /\ turn[t].pc = "observing"
    /\ Live(t)
    /\ busy' = [busy EXCEPT ![turn[t].key] = @ + 1]
    /\ IF turn[t].kind = "spawn"
       THEN /\ turn' = [turn EXCEPT ![t].pc = "reasoning"]
            /\ toolContext' = turn[t].chat
       ELSE /\ turn' = [turn EXCEPT ![t].pc = "preparing"]
            /\ UNCHANGED toolContext
    /\ UNCHANGED <<inbound, published, loop, activeTask, activeState, parked, stopping,
                   answered, failed, promised>>

\* before_reasoning.sync_tools: the registry's context becomes this turn's chat.
SyncTools(t) ==
    /\ turn[t].pc = "preparing"
    /\ Live(t)
    /\ toolContext' = turn[t].chat
    /\ turn' = [turn EXCEPT ![t].pc = "reasoning"]
    /\ UNCHANGED <<inbound, published, loop, activeTask, activeState, parked, busy,
                   stopping, answered, failed, promised>>

\* The after-reasoning phase has stored the turn; TurnCommitted is fanned out.
Commit(t) ==
    /\ turn[t].pc = "reasoning"
    /\ Live(t)
    /\ turn' = [turn EXCEPT ![t].pc = "committed"]
    /\ UNCHANGED <<inbound, published, loop, activeTask, activeState, parked, busy,
                   toolContext, stopping, answered, failed, promised>>

\* The end of _process: leave the busy state whatever the outcome.
Leave(t, outcome) ==
    /\ busy' = [busy EXCEPT ![turn[t].key] = IF @ > 0 THEN @ - 1 ELSE 0]
    /\ turn' = [turn EXCEPT ![t].pc = outcome]

\* Variant: a resumed turn leaves the interrupt state behind.
ReturnKeepsState(t) ==
    /\ Live(t)
    /\ Leave(t, "ok")
    /\ answered' = answered \cup turn[t].carries
    /\ promised' = promised \ turn[t].carries
    /\ UNCHANGED <<inbound, published, loop, activeTask, activeState, parked,
                   toolContext, stopping, failed>>

\* process() returned: the reply is dispatched unless the turn is a direct one,
\* and a resumed turn consumes the interrupt state it picked up.
Return(t) ==
    /\ Live(t)
    /\ Leave(t, "ok")
    /\ answered' = answered \cup turn[t].carries
    /\ promised' = promised \ turn[t].carries
    /\ parked' = IF turn[t].resumed THEN [parked EXCEPT ![turn[t].key] = NoState] ELSE parked
    /\ UNCHANGED <<inbound, published, loop, activeTask, activeState, toolContext,
                   stopping, failed>>

\* The reply is dispatched after the fanouts.
Finish(t) == turn[t].pc = "committed" /\ Return(t)

\* A plugin aborts the turn, or preparing or reasoning about a message raises:
\* a control reply is dispatched and the turn returns like any other.
ControlReply(t) ==
    /\ turn[t].pc \in {"preparing", "reasoning"}
    /\ turn[t].kind # "spawn"
    /\ Return(t)

\* An exception leaves _process: from the phases after reasoning, or from any
\* step of a spawn completion.
Raise(t) ==
    /\ turn[t].pc \in {"reasoning", "committed"}
    /\ Live(t)
    /\ Leave(t, "error")
    /\ UNCHANGED <<inbound, published, loop, activeTask, activeState, parked,
                   toolContext, stopping, answered, failed, promised>>

\* Variant: exit is not in a finally, so a cancellation skips it.
CancelledStaysBusy(t) ==
    /\ turn[t].pc \in Running
    /\ ~Live(t) \/ turn[t].pc = "reasoning"
    /\ turn' = [turn EXCEPT ![t].pc = "cancelled"]
    /\ UNCHANGED <<inbound, published, loop, activeTask, activeState, parked, busy,
                   toolContext, stopping, answered, failed, promised>>

\* Variant: the finally also covers the observers, and exit has no floor.
CancelledAlwaysExits(t) ==
    /\ turn[t].pc \in Running
    /\ ~Live(t) \/ turn[t].pc = "reasoning"
    /\ busy' = [busy EXCEPT ![turn[t].key] = @ - 1]
    /\ turn' = [turn EXCEPT ![t].pc = "cancelled"]
    /\ UNCHANGED <<inbound, published, loop, activeTask, activeState, parked,
                   toolContext, stopping, answered, failed, promised>>

\* CancelledError is raised at the await the task is suspended at: the task was
\* cancelled, or task_output waits for a background command that is killed
\* (ShellTasks!ReadCut), which cancels nobody but looks the same.
Cancelled(t) ==
    /\ turn[t].pc \in Running
    /\ ~Live(t) \/ turn[t].pc = "reasoning"
    /\ IF turn[t].pc \in InCore
       THEN Leave(t, "cancelled")
       ELSE turn' = [turn EXCEPT ![t].pc = "cancelled"] /\ UNCHANGED busy
    /\ UNCHANGED <<inbound, published, loop, activeTask, activeState, parked,
                   toolContext, stopping, answered, failed, promised>>

\* process_direct returns, or raises, to its caller.
EndDirect(d) ==
    /\ turn[d].pc \in Done
    /\ turn' = [turn EXCEPT ![d] = IdleTurn]
    /\ UNCHANGED <<inbound, published, loop, activeTask, activeState, parked, busy,
                   toolContext, stopping, answered, failed, promised>>

\* A step that takes the task out of the phase it is in.
Advance(t) == \/ Enter(t) \/ SyncTools(t) \/ Commit(t) \/ Finish(t)
              \/ ControlReply(t) \/ Raise(t) \/ Cancelled(t)

Next ==
    \/ \E c \in Chats, kind \in {"user", "spawn"} : PublishInbound(c, kind)
    \/ Consume
    \/ Collect
    \/ Shutdown
    \/ \E c \in Chats : RequestInterrupt(c)
    \/ \E c \in Chats : Expire(c)
    \/ StartTurn
    \/ \E d \in DirectTasks, k \in DirectKeys, c \in Chats : StartDirect(d, k, c)
    \/ \E t \in Tasks : Enter(t)
    \/ \E t \in Tasks : SyncTools(t)
    \/ \E t \in Tasks : Commit(t)
    \/ \E t \in Tasks : Finish(t)
    \/ \E t \in Tasks : ControlReply(t)
    \/ \E t \in Tasks : Raise(t)
    \/ \E t \in Tasks : Cancelled(t)
    \/ \E d \in DirectTasks : EndDirect(d)

Spec == Init /\ [][Next]_vars

\* The event loop runs every ready coroutine, and reasoning ends: a turn makes
\* at most max_iterations model calls, each with a stream timeout.
Fairness ==
    /\ WF_vars(Consume)
    /\ WF_vars(Collect)
    /\ WF_vars(StartTurn)
    /\ \A t \in Tasks : WF_vars(Advance(t))
    /\ \A d \in DirectTasks : WF_vars(EndDirect(d))

FairSpec == Spec /\ Fairness

-----------------------------------------------------------------------------
(* Properties                                                               *)

\* Every variable stays within its type.
TypeOK ==
    /\ inbound \in Seq(Item)
    /\ published \in 0 .. MaxItems
    /\ loop \in {"consume", "await", "stopped"}
    /\ turn \in [Tasks -> Turn]
    /\ activeTask \subseteq Chats
    /\ activeState \in [Chats -> SUBSET ItemIds]
    /\ parked \in [Chats -> Kept]
    /\ busy \in [Keys -> Nat]
    /\ toolContext \in Chats \cup {NoChat}
    /\ stopping \in BOOLEAN
    /\ answered \subseteq ItemIds
    /\ failed \subseteq ItemIds
    /\ promised \subseteq ItemIds

\* The turns of a session between enter and exit.
InCoreOf(k) == {t \in Tasks : turn[t].pc \in InCore /\ turn[t].key = k}

\* ProcessingState: a session is counted busy exactly once per turn that is
\* inside the core runner, whatever mix of replies, errors and cancellations
\* its turns end in.  The proactive loop relies on it to stay silent.
BusyMatchesTurns == \A k \in Keys : busy[k] = Cardinality(InCoreOf(k))

\* run() and the control plane agree: the chat that can be interrupted is the
\* chat of the turn run() awaits, and while one is awaited its text is kept.
OneInterruptibleTurn ==
    /\ loop = "await" => /\ activeTask = {turn[MainTask].key}
                         /\ activeState[turn[MainTask].key] = turn[MainTask].carries
    /\ loop # "await" => activeTask = {} /\ turn[MainTask].pc = "idle"

\* A request that has been answered is never kept for a later message: it is
\* not in the chat's interrupt state, not queued, and no live turn carries it.
AnsweredIsOver ==
    \A r \in answered :
        /\ \A c \in Chats : r \notin parked[c].carries
        /\ \A i \in 1 .. Len(inbound) : inbound[i].id # r
        /\ turn[MainTask].pc \notin {"idle", "ok"} => r \notin turn[MainTask].carries

\* Once /stop was acknowledged the turn it stopped dispatches nothing.  Its own
\* request is promised from then on, so every reply must be the reply of a turn
\* that carries at least one request nobody interrupted.
NoReplyAfterStop ==
    [][answered' # answered => \E r \in answered' \ answered : r \notin promised]_vars

\* A tool that a reasoning turn calls acts for that turn's chat: the context
\* ToolRegistry.execute merges into the arguments is the one the turn set.
ToolsActForOwnChat ==
    \A t \in Tasks : turn[t].pc = "reasoning" => toolContext = turn[t].chat

\* A request whose sender was told "interrupted, I will continue with it" stays
\* kept or carried until it is answered, failed with a notice, or too old.
InterruptedWorkKept ==
    \A r \in promised : \E c \in Chats : r \in parked[c].carries \cup activeState[c]

\* A published request is eventually settled: nothing stays queued or running
\* for ever, unless the process has been told to stop.
Queued(r) == \E i \in 1 .. Len(inbound) : inbound[i].id = r
Carried(r) == turn[MainTask].pc # "idle" /\ r \in turn[MainTask].carries
EveryRequestSettles ==
    \A r \in ItemIds :
        (Queued(r) \/ Carried(r)) ~> (~Queued(r) /\ ~Carried(r)) \/ stopping

\* A shutdown signal eventually ends run(), which AppRuntime.run waits for
\* before it releases anything.
ShutdownEndsLoop == stopping ~> loop = "stopped"

-----------------------------------------------------------------------------
(* The loop implements RequestLifecycle: where each request stands.         *)

Status(r) ==
    IF r > published THEN "unborn"
    ELSE IF r \in answered THEN "answered"
    ELSE IF Queued(r) THEN "queued"
    ELSE IF Carried(r) THEN "running"
    ELSE IF \E c \in Chats : r \in parked[c].carries THEN "parked"
    ELSE IF r \in failed THEN "failed"
    ELSE "dropped"

Lifecycle == INSTANCE RequestLifecycle
    WITH Requests <- ItemIds, status <- [r \in ItemIds |-> Status(r)]
LifecycleSpec == Lifecycle!Spec
=============================================================================

# A verification of kotarou-agent-runtime

kotarou-agent-runtime is an asyncio program that runs a personal assistant:
channels (Telegram, QQ, IPC) publish messages on a bus, one loop turns each of
them into a turn of model calls and tool calls, a scheduler and a proactive loop
start turns of their own, and a set of background jobs keeps the assistant's
memory. This directory holds TLA+ models of the parts in which the order of
events decides whether the program is right, TLC runs that check them on small
instances, and TLAPS proofs for all instances.

    tlc -workers 2 -config MCRuntime.cfg MCRuntime
    tlapm ProactiveTickProofs.tla

`PROJECT.json` lists the runs, the source lines of every definition, a
mutation of the code for every property, the findings and the hazards.

## 1. Inventory

Each entry gives the state a component keeps, its operations, how it meets the
others, and what makes it correct. The module that models it is in brackets.

**Passive turn loop** (`agent_runtime/looping`, `events/processing.py`)
[`AgentLoop`]. State: the inbound queue, `_active_tasks`, `_active_turn_states`,
`_interrupt_states` (in memory, 30 minutes), the busy counters. Operations:
`run` takes one item, creates its task and awaits it; `request_interrupt` is
called by a channel outside the bus, keeps the text of the running turn and
cancels its task; `process_direct` runs a turn for the scheduler at the same
time. Hard: a cancellation can arrive at any await, also at the one in `run`.
Correct: /stop acts on the turn that runs, a stopped turn is silent, its text
joins the next message once and never again after it was answered, and the busy
counters are exact, since the proactive loop relies on them.

**Turn pipeline** (`core/passive_turn.py`, `core/runner.py`, `lifecycle/phases`,
`looping/handlers.py`) [`AgentLoop`, `SessionCursor`]. A turn goes through
before-turn, before-reasoning (which sets the tool context), reasoning,
after-reasoning (which stores the messages) and after-turn (fan-outs, then the
dispatch). Failures up to reasoning become a reply, later ones an exception.
Subagent completions take a shorter path, in which every failure is an exception.

**Reasoner loop and tool guard** (`core/passive_turn.py`, `tool_hooks/executor.py`,
`tools/tool_search.py`, `plugins/tool_loop_guard`) [`Reasoner`]. State: the
transcript of an attempt, its visible tools and tool chain; per session the
preloaded tools and the guard's count. Operations: a list of context plans, each
a loop of model calls and batches of tool calls. Hard: a batch is cut short by the
guard, a refused context starts the loop again after its tools have acted, tools
become visible in the middle of a batch, the session outlives the turn. Correct: a
transcript sent to the model answers every call, the stored turn records what
ran, the turn ends.

**Tool registry** (`tools/registry.py`) [`AgentLoop`]. One dictionary of tools and
one context for the process; the context is merged into the arguments of each
call. Correct: a tool acts for the chat whose turn called it.

**Message bus** (`events/queue.py`) [`AgentLoop`]. Two unbounded queues; the
outbound dispatcher calls the channel's subscribers, retries once after two
seconds and then sends a fallback notice.

**Scheduler** (`scheduler.py`, `tools/schedule.py`,
`connectors/persistence/json_store.py`) [`Scheduler`]. State: jobs and callbacks
with their next times, the in-flight sets, a JSON file. Operations: add, cancel,
the tick, executions in tasks of their own that reschedule or remove the job,
recovery after a restart. Hard: executions outlive ticks, jobs are cancelled while
they execute, soft jobs start ahead of time, the process ends anywhere. Correct:
no two executions of a job, no occurrence twice, none forgotten, a cancelled job
stays away, a pending job survives a restart.

**Memory files** (`agent_runtime/memory.py`, `core/memory/markdown.py`,
`proactive_system/memory_optimizer.py`) [`PendingMemory`]. State: `PENDING.md`,
its snapshot, `MEMORY.md`, an SQLite index of what was appended. A consolidation
appends in a worker thread, an optimizer moves `PENDING.md` aside, has a model
merge it and deletes or rolls back the snapshot. Hard: threads, two kinds of actors
without a common lock, crashes between file operations. Correct: a recorded fact
is never lost, is merged once and gets to `MEMORY.md`.

**Sessions, consolidation and undo** (`storage/sessions`, `core/memory/markdown.py`,
`plugins/plugin_undo`) [`SessionCursor`]. State: a list of messages in memory, its
rows in SQLite, ids from a sequence, the consolidation cursor, a queue of
maintenance entries. Turns, proactive messages, retries with less history, /undo, the
maintenance task and the dashboard all change the same session. Hard: positions in
the list are computed before an await and used after it; ids are predicted; rows
and list differ. Correct: no message passes the cursor without having been
consolidated, what is undone is forgotten, a restart gives the same list.

**Proactive loop and drift** (`proactive_system`, `core/proactive_turn.py`,
`turns/orchestrator.py`) [`ProactiveTick`]. A tick passes gates (the busy check is
one), fetches, lets a model classify and decide in up to three loops, checks for
repetition, stores and sends the message, then marks the delivery and acknowledges
its sources; a tick without a topic may drift, and a drift may send. Hard: every
side effect can fail alone, the process can die between any two, a failed send
may have arrived. Correct: an item is sent once, none is dropped because
sending failed, the cooldown holds, every tick ends.

**Background shell** (`tools/shell.py`) [`ShellTasks`]. A process-wide registry of
commands with a pump task, a log file, a timeout and an eviction timer each. Hard:
promotion, timeout, stop, cancellation of the waiting call and the end of the
process in any order. Correct: a running command can be killed, a limited one
ends, logs are removed.

**Background subagents** (`background/`, `subagent.py`) [`Subagents`]. Tasks that run
a subagent and publish its result on the bus; they can be cancelled by the user.
Correct: one announcement for each end, an answer for each tool call.

**Vector memory** (`memory_system/store.py`, `memory_system/memorizer.py`,
`plugins/default_memory/engine.py`) [`LongTermMemory`]. Rows and a vector index in
SQLite, a table of handled source refs. Saves embed their text and then supersede,
merge or reinforce; items are forgotten, deleted and undone. Hard: the await of the
embedding, the row and its index in two commits, redelivery. Correct: two active
preferences never contradict each other, what was reported as saved is retrievable,
what was forgotten stays away.

**Supervision** (`main.py`, `bootstrap/app.py`) [`AgentLoop`, `Scheduler`]. A signal
cancels the gather of all services; `shutdown` then closes them one after the other;
`asyncio.run` cancels what is left.

**Peer agents** (`peer_agent/`, `core/net/http.py`) [`PeerAgents`]. State: the
processes launched, one lock for each agent, the registered tasks. The delegate tool
starts the agent when it does not answer and submits; the poller asks every ten
seconds, announces an end on the bus and terminates the agent. Hard: several tasks
share one agent, whose end is caused by the first of them; calls are cancelled at
any await; a process can die, hang, or come up beside another. Correct: a process
can be terminated, the end of a registered task is announced once.

**MCP servers** (`mcp/`) [`McpRegistry`, `McpCalls`]. State: a client for each connected
server, a JSON file, the stream of each server. Servers are reconnected in the
background at the start, added and removed by tool calls; calls read the stream until
their answer comes. Hard: the file is written while the reconnection is under way; a
call that gave up leaves its answer in the stream. Correct: what was configured is
connected again, a call gets its own answer.

**Others**: event bus, plugin manager, LangGraph reasoner, model provider,
knowledge retrieval, channels, dashboard, evaluation and learning; see "Not
modelled".

## 2. Modules

| Module | Models | Theorems in |
| --- | --- | --- |
| `RequestLifecycle` | what the loop promises each request, an abstract specification | |
| `AgentLoop` | turn loop, interrupts, direct turns, tool context, busy counters; implements `RequestLifecycle` | `AgentLoopProofs` |
| `Scheduler` | jobs, callbacks, executions, file, recovery | `SchedulerProofs` |
| `FactLedger` | what the memory files promise each fact, an abstract specification | |
| `PendingMemory` | consolidation, optimizer and crashes on the memory files; implements `FactLedger` | `MemoryPipelineProofs` |
| `SessionCursor` | messages, ids, cursor, maintenance, undo, memory items of one session | `SessionCursorProofs` |
| `ProactiveTick` | tick, judging loops, delivery, marks, acknowledgements, drift | `ProactiveTickProofs` |
| `Reasoner` | attempts, iterations, batches, tool visibility, loop guard | `BackgroundProofs` |
| `ShellTasks` | foreground, promoted and background commands and their timers | `BackgroundProofs` |
| `Subagents` | spawned jobs, their loop, cancellation, announcement | `BackgroundProofs` |
| `LongTermMemory` | rows, index, source refs, supersede, merge, forget, undo | `LongTermMemoryProofs` |
| `PeerAgents` | delegated tasks, the poller, the agent's processes | `BackgroundProofs` |
| `McpRegistry` | connected servers, their file, reconnection | `BackgroundProofs` |
| `McpCalls` | tool calls that share the stream of one server | `BackgroundProofs` |
| `MCMemoryPipeline` | `PendingMemory` and `SessionCursor` for TLC | `MemoryPipelineProofs` |
| `MCRuntime` | the other components for TLC | `RuntimeProofs` |
| `MC<component>` | one component for TLC, with a property it violates | |

The unit of a step is what no other actor can interrupt: the code from one
suspending await to the next. asyncio switches nowhere else, and `put` on an
unbounded queue, acquiring a free lock or saving a file do not suspend. Where a
thread and the event loop run at once (`PendingMemory`) it is a single file
operation, and where a crash makes a difference on disk (`ProactiveTick`,
`LongTermMemory`) a step is split there too.

**Composition.** `MCRuntime` and `MCMemoryPipeline` put components side by side that
share no variable. A variable `focus`, chosen at the start, says which of them a
behaviour exercises, so the state space is the sum and not the product of theirs; a
property of one component is checked in the behaviours of its focus and holds
unchanged in the others: `ProcessRunsComponents` and `PipelineRunsBoth` prove it. What passes between components is an input of the
receiving one: `AgentLoop` has subagent completions and direct turns arrive at any
time, whatever `Subagents` and `Scheduler` do; `SessionCursor` has pushes at any time.

### AgentLoop

`turn` holds the task of each caller of `_process`: the main task created by
`run`, and the scheduler's callers. A turn's `pc` is the await it is suspended
at: `created` (not started), `observing` (TurnStarted), `preparing`
(before-turn and before-reasoning), `reasoning`, `committed` (stored, being
fanned out), then `ok`, `error` or `cancelled`. `cancel` is set by
`task.cancel()`; a cancelled task's next step is `Cancelled`, or, if it has not
started, its end. A request's text is the set of request ids it contains: a
resumed message contains the interrupted request's text as well as its own.

The variables are the code's attributes; `answered`, `failed` and `promised` are
histories the properties need. `RequestLifecycle` sees each request as unborn,
queued, running, parked, answered, failed or dropped; `Status` is the refinement
mapping and `LifecycleSpec` the refinement, checked by TLC and proved. The conditions
of `Status` are taken in the order in which the code resolves them: a request that was
answered stays so although the task that answered it has not yet been collected.

Abstracted: what a turn does inside an await (`Reasoner` has the loop), the text of
messages, `omit_user_turn` and the other options of `process_direct`, streaming. A
task that does not stop when it is cancelled is not modelled: no code on the path of
a turn keeps a `CancelledError`. `stop()` is not modelled, since only tests call it.

### Scheduler

Time is a counter; cron times are the multiples of `Period`. `jobs` and `disk`
are the dictionary and the file, `tasks` the executions with the await they are
at. `Tick` starts everything that is due; its `lead` is any value, since it is a
quantile of measured latencies. `Complete` is the whole `finally`, with the
save. The process ends in three ways: `Crash` between two steps, `CrashInSave`
after `save_json` truncated the file (the next start then finds no jobs, which
is what `load_json` does with a file it cannot parse), and the orderly
`Close`, `Shutdown`, `Unwind`, `Exit`: `run` ends first, `AppRuntime.shutdown`
releases resources while executions go on, and `asyncio.run` then cancels them,
which runs their `finally` but not the body of tasks that never started.

Abstracted: parsing of times, time zones, what is pushed to whom. `enabled` is
always true in this code. Two jobs with one id, which `uuid4` excludes, are not
modelled.

### PendingMemory

A `source_ref` stands for the facts of one consolidation window together with
their marker line. Files are sets of refs. `writer` is the worker thread in its
SQLite transaction; `file` is what its open handle refers to, which a rename
turns into the snapshot and an unlink into nothing. `opt` is where the
optimizer, a rollback or the recovery at start-up stands. `MEMORY.md` and
`PENDING.md` are rewritten in two steps, truncation and write. `atRisk` is a
history of the refs that met one of three races the code leaves open: an open
handle met the rename, an append met a rollback between its read and its write, or
a crash met a file that was truncated and not yet rewritten.

Abstracted: a merge keeps every fact it is given (what a model drops is not
this code's doing), a window whose commit raises (it is in `SessionCursor`),
HISTORY.md and SELF.md. The scan for the marker reads the last megabyte of the
file; the model finds a marker wherever it is.

`FactLedger` sees each fact as queued (`Queued`: in `PENDING.md`, its snapshot, or the text of
a rollback that has emptied the file), merged (`Merged`, likewise for `MEMORY.md`), recorded,
passed by a cursor, or exposed to one of the three races.

### SessionCursor

`messages` is the list in memory and `store` the rows, the saved cursor and the
next sequence number; a message has an id of its own (`uid`) besides its `seq`,
so that a number used twice is seen. `turn` has the predicted id of its user
message. `task` and `queue` are the maintenance task and its entries, `work` the
consolidation that holds the maintenance lock, with its stage between two awaits and
the cursor position it computed at the start. `/undo` deletes by position from the list
and by id from the rows, as the code does; that the two deletions agree is a theorem,
not an assumption.

An item is what one message or one window has put into the rows of one `source_ref`:
`ref` is that source_ref, as sequence numbers, and `about` says what the item is really
about. A save does not always make a row. A text that a row has already, of this chat or
of another, active or retired, makes that row active and leaves its source_ref as it was
(`upsert_item`, `upsert_consolidation_event`), and a procedure may be merged into an
older one (`StoredInKnownRow`; `by` is then "again" when the row names the message all
the same, else "borrowed"). What a window's events or rules say may be nearly what a row
says, or fail to be embedded or stored, which the memorizer only logs; then the window has
no item and the cursor is saved all the same (`Indexed` with nothing of its own).

Histories name the events the properties except. `raced`: a cursor set after the list
had moved. `stray`: items under a guessed number, or left by an undo whose clean-up
failed. `lost`: windows that have no row of their own, be it that nothing was stored, that
all went into rows that were there, or that the engine raised or a timeout came before; no
source_ref leads a rollback back to them. `UndoneIsForgotten` says nothing of borrowed
rows, and does not hold of them: memorize, /undo, memorize the same text, /undo leaves the
row active, because the second undo looks for the second turn's id and the row cites
the first.

Abstracted: `MinNew` stands for max(5, keep_count // 2); the text of messages; the
recent-context refresh; the dashboard's edits of rows; at most one row in a save is one
that was there. That a save supersedes rows of others that resemble it is in
`LongTermMemory` and not here, and so is the restoration an undo attempts.

### ProactiveTick

`tick` is the `AgentTickContext` with the place the tick is at. The three judging loops
(decide, classify the rest, come to an end) differ in their budgets of steps and in
the tools they allow. `offered` is what the sources return, `resting` what was
acknowledged for a day only, `thread` the stored proactive messages with which a new one
is compared. `MarkDelivery`, `Acknowledge` and the sends fail alone. `slips` and
`windowSlip` are histories of what the code does not promise: an acknowledgement
that failed or was cut off, a send that arrived and reported a failure, a day's
acknowledgement in place of a longer one, a delivery that was not marked.

Abstracted: presence, quotas, busy check and chance are the choice of `Gate` to let a tick
in; the check for repetition is an ideal one (it finds a message that cites
the same items); the delivery key is the set of cited items; acknowledgements of 168
hours and more do not end within a behaviour, those of a day end with `Reoffer`; the
limit on messages without evidence and the files of a drift skill are left out.

### Reasoner

`react` is one execution of `run_turn`: `pc` is the await, `open` the calls of the
transcript without a result, `calls` and `chain` the current batch and the recorded
chain, `ran` what was really executed. A batch is a sequence of tools; "search" is
`tool_search`, "hidden" a deferred tool, "push" a tool a background turn may not
use, "poll" one the guard does not count. `guardState` and `preloaded` belong to the
session. `excluded` is on the one search tool that all sessions share, so
`OtherSearch` overwrites it.

Abstracted: the arguments of a call are part of the tool's name; what models and tools
answer is arbitrary. `max_iterations = 0`, no limit, is outside the model (it is ten by
default), as are the limit of five preloaded tools and the LangGraph backend.

### ShellTasks and Subagents

A command's record has the call that waits for it, its process, pump, log, timer,
eviction timer and reader; commands do not interact, and the order of events on one is
any. A job of `Subagents` is its task, its iteration and the number of calls without
a result; jobs share `MaxConcurrent` slots. `runningTasks` and `cancelAnnounced` are the
manager's. Abstracted: output, command filtering, what a subagent's tools do. Killing
takes effect at once, as SIGKILL does. A job's task that the event loop cancels before its
first step never runs its handler, and so announces nothing; this happens only when the
process ends, and `Subagents` has no such state.

### LongTermMemory

A text is a set of facts, a merge their union, and likeness a relation on facts: two
texts resemble each other when two of their facts do. `save` is a coroutine before, or
between, its embeddings; a write is one step with two outcomes, since a crash may come
between the commit of a row and that of its index entry, and the next start adds the
missing entries (`Migrated`). Row ids are never used twice, like the code's, which
hash text and time. `retiredBy` is a history for the undo.

Abstracted: the thresholds of likeness are one; ranking, `top_k`, hotness and
reinforcement counters; whether two rules need the same tool is a choice of the step.

### PeerAgents

One agent and the delegations to it, as agents share only the poller. `call` is
where a call of the tool is suspended, `procs` the manager's entry, `agent` the state of
each process ever launched: whichever process serves the address answers health checks
and polls. `work` is what the agent knows of a task; a process that ends takes its
work with it. `Terminate` is the part of `terminate` up to its wait, `AgentKilled` the rest.
`StopPoller` cancels the poller where it is and starts `shutdown_all`. `told` and
`passedOver` are histories: processes that were sent SIGTERM, and processes that ran
while a health check failed.

Abstracted: the timeouts are choices of the step that waits, save that a start does not time
out while a process serves and stays silent; the discovery of agent cards and the artifacts of
a task are left out. A submission answered too late is sent again
by the HTTP client and may be accepted twice; the second copy is not modelled, as nobody
registers it.

### McpRegistry and McpCalls

In `McpRegistry` a server is its name. Reconnections, adds and removes are suspended
in `connect` or `disconnect` and complete in any order; `configured` is a history of what
the user wrote or added and has not removed. In `McpCalls` a call is its request number
and `stdout` the lines nobody has read, of four kinds: the answer to a call; chatter, which
every call skips (notifications, lines that are no JSON, requests with a number of no
call); garbled lines, on which `_recv` raises (what cannot be decoded or is too long, and JSON
that is a number, a list or a text); and requests of the server that have a call's number,
which that call returns as its answer and the others skip. `misled` names the calls that
read a line of the last two kinds. `AwaitLine`, `ReadTimesOut` and the wake-up of the reader
are those of `asyncio.StreamReader`, which lets one coroutine wait. Abstracted: the
handshake, a server's tools, the drain of stdin.

## 3. Runs

| Run | Checks | Result |
| --- | --- | --- |
| `runtime_safety` | 16 invariants and 4 action properties of all components of `MCRuntime` | hold |
| `runtime_liveness` | 8 liveness properties of them, the refinement of `RequestLifecycle`, and the types of all | hold |
| `memory_pipeline` | 7 invariants and 2 liveness properties of memory files and session, the refinement of `FactLedger` | hold |
| `loop_tool_context` | `ToolsActForOwnChat` | violated |
| `loop_interrupted_work` | `InterruptedWorkKept` | violated |
| `loop_shutdown` | `ShutdownEndsLoop` | violated |
| `scheduler_cancel` | `CancelledStaysCancelled` | violated |
| `scheduler_shutdown` | `ShutdownKeepsUnfinished` | violated |
| `memory_loss` | `NothingLost` | violated |
| `proactive_dedupe` | `RejectedOnlyIfSent` | violated |
| `undo_restores` | `UndoRestoresReplaced` | violated |
| `mcp_servers_file` | `ServersPersist` | violated |

**What the passing runs show.** In the turn loop: /stop acts on the turn that runs,
no reply follows it, no request is answered twice, every request settles. In the
scheduler: executions exclude each other, occurrences are distinct, a pending job
is in the file, what is due is started. In the proactive loop: an item is sent once
(`SentOnce`), is not lost (`NothingDropped`), one message goes out in a window
(`OneDeliveryPerWindow`), every tick ends. In the shell: somebody can stop whatever runs,
limits and logs are kept. Subagents and reasoner: transcripts are closed, jobs are
announced, turns reply. In the vector memory: active preferences are distinct, a save
that reports success left an active row, a redelivered window revives nothing. Peer
agents: a running process is the one the manager would terminate, unless a health check
failed while it ran (`AgentIsTerminable`), and a registered task's end is announced, if
need be by the hard timeout (`TasksReported`). MCP: a call that has the stream to itself
gets its answer, whatever answers earlier calls left there, unless it reads a garbled line
or a request of the server under its own number (`LoneCallGetsItsAnswer`). In the
memory pipeline: recorded facts are kept, merged once and reach `MEMORY.md`, and a fact leaves
`PENDING.md` only once it is there (`LedgerSpec`); the cursor
passes consolidated messages only, undone messages are forgotten where a source_ref leads to
what was stored of them, the maintenance queue is served.

**What the violations show.**

- `loop_tool_context`: a scheduled turn sets the process-wide tool context while a
  chat turn awaits its model; the chat turn's next tool call gets the other
  chat's `channel` and `chat_id`, unless the model passes them itself.
- `loop_interrupted_work`: request 1 is stopped and kept, message 2 arrives and is
  stopped before its task has started: the state kept for 2 replaces that for 1.
  A subagent completion stopped in the same chat does so at any point.
- `loop_shutdown`: the cancellation of `run` at `await task` is taken for the end of
  the turn. The services' gather has been cancelled, the loop waits for the next
  message, and the clean-up behind the gather is not reached.
- `scheduler_cancel`: cancelled while it executes, a recurring job is put back by the
  execution's `finally`, and saved.
- `scheduler_shutdown`: cancelled by the shutdown, the execution of a one-shot job
  removes it and saves, though it was never executed to the end.
- `memory_loss`: the worker thread has opened `PENDING.md`; the optimizer renames and
  reads it; the thread closes its file, which is now the snapshot, and records
  its row; the snapshot is deleted.
- `proactive_dedupe`: a message is stored in the session, its send fails and does not
  arrive; the next tick's message cites the same items, is found to repeat the
  stored one, and its items are acknowledged for a day, though nobody was told.
- `undo_restores`: the undo of a turn that replaced a preference retires the new one and
  leaves the old one superseded, since nothing recorded the replacement.
- `mcp_servers_file`: `mcp_add` of one server ends while another is being reconnected;
  the file is written from the connected clients, and the other is no longer in it.

**Bounds.** `runtime_safety` has two chats and three requests: two in one chat are
needed to resume an interrupted one, a third to interrupt the resumed turn, a second
chat to queue behind it; chats and direct callers are symmetric. The scheduler has a
one-shot, a soft cron and an interval job and a callback, a period of two and time up to
two (so a recurring job fires, is rescheduled and is due again), a grace period of one
(a one-shot job inside and outside it) and one restart. The tick has an alert and a
content item, two ticks (one to send, one to find the item again) and a crash. One
command suffices, as commands do not interact. Two subagents compete for one slot and
are cancelled twice. The reasoner has two turns (so the guard's count meets a second
one) of two attempts and two iterations, and batches that mix all kinds of tools. The
vector memory has two facts that resemble each other, three saves by two coroutines and
one crash or deletion. Two delegations are needed for one to end under the other or to
launch beside it, two processes and one health check that is not answered in time for
the second of them; two MCP calls, for the answer of one to be left to the other, and two
lines that are no answer, so that one can be skipped before another misleads.
`runtime_liveness` is smaller (one chat, two requests, a one-shot and a cron job), since
liveness is checked without symmetry. `LifecycleSpec` and `RuntimeTypesOK` are checked
on these smaller instances, and the busy count with one direct caller; all three are
proved for every instance.
`memory_pipeline` has two windows, one at each side of a rename, and two crashes, so
that a recovery can itself be interrupted; four messages, which are two turns or a turn
and pushes, windows that leave one message and take at least one, and one restart,
retry, manual request, failed clean-up of memory or text that goes into a row that is there
(`MaxIncidents` counts them together). The bounds are constants of the
modules (`MaxItems`, `MaxTime`, `MaxBoots`, `MaxTicks`, `MaxCrashes`, `MaxCalls`,
`MaxCancels`, `MaxTurns`, `MaxOthers`, `MaxSaves`, `MaxFaults`, `MaxMessages`,
`MaxIncidents`, `MaxLaunches`, `MaxSilences`, `MaxStarts`, `MaxChatter`), and the
theorems hold for all their values. Deadlock is not checked: the bounds end every
behaviour.

**Fairness.** `AgentLoop`: a ready coroutine runs, and a turn ends, because a turn
makes a bounded number of model calls and each has a timeout; nothing forces a
message, an interrupt, an expiry or a shutdown. `Scheduler`: the tick comes every
second and executions end for the same reason; the clock is not fair.
`PendingMemory`: the optimizer's own steps and the restart are weakly fair, as
the loop calls `optimize` again and again; `MergeSucceeds` is strongly fair, that is,
the model does not fail for ever. Crashes are bounded. The writer is not fair: a
thread may stall, and `FactsReachMemory` speaks of recorded facts only.
`SessionCursor`: consolidation steps are weakly fair, the task's turn at the lock is
strongly fair, because an asyncio lock serves its waiters in order. `ProactiveTick`,
`Reasoner`, `Subagents`: the awaits of a tick, a turn and a job return, since model
and tool calls have timeouts; no gate has to open and no crash or cancellation has to
come. `ShellTasks`: timers fire and coroutines run, and no command has to end by
itself. `PeerAgents`: the poller and the calls go on, since each of their waits has a time
limit, and the clock passes the hard timeout; the agent itself owes nothing.

## 4. Proofs

The theorems hold for every value of the constants under the assumption of each
module (`LoopConstants`, `SchedulerConstants`, `MemoryConstants`, `SessionConstants`,
`ProactiveConstants`, `ReasonerConstants`, `SubagentConstants`, `NamesDiffer`,
`McpCallNames` and so on), which say that the kinds of names are distinct,
the bounds are numbers and likeness is symmetric; TLC evaluates them in every run.
Each proof names an inductive invariant, shows it of `Init`, and of every action in a step
of its own.

**AgentLoopProofs.** `LoopTypeCorrect` carries `TurnShape`: the main task's turn belongs to a
chat and a direct turn to a direct key. `Awaiting`, that `run` awaits exactly when
the main task is there, and that the entries are then those of its key, gives
`InterruptTargetsTheTurn`. `BusyIsExact` is an induction on the counters: each action
moves at most one task into or out of the core, so the set of tasks there gains or
loses one element. `Ledger` relates the histories to the queue: ids in the queue are
distinct, not above `published`, and what a turn carries or a chat keeps is never
in `answered`; it gives `AnsweredOnce` and `StoppedIsSilent`, the latter because the request
that started a turn is promised only together with the cancellation of its task.

`LoopFollowsLifecycle` is the refinement: every behaviour of the loop is one of
`RequestLifecycle`, for any chats, callers and number of requests. `Where` is the mapping.
For each action the proof names the set of requests whose status it changes and the
status they get (`Moved`), or shows that it changes none (`Same`); a step of the abstract
specification moves such a set along one of its arrows. `Settled` is the invariant
this needs beside `Ledger`: a failed request is nowhere, a turn that returned has
answered all it carries, a resumed turn carries all of the state it picked up. The attempt
to prove it showed that `Status` had been written with alternatives that overlap,
which TLC resolves by their order and the semantics of `CASE` does not; it is now a chain
of conditions. `RequestsSettleOnce` proves of the lifecycle alone what it is for: settled
requests stay settled, a request is answered or fails only out of a run, and a queued one is
taken up only while nothing runs; through the refinement the loop has these properties.

**SchedulerProofs.** An entry is in flight if and only if it has a task, and has one at
most; this gives `ExecutionsExclude`. For `OccurrencesAreDistinct` the invariant says that an
entry that is not in flight has a `fireAt` above its `lastRun`, which holds after a
reschedule because the next time is computed from the later of the clock and the
nominal time. `CrashLosesOnlyTornSaves` compares `jobs`, `disk` and the histories in each phase.
`FileNeverAhead` compares the times: a job in memory is in the file for the same time, or, when
it is recurring, for one that is not later. It is an invariant no run checks; it says what a
restart goes on from, which `PendingIsDurable`, on names alone, does not.

**MemoryPipelineProofs.** `RecordedIsKept` rests on `Safe`: for each step of the optimizer,
`Copied` says where the facts it is about to drop are held besides (the text it has
read, `MEMORY.md`, or the rewritten `PENDING.md`), and `HandleAtRisk` that a handle on a
snapshot belongs to a ref already counted as at risk. `FactsKept` alone is not
inductive, as it does not say that a snapshot being deleted has been merged.
`MergedAtMostOnce` adds `Once`, for behaviours without a crash: a ref is appended in
one transaction (`AppendedOnce`), and what the optimizer holds at each of its steps is
neither pending again nor merged already (`HeldOnce`).

`FilesFollowLedger` is the second refinement: every behaviour of the memory files is one of
`FactLedger`, which has no files, no thread and no optimizer, only facts that are queued,
recorded, merged and taken off the queue, and facts that a race has exposed. What a rollback
or a rewrite holds in its hands while its file is empty counts as in the file, so truncating
`PENDING.md` or `MEMORY.md` does not show; a crash at that point is a crash of the ledger and
exposes the facts of that one file. `Safe` says that what leaves the queue is merged or
exposed. `Texts` is the invariant that only the refinement needs: a text that is about to be
written back is still in the file it was read from, so a rollback puts nothing on the queue
that was not there. `LedgerAccounts` proves of the ledger alone what it is for: recorded facts
are accounted for, cursors pass recorded facts only, long-term memory never drops a fact
that is not exposed. `FactsKept` and `CursorBehindIndex` (`AppendsPrecedeCursor`) speak of
states; the ledger adds which steps may move a fact, recorded or not.

`PipelineRunsBoth`, `PipelineTypesCorrect` and `PipelineIsSafe` carry the theorems about files
and session over to `PipelineSpec`: of the two, the one that is not in focus stutters.

**RuntimeProofs.** The same for `MCRuntime`: a step of the process is a step of one component
and leaves the variables of the others alone, so a behaviour of `RuntimeSpec` is one of each
component (`ProcessRunsComponents`), the types of all hold (`ProcessTypesCorrect`), and
`ProcessIsSafe` states in one theorem what the process never does. It rests on
the components sharing no variable, and not on the bounds or on the choice of `focus`.

**ProactiveTickProofs.** `TickInv` has three parts. `TickOK` is what a tick knows by
itself: it cites what it fetched, and nothing it discarded. `Ledger` relates it to
the past: an item that was sent, and has not slipped, is no longer offered or is in the
hands of the tick that sent it; evidence of a tick that has not yet sent is unsent; what
is about to be acknowledged was sent or rejected. It gives `CitedItemsSentOnce` and
`LeavesOnlyForAReason`. `Window` says that a tick that may still send was let in with the
cooldown over, which gives `CooldownHolds`. The run has two ticks, the theorem any number: with
three, an item whose acknowledgement for a day replaced a longer one is sent again, which
is why `slips` has that case. `TickTypeCorrect` needs `GrantLeft`: a loop that was granted
steps is at work only while it has some left, so no step is spent that was not granted.

`TickIsBounded` is about time: `Effort` counts the steps a tick may still make, from the place
it is at and the steps its loops were granted. It is at most `TickBudget`, that is
`9 + MaxSteps + 3 * DriftSteps`, and every step of a tick that is awake lowers it; what
happens beside the tick leaves it alone.

**Reasoner (in BackgroundProofs).** `ReactInv` counts model calls against iterations (`AskedOK`) and says
that the calls without a result are those from the current one on, and that what ran is
the recorded chain followed by the calls of the batch under way (`CallsOK`). At the
points where the model is asked this leaves no open call (`EveryCallHasAResult`), and at a
reply nothing unrecorded (`NothingRanUnrecorded`).

**SessionCursorProofs.** The invariant has two parts, proved one after the other.

`IdsInv` is about ids. Rows and list are in ascending order without a number or a message
twice (`StoredOK`), the list is the end of the rows, a running turn's message is in
nobody's hands (`TurnIsNew`). A window names an interval of numbers, and of the rows in
it exactly those it is about (`ItemsOK`); a memorized item names one number, which is that
of its message unless the message is stray; what is undone has no row and is
remembered only if stray (`UndoneIsGone`); what the journal names is extracted
(`JournalOK`). It gives `CursorTypeCorrect`, `MemoryEndsTheRows` and `UndoneStaysForgotten`.
None of the three is inductive alone: without the order of the rows, deleting by position
and deleting by id need not agree, and without the intervals an item could be about
an undone message it does not name. The step lemmas do not go through the actions one by
one: each follows from what an action can do to the rows at all (`Follows`: rows are kept,
deleted, or new), to the window under the lock (`WindowKept`, `WindowLeft`, `WindowTaken`)
and to the items (`ItemsAre`). A row that is used again needs one more fact, `KnownRowOf`: a
source_ref names one message, none, or what a window names (`RefOK`), so a text of a
message that goes into a row naming this message is undone with it.

`CursorInv` adds the cursor, as long as it was not set for another list. Both cursors, in
memory and in SQLite, have only extracted messages behind them (`Extracted`) and only
messages with an active item that no undo ahead of the cursor would retire, or whose item
is on its way (`Remembered`, `Covered`, `SafeFrom`). A pending window starts at the
cursor (`WindowAhead`), and for every window with an item, everything before its first
message is remembered (`RollbackSafe`). The last part is what `/undo` needs: it takes the
cursor back to the first message of the windows it retires, and all that is then
behind the cursor must have kept its items; the property checked by TLC says nothing of
windows ahead of the cursor. It gives `CursorNeverSkips` and `RetiredIsReplaced`. The
saved cursor is part of it because a restart makes it the cursor. TLC checked the
whole invariant with four and five messages before it was proved.

The library has no theorem on `Min` and `Max` of sets of numbers: that the least exists comes
from the well-foundedness of `<` on the naturals (`LeastIs`). The list operators are
treated by position (`JoinIs`, `ClosedIs`, `DeletedByPosition`, `DeletedById`), without
induction over sequences.

**BackgroundProofs.** One part for each of six modules; the reasoner's is above.

- Commands: `CommandOK` follows a command through its life: before the registry has it a
  call waits for it or has killed it; what the registry forgets has ended, since a
  pump ends after its process. `NoOrphans` is its consequence.
- Jobs: what a job's place in the loop says of unanswered calls (`LoopState`) and of the
  two sets of the manager and the number of announcements (`JobState`): a cancelled
  job that still unwinds was announced, and its end is silent. They give
  `TranscriptsComplete` and `EndingsAnnounced`.
- Peer agents: who checks or starts an agent holds the lock (`LockHeld`), and between a failed
  check and the new entry whatever lives has been passed over, or is what was launched
  (`LaunchKnown`). `AgentsAreTerminable` is a part of it that is not inductive without the
  others: a launch replaces the entry, and only the holder of the lock knows what else lives.
- MCP calls: the answer to a call that reads alone and was not misled is in the stream or the
  call has it (`AnswerAhead`), because only one that reads can drop a line, and two that read
  at once are noted (`CompanyIsNoted`). It gives `LoneCallsAreAnswered`.
- The registry of servers: the types are not inductive, since a call that has not begun names
  no server; `ServersInv` adds that one that has begun does.

**LongTermMemoryProofs.** `LtmInv` says of the table that a text and kind have one row
(`RowsOK`), of the index that a preference is found under its text (`IndexOK`), of the
sources of events that they were handled, and of the saves under way that each has an
id of its own, whose row is not there yet (`SavesOK`); `LtmTypeCorrect` adds
that every source handled or under way is one there is (`Sourced`). `Keeps` is what a write may do to
the table; `WriteStep` shows once that such a write, crash included, keeps `LtmInv`, and
each action is shown to be one. `PreferencesStayDistinct` needs `IndexOK`: a preference that
is not found through the index would not be superseded. Two action properties,
`SavedItemsAreActive` and `RedeliveryIsQuiet`, follow from what the two writing actions do.

**How long things take.** Liveness under fairness needs `ENABLED` and stays with TLC, but the
reason why a loop ends is a safety property and is proved: a measure that every step lowers.
For a tick it is the number above. A reasoner's turn and a subagent's job may get a batch of
any length at each iteration, so no number bounds their steps beforehand; `TurnLeft` (attempts,
iterations, stage, calls left) and `JobLeft` (phase, iterations, calls, cancellations left) are
lexicographic, `LessLeft` is proved well-founded on such amounts (`LessLeftWellFounded`), and
`TurnsAreFinite` and `JobsAreFinite` say that a step leaves turn or job unchanged or leaves
less of it. They hold for every limit and batch, where the runs have two or three of each.
What `TickEnds`, `TurnsReply` and `JobsEnd` add is that the steps are taken: an await that
returns, the assumption stated as fairness.

**Only model-checked**: the ten liveness properties (`FactsReachMemory`, `QueueIsServed`,
`EveryRequestSettles`, `DueEntriesStart`, `TickEnds`, `LimitedCommandsEnd`, `LogsReclaimed`,
`JobsEnd`, `TurnsReply`, `TasksReported`), as liveness under fairness and `ENABLED` are out of
the prover's reach. Every other property of a passing run is a theorem. The violated
properties have none, as they are false.

## 5. Plan

What remains, in the order of importance:

1. The busy check of a proactive tick against the turns of `AgentLoop`: one module in which
   a tick and a turn run together, to say how long a message may follow a check.
2. `PendingMemory` and `SessionCursor` joined by the windows of one session: the session's
   `SetCursor` is the commit whose appends `PendingMemory` interleaves with the optimizer.
3. HISTORY.md and the archive of a merge across crashes.
4. An invariant of `McpRegistry` that says which servers the file keeps, beside the property
   it violates.

## Not modelled

- **Event bus.** The consolidation's `emit` is a step of `SessionCursor`. What goes through
  the observe queue is telemetry, except for `TurnIngested`, which also reaches the
  post-response worker: it supersedes the items that the user's message calls wrong, a second
  writer beside the maintenance task. On a row that is what `Forget` of `LongTermMemory` does;
  the worker's queue, and what it does to the items of `SessionCursor`, are not modelled.
- **Plugin manager.** Loading is start-up code without interleavings; the two plugins
  with state of their own (undo, loop guard) are modelled where they act.
- **LangGraph reasoner.** An optional second backend of the reasoner.
- **MCP client pool of the proactive loop, discovery of agent cards.** The pool keeps one
  connection for each server, serialises its calls with a lock of its own and reconnects
  once when a call fails; the cards are read once.
- **Model provider, channels.** Clients of services outside the repository. The models let
  a call answer, refuse, fail, time out or be cancelled.
- **Knowledge retrieval.** Numeric scoring of documents; a small instance says
  nothing about it.
- **Dashboard.** Its actions on the models (manual optimisation and consolidation,
  deletion of items) are actions there; the rest reads or edits single rows.
- **Evaluation and learning.** Offline scripts that run to the end.

Hazards that no property covers are in `PROJECT.json` with the reason.

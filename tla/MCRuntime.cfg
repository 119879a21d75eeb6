\* Safety, on the larger instances.  Turn loop: two chats, three items, a direct
\* caller, a shutdown.  Scheduler: a one-shot, a soft cron and an interval job, a
\* callback, a crash or a shutdown, a restart.  Proactive tick: an alert and a
\* content item, two ticks, a crash.  Shell: one command.  Subagents: two jobs for
\* one slot, cancelled twice.  Reasoner: two turns of two attempts.  Vector memory:
\* three saves by two coroutines, a crash or a deletion.  Peer agent:
\* two delegations, two processes.  MCP: two servers and two calls.
SPECIFICATION RuntimeSpec
CONSTANTS
    Chats = {a, b}
    DirectKeys = {job}
    MainTask = main
    DirectTasks = {d1}
    NoChat = none
    MaxItems = 3
    Shutdowns = TRUE
    Jobs = {once, cron, every}
    Recurring = {cron, every}
    Cron = {cron}
    Soft = {cron}
    Callbacks = {cb}
    Period = 2
    Grace = 1
    MaxLead = 1
    MaxTime = 2
    MaxBoots = 1
    Faults = {"crash", "shutdown"}
    Alerts = {a1}
    Contents = {c1}
    MaxSteps = 3
    CompleteSteps = 2
    ReflectSteps = 2
    DriftSteps = 2
    MaxTicks = 2
    MaxCrashes = 1
    Commands = {cmd}
    SpawnedJobs = {j1, j2}
    MaxConcurrent = 1
    SubagentIterations = 2
    MaxCalls = 2
    MaxCancels = 2
    Batches <- SomeBatches
    RepeatLimit = 2
    MaxIterations = 2
    MaxAttempts = 2
    MaxTurns = 2
    MaxOthers = 1
    f1 = f1
    f2 = f2
    Facts = {f1, f2}
    Resemble <- AllResemble
    Sources = {s1}
    Savers = {w1, w2}
    MaxSaves = 3
    MaxFaults = 1
    Delegations = {g1, g2}
    MaxLaunches = 2
    MaxSilences = 1
    Servers = {m1, m2}
    NoServer = noserver
    ServerCalls = {k1, k2}
    MaxStarts = 1
    McpCallers = {q1, q2}
    MaxChatter = 2
SYMMETRY RuntimeSymmetry
INVARIANTS
    OneInterruptibleTurn
    AnsweredIsOver
    BusyMatchesTurns
    NoOverlap
    PendingIsDurable
    SentOnce
    OneDeliveryPerWindow
    NothingDropped
    RunningIsReachable
    EndedJobAnnounced
    CallsAnswered
    TranscriptClosed
    ReplyRecordsAttempt
    PreferencesDistinct
    AgentIsTerminable
    LoneCallGetsItsAnswer
PROPERTIES
    NoReplyAfterStop
    OccurrenceStartedOnce
    SavedIsActive
    RedeliveryRevivesNothing
CHECK_DEADLOCK FALSE

\* Liveness, with fewer steps than in MCRuntime.cfg; the types of every component;
\* and the turn loop as an implementation of RequestLifecycle.  Turn loop: one chat,
\* two items, a direct caller, a shutdown.  Scheduler: a one-shot and a cron job.
SPECIFICATION RuntimeFairSpec
CONSTANTS
    Chats = {a}
    DirectKeys = {job}
    MainTask = main
    DirectTasks = {d1}
    NoChat = none
    MaxItems = 2
    Shutdowns = TRUE
    Jobs = {once, cron}
    Recurring = {cron}
    Cron = {cron}
    Soft = {cron}
    Callbacks = {cb}
    Period = 2
    Grace = 1
    MaxLead = 1
    MaxTime = 2
    MaxBoots = 1
    Faults = {"crash", "shutdown"}
    Alerts = {a1}
    Contents = {c1}
    MaxSteps = 2
    CompleteSteps = 1
    ReflectSteps = 1
    DriftSteps = 2
    MaxTicks = 1
    MaxCrashes = 1
    Commands = {cmd}
    SpawnedJobs = {j1, j2}
    MaxConcurrent = 1
    SubagentIterations = 2
    MaxCalls = 2
    MaxCancels = 2
    Batches <- SomeBatches
    RepeatLimit = 2
    MaxIterations = 2
    MaxAttempts = 2
    MaxTurns = 1
    MaxOthers = 0
    f1 = f1
    f2 = f2
    Facts = {f1, f2}
    Resemble <- AllResemble
    Sources = {s1}
    Savers = {w1}
    MaxSaves = 1
    MaxFaults = 0
    Delegations = {g1, g2}
    MaxLaunches = 1
    MaxSilences = 0
    Servers = {m1, m2}
    NoServer = noserver
    ServerCalls = {k1}
    MaxStarts = 0
    McpCallers = {q1}
    MaxChatter = 0
INVARIANTS
    RuntimeTypesOK
PROPERTIES
    EveryRequestSettles
    LifecycleSpec
    DueEntriesStart
    TickEnds
    LimitedCommandsEnd
    LogsReclaimed
    JobsEnd
    TurnsReply
    TasksReported
CHECK_DEADLOCK FALSE

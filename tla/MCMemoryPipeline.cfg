\* Two windows of facts and two crashes; four messages and one incident.
SPECIFICATION PipelineSpec
CONSTANTS
    Refs = {r1, r2}
    NoRef = none
    MaxCrashes = 2
    KeepCount = 1
    MinNew = 1
    MaxMessages = 4
    MaxIncidents = 1
INVARIANTS
    PipelineTypesOK
    FactsKept
    MergedOnce
    CursorPassesRecordedOnly
    RetiredIsAheadOrReplaced
    UndoneIsForgotten
    MemoryIsTailOfRows
PROPERTIES
    FactsReachMemory
    QueueIsServed
    LedgerSpec
CHECK_DEADLOCK FALSE

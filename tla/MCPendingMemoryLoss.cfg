\* No crash: the worker thread and the optimizer alone.
SPECIFICATION Spec
CONSTANTS
    Refs = {r1, r2}
    NoRef = none
    MaxCrashes = 0
INVARIANTS
    NothingLost
CHECK_DEADLOCK FALSE

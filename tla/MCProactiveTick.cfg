\* One alert, one content item, two ticks, one crash.
SPECIFICATION TickSpec
CONSTANTS
    Alerts = {a1}
    Contents = {c1}
    MaxSteps = 3
    CompleteSteps = 2
    ReflectSteps = 2
    DriftSteps = 2
    MaxTicks = 2
    MaxCrashes = 1
INVARIANTS
    RejectedOnlyIfSent
CHECK_DEADLOCK FALSE

\* Nothing is lost to an orderly shutdown.
SPECIFICATION ScheduleSpec
CONSTANTS
    Jobs = {once, cron}
    Recurring = {cron}
    Cron = {cron}
    Soft = {cron}
    Callbacks = {}
    Period = 2
    Grace = 1
    MaxLead = 1
    MaxTime = 3
    MaxBoots = 1
    Faults = {"shutdown"}
INVARIANTS
    ShutdownKeepsUnfinished
CHECK_DEADLOCK FALSE

\* A cancelled job stays cancelled: no faults, the smallest instance.
SPECIFICATION ScheduleSpec
CONSTANTS
    Jobs = {once, cron}
    Recurring = {cron}
    Cron = {cron}
    Soft = {cron}
    Callbacks = {}
    Period = 2
    Grace = 1
    MaxLead = 1
    MaxTime = 3
    MaxBoots = 0
    Faults = {}
INVARIANTS
    CancelledStaysCancelled
CHECK_DEADLOCK FALSE

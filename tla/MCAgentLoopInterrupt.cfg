\* What becomes of work the sender was told is kept.
SPECIFICATION Spec
CONSTANTS
    Chats = {a, b}
    DirectKeys = {job}
    MainTask = main
    DirectTasks = {d1}
    NoChat = none
    MaxItems = 3
    Shutdowns = FALSE
INVARIANTS
    InterruptedWorkKept
CHECK_DEADLOCK FALSE

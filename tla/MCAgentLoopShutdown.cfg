\* A shutdown signal that arrives while a turn runs.
SPECIFICATION FairSpec
CONSTANTS
    Chats = {a, b}
    DirectKeys = {job}
    MainTask = main
    DirectTasks = {d1}
    NoChat = none
    MaxItems = 1
    Shutdowns = TRUE
PROPERTIES
    ShutdownEndsLoop
CHECK_DEADLOCK FALSE

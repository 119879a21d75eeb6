\* A scheduled turn runs beside a chat turn on the same tool registry.
SPECIFICATION Spec
CONSTANTS
    Chats = {a, b}
    DirectKeys = {job}
    MainTask = main
    DirectTasks = {d1}
    NoChat = none
    MaxItems = 2
    Shutdowns = FALSE
INVARIANTS
    ToolsActForOwnChat
CHECK_DEADLOCK FALSE

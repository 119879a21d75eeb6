\* Two servers and two tool calls, without a crash, a restart or a failed connection.
SPECIFICATION ServersSpec
CONSTANTS
    Servers = {m1, m2}
    NoServer = noserver
    ServerCalls = {k1, k2}
    MaxStarts = 0
INVARIANT
    ServersPersist
CHECK_DEADLOCK FALSE

SPECIFICATION AllSpec
CONSTANTS
    Parts = {"session", "keepalive", "queue", "connect", "framing"}
    u1 = u1
    u2 = u2
    Users = {u1, u2}
    Asks <- MCAsks
    QueueCap = 1
    RequestTimeout = 1
    ConnectTimeout = 1
    MaxConsecutive = 2
    MaxFaults = 1
    MaxRequests = 2
    RequestedRpi = 4
    ReplyApis = {4, 5, 9}
    MinReplyApi = 1
    MaxReplyApi = 6
    Multiplier = 4
    MaxSleep = 7
    MaxLost = 1
    Events = 2
    AttemptTimeout = 5
    ReplyTimeout = 2
    LIST_IDENTITY_BUDGET = 1
    Attrs = 3
    Shown <- MCShown
    Served = {{}, {1, 3}, {2, 3}, {1, 2, 3}}
    MaxData = 2
    Contents <- MCContents
CHECK_DEADLOCK FALSE
INVARIANTS
    SilenceMeasured
    FramesWhole
    DiagnosticsHonest
PROPERTIES
    ImplementsRpc
    TornStreamIsSilent
    TasksProgress

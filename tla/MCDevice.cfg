SPECIFICATION AllFairSpec
CONSTANTS
    Parts = {"task", "poll", "direct", "push", "stream"}
    None = None
    Reqs = {r1, r2}
    BaseMs = 1
    MaxMs = 3
    MaxAttempt = 3
    QueueCap = 2
    PollSettings <- MCPoll
    DirectSettings <- MCDirect
    PushSettings <- MCPush
    StreamSettings <- MCStream
INVARIANTS
    NoReplyLost
    OnlineIsTrue
    PauseIsSilent
    BaselineIsTrue
    FloorHolds
PROPERTIES
    ReconnectIsFresh
    StopIsQuiet
    TaskProgress
    StaleNotWhilePaused
    Converges

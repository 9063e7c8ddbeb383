SPECIFICATION AllSpec
CONSTANTS
    Parts = {"push"}
    None = None
    Reqs = {r1, r2}
    BaseMs = 1
    MaxMs = 3
    MaxAttempt = 3
    QueueCap = 2
    PollSettings <- MCPoll
    DirectSettings <- MCDirect
    PushSettings <- MCPush
    StreamSettings <- MCStream
INVARIANT NoPausedDrift

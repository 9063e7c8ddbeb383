SPECIFICATION AllFairSpec
CONSTANTS
    Parts = {"cert", "command", "metrics", "poll"}
    push = push
    poll = poll
    MaxFaults = 1
    Ids = {"c1", "c2", "c3", "c4"}
    Cas = {"a", "b"}
    Day = 2
    Life = 6
    Renew = 1
    EstRenew = 1
    Backoff = 1
    Configs <- MCConfigs
    MaxRotations = 1
    MaxDrops = 1
    Instances = {"a", "b"}
    Mode <- MCMode
    Gens = {1, 2}
    Fields = {"x", "y", "z"}
    Signals <- MCSignals
    Outputs = {"x", "y"}
    Allow <- MCAllow
    MaxPage = 2
    MAX_BROWSE_PAGES = 3
    Tags = 3
    Batches <- MCBatches
    BrowseKeys <- MCBrowseKeys
    MaxCommands = 2
    Devices <- MCDevices
    Push <- MCPush
    SeqSpace = 4
    Budgets <- MCBudgets
    MaxTime = 1
    W = 2
    Bits = 6
    Counts = {1, 3}
    Cap = 6
    WriteLimit = 2
    Chunk = 2
    Symbols = {0, 1, 2, 3}
    MaxOps = 3
    MaxChanges = 1
CHECK_DEADLOCK FALSE
INVARIANTS
    RotationIsApplied
    CommandsTruthful
    CountsAddUp
    SessionExact
    ListingExact
PROPERTY
    IdentityRecovers

SPECIFICATION MCFairSpec
CONSTANTS
    a = a
    b = b
    noid = noid
    Scopes = {"live"}
    Ids <- MCIds
    NoId = noid
    Raws <- MCRaws
    NoRaw = "noraw"
    Views <- MCViews
    NoView = "noview"
    Malformed = {"junk"}
    UnknownTok = {"typo"}
    PushMode = {"push"}
    BadViews = {"bad"}
    Docs <- MCDocs
    Slots = {1, 2, 3, 4, 5}
    MaxReloads = 2
    MaxFaults = 1
PROPERTY
    OperationsEnd

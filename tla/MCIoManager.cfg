SPECIFICATION Spec
CONSTANTS
    c1 = c1
    c2 = c2
    Conns <- MCConns
    Type <- MCType
    Modulus = 8
    Multiplier = 2
    O2TApi = 1
    Reorder = 1
    MaxLate = 1
    DataCap = 1
    CmdCap = 1
    MaxErrors = 2
    MinReplyApi = 100
    MaxReplyApi = 600
    NoSock = NoSock
    NoConn = NoConn
CHECK_DEADLOCK FALSE
INVARIANTS
    WindowSound
    
    EndIsTold
PROPERTY
    SilenceIsNoticed

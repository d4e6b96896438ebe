SPECIFICATION ValueSpec
CONSTANTS
    c1 = c1
    c2 = c2
    Conn = {c1, c2}
    Name = {n1}
    Dot = Dot
    Value = {v0, v1}
    Empty = v0
    Terminate = v9
    Param = {p}
    MaxUuid = 1
    MaxSession = 2
    TrIdMod = 4
    ReqId = {0, 1}
    Ops <- Ops_Share
    None = None
    Subscribers = {c1, c2}
    Thread <- AllThreads
    Setters <- BothSet
    Fetchers <- OneFetches
    Expires = TRUE
INVARIANTS
    ValueTypeOK
    WaitsOwned
    Converges
PROPERTIES
    OperationsEnd
CHECK_DEADLOCK FALSE

SPECIFICATION MonitorSpec
CONSTANTS
    c1 = c1
    Conn = {c1, c2}
    Name = {n1}
    Dot = Dot
    Value = {v0}
    Empty = v0
    Terminate = v9
    Param = {p}
    MaxUuid = 2
    MaxSession = 2
    TrIdMod = 5
    ReqId = {0, 1, 2}
    Ops <- Ops_Monitor
    None = None
    Me = c1
    Old = 1
    Thread <- MonitorThreads
    Expires = FALSE
VIEW View
INVARIANTS
    MonitorTypeOK
    CaughtAreHeard
PROPERTIES
    ListDeletes
    CaughtIsWatched
CHECK_DEADLOCK FALSE

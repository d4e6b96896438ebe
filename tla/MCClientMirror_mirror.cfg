\* Two threads of one client with one request each (createOrGet makes two), and
\* another client; two nodes besides an old one that the client has not listed.
SPECIFICATION MirrorSpec
CONSTANTS
    c1 = c1
    t1 = t1
    t2 = t2
    Conn = {c1, c2}
    Name = {n1}
    Dot = Dot
    Value = {v0}
    Empty = v0
    Terminate = v9
    Param = {p}
    MaxUuid = 3
    MaxSession = 2
    TrIdMod = 4
    ReqId = {0, 1}
    Ops <- Ops_Mirror
    None = None
    Me = c1
    Old = 1
    Thread <- TwoThreads
    Expires = TRUE
VIEW View
SYMMETRY Symmetry
INVARIANTS
    MirrorTypeOK
    OneObjectPerNode
    FollowsTree
    ChildrenFollow
    ForgetsRemoved
    CreateOrGetFinds
CHECK_DEADLOCK FALSE

\* Sessions, values, remote calls and disconnects: two connections, each signing in
\* once, a node below the root and an rpc id counter that wraps around.
SPECIFICATION Spec
CONSTANTS
    Conn = {c1, c2}
    Name = {n1}
    Dot = Dot
    Value = {v0, v9}
    Empty = v0
    Terminate = v9
    Param = {p}
    MaxUuid = 1
    MaxSession = 2
    TrIdMod = 2
    ReqId = {0}
    Ops <- Ops_Library
    None = None
SYMMETRY Symmetry
INVARIANTS
    TypeOK
    CrashesAtRootOnly
    OwnersKnown
    SessionsConsistent
    ListenersBound
    ClosedGetsNothing
PROPERTIES
    SessionsOnlyFade
CHECK_DEADLOCK FALSE

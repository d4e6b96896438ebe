\* The values: two clients that set, subscribe, unsubscribe, sign in again and
\* leave, and two nodes below the root.
SPECIFICATION ViewSpec
CONSTANTS
    Conn = {c1, c2}
    Name = {n1}
    Dot = Dot
    Value = {v0, v9}
    Empty = v0
    Terminate = v9
    Param = {p}
    MaxUuid = 2
    MaxSession = 3
    TrIdMod = 2
    ReqId = {0}
    Ops <- Ops_Value
    None = None
SYMMETRY Symmetry
VIEW ViewOfValues
INVARIANTS
    SubscriberUpToDate
    HoldersSignedIn
PROPERTIES
    UpdatesOnlyToSubscribers
    KeepsPromise
CHECK_DEADLOCK FALSE

\* The picture of the tree: two clients, three nodes below the root.
SPECIFICATION ViewSpec
CONSTANTS
    Conn = {c1, c2}
    Name = {n1, n2}
    Dot = Dot
    Value = {v0}
    Empty = v0
    Terminate = v9
    Param = {p}
    MaxUuid = 3
    MaxSession = 2
    TrIdMod = 2
    ReqId = {0}
    Ops <- Ops_Tree
    None = None
SYMMETRY Symmetry
INVARIANTS
    ViewTypeOK
    TreeConsistent
    CrashesAtRootOnly
    MirrorsTree
    ListsParentsFirst
PROPERTIES
    UuidDenotesOneNode
    KeepsPromise
CHECK_DEADLOCK FALSE

\* Two nodes, which either connection may own, and one call of each connection:
\* both may call each other, or themselves.
SPECIFICATION RelaySpec
CONSTANTS
    Conn = {c1, c2}
    Name = {n1}
    Dot = Dot
    Value = {v0}
    Empty = v0
    Terminate = v9
    Param <- Calls
    MaxUuid = 2
    MaxSession = 2
    TrIdMod = 3
    ReqId = {0}
    Ops <- Ops_Relay
    None = None
    Overtake = FALSE
    Expires = FALSE
PROPERTIES
    CallsReturn
CHECK_DEADLOCK FALSE

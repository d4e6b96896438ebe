\* The owner of the node makes a call while another client calls it, and the
\* server forwards that call under the id of the owner's own.
SPECIFICATION RelaySpec
CONSTANTS
    Conn = {c1, c2}
    Name = {n1}
    Dot = Dot
    Value = {v0}
    Empty = v0
    Terminate = v9
    Param <- Calls
    MaxUuid = 1
    MaxSession = 2
    TrIdMod = 3
    ReqId = {0}
    Ops <- Ops_Relay
    None = None
    Overtake = FALSE
    Expires = FALSE
PROPERTIES
    CallsAlwaysReturn
CHECK_DEADLOCK FALSE

\* One call of each of three connections to one node, its owner's included, late
\* answers, and two ids to forward them under, so that the counter comes round to
\* an entry that was left behind.
SPECIFICATION RelaySpec
CONSTANTS
    Conn = {c1, c2, c3}
    Name = {n1}
    Dot = Dot
    Value = {v0}
    Empty = v0
    Terminate = v9
    Param <- Calls
    MaxUuid = 1
    MaxSession = 3
    TrIdMod = 2
    ReqId = {0}
    Ops <- Ops_Relay
    None = None
    Overtake = FALSE
    Expires = TRUE
SYMMETRY Symmetry
INVARIANTS
    RelayTypeOK
    ResultsTrue
    TranslationSound
CHECK_DEADLOCK FALSE

\* Two threads, a request of each and two messages that the server sends of its
\* own; a direction holds one message and a byte at most.
SPECIFICATION FramingSpec
CONSTANTS
    Thread = {t1, t2}
    Capacity = 5
    Size <- Sizes
    Requests = 2
    Unasked = 3
    None = None
INVARIANTS
    FramingTypeOK
    DeliveredAsSent
PROPERTIES
    StopsInGridlockOnly
CHECK_DEADLOCK FALSE

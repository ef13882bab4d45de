SPECIFICATION FairSpec
CONSTANTS
    Requests = {r1, r2, r3}
    MaxSessions = 3
    Closer = Closer
    None = None
INVARIANTS OneSession Heard NoQueueBehindHang
PROPERTIES ParsesOnce
CHECK_DEADLOCK FALSE

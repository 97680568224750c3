SPECIFICATION Spec
CONSTANTS
    r1 = r1
    r2 = r2
    r3 = r3
    Requests <- MCRequests
    PoolSize = 2
    Threads = 1
    Window = 2
    P = 50
INVARIANTS
    TailSeen
CHECK_DEADLOCK FALSE

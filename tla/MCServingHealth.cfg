SPECIFICATION Spec
CONSTANTS
    r1 = r1
    r2 = r2
    r3 = r3
    Requests <- MCRequests
    PoolSize = 1
    Threads = 1
    Window = 2
    P = 50
PROPERTIES
    HealthHonest
CHECK_DEADLOCK FALSE

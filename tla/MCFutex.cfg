SPECIFICATION Spec
CONSTANTS
    c1 = c1
    c2 = c2
    t1 = t1
    t2 = t2
    t3 = t3
    Cores = {c1, c2}
    Tasks = {t1, t2, t3}
    Home <- MCHome
    Prio <- MCPrio
    Addrs = {1}
    Values = {0, 1}
    Timeouts <- MCTimeouts
    Counts = {0, 1, 9}
    MaxCalls = 2
INVARIANTS
    TypeOK
    OnePlace
    SleeperIsReachable
    PanicNeedsDeadline
PROPERTIES
    WakeIsCounted
CHECK_DEADLOCK FALSE

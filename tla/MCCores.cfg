SPECIFICATION FairSpec
CONSTANTS
    c1 = c1
    c2 = c2
    t1 = t1
    t2 = t2
    t3 = t3
    t4 = t4
    far = far
INVARIANTS
    TypeOK
    CoresAreReached
    InterruptsAreRouted
    TasksAreKept
PROPERTIES
    EventsAreHandled
CHECK_DEADLOCK FALSE

SPECIFICATION FairSpec
CONSTANTS
    c1 = c1
    c2 = c2
    t1 = t1
    t2 = t2
    t3 = t3
INVARIANTS
    TypeOK
    NothingStranded
PROPERTIES
    HoldersAndWaitersAgree
    WaitsEnd
CHECK_DEADLOCK FALSE

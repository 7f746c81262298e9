SPECIFICATION Spec
CONSTANTS
    c1 = c1
    c2 = c2
    t1 = t1
INVARIANTS
    TypeOK
    FramesIntact
    DmaIsOwned
    AnswersAreOwn
    ModelIsWhole
    TranslatesAsAsked
    MachineIsRead
PROPERTIES
    ImplementsQueue
    MemoryIsOwned
CHECK_DEADLOCK FALSE

SPECIFICATION Spec
CONSTANTS
    t1 = t1
    t2 = t2
SYMMETRY Symmetry
INVARIANTS
    TypeOK
    SleepersAreReached
    BytesInOrder
    NothingLeaks
    PromptIsDecoded
PROPERTIES
    FilesAreSound
CHECK_DEADLOCK FALSE

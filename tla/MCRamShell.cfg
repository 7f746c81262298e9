SPECIFICATION Spec
CONSTANTS
    CONSOLE_LOG_CAPACITY = 4
    Bytes = {0, 1}
    LOG_PAGE = 2
    RAM_SHELL_HISTORY_CAP = 14
    MaxAppends = 2
    Prompts <- MCPrompts
    Phrases <- MCPhrases
    HeaderWords <- MCHeaderWords
    Users <- MCUsers
    Outputs <- MCOutputs
INVARIANTS
    TypeOK
    MemoryIsReplay
    RecordsWereAsked
    OneRecordPerKey
    RingIsTail

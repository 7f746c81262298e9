CONSTANTS
    short = short
    long = long
    LongSectors = 2
    Payloads = {short, long}
    SectorsOf <- MCSectorsOf
    MapSectors = 3
    EntriesPerSector = 2
    Total = 9
    Capacity = 9
    ReadFaults = {"boot"}
    MaxFaults = 2
SPECIFICATION FairSpec
INVARIANTS
    TypeOK
    Durable
    NoTornRecord
PROPERTIES
    ErasedIsGone
    BootRepairs
    ImplementsDurableLog

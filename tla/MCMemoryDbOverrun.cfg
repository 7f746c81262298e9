CONSTANTS
    short = short
    long = long
    LongSectors = 2
    Payloads = {short, long}
    SectorsOf <- MCSectorsOf
    MapSectors = 2
    EntriesPerSector = 3
    Total = 5
    Capacity = 8
    ReadFaults = {}
    MaxFaults = 0
SPECIFICATION Spec
INVARIANTS DataInRegion

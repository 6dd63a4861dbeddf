SPECIFICATION HeapSpec
CONSTANTS
    DataEnd = 5
    RamEnd = 96
    LinkOffset = 4
    MaxList = 2
    CacheSlack = 16
    Requests = {1, 18, 40}
    Junk <- Misleading
INVARIANTS
    HeapSound
    PayloadIntact
CHECK_DEADLOCK FALSE

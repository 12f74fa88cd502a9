\* Two sets of two ways, every write policy, LRU and PLRU, with data in the lines.
SPECIFICATION MemSpec
CONSTANTS
    Ways = 2
    Sets = 2
    LineBytes = 2
    BufferDepth = 2
    HitLatency = 1
    MissPenalty = 10
    MaxRecords = 5
    Configs <- AllConfigs
    Accesses <- CompetingAccesses
    MaxAccesses = 5
    Value = {v1, v2}
    InitialValues = {v1}
INVARIANTS
    SetsSound
    MissesExplained
    RefillsConserved
    StallsExplained
    ForwardsComplete
PROPERTIES
    ImplementsMemory
\* A trace ends after MaxAccesses accesses.
CHECK_DEADLOCK FALSE

\* A four-way set: fills, re-touches, bypasses and evictions.
SPECIFICATION Spec
CONSTANTS
    Ways = 4
    Sets = 1
    LineBytes = 1
    BufferDepth = 1
    HitLatency = 1
    MissPenalty = 10
    MaxRecords = 14
    Configs <- EveryPolicy
    Accesses <- FiveLines
    MaxAccesses = 6
PROPERTIES
    ImplementsLru
    KeepsRecentLines
\* A trace ends after MaxAccesses accesses.
CHECK_DEADLOCK FALSE

\* A direct-mapped L1 of one-byte lines before an L2 of one two-byte line.
SPECIFICATION Spec
CONSTANTS
    L1Sets = 2
    L1Ways = 1
    L1LineBytes = 1
    L1HitLatency = 0
    L2Sets = 1
    L2Ways = 1
    L2LineBytes = 2
    L2HitLatency = 0
    DramPenalty = 3
    LevelConfig <- Shipped
    MaxRecords = 12
    Accesses <- FiveLines
    MaxAccesses = 4
INVARIANTS
    ComparisonHolds
    StoresSurvive
\* A run ends when the comparison is done.
CHECK_DEADLOCK FALSE

CONSTANTS
    Addresses = {r1, r2}
    MaxDepth = 3
    MaxUnwound = 1
    MaxCalls = 6
SPECIFICATION CallSpec
INVARIANTS
    EntriesAreTopFrames
    MissesPayForDrops
    WithinDepthNeverMisses
CHECK_DEADLOCK FALSE

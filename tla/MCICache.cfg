\* Every design over blocks that overlap and compete.
SPECIFICATION Spec
CONSTANTS
    Ways = 2
    Sets = 2
    LineBytes = 8
    MissPenalty = 50
    Blocks <- Overlapping
    Designs <- AllDesigns
    MaxEntries = 6
INVARIANTS
    SetsSound
    MissesClassified
    LoopSettles
PROPERTIES
    ImplementsLru
\* A run ends after MaxEntries block entries.
CHECK_DEADLOCK FALSE

\* Tree replacement in one four-way set of single lines.
SPECIFICATION Spec
CONSTANTS
    Ways = 4
    Sets = 1
    LineBytes = 8
    MissPenalty = 50
    Blocks <- SingleLines
    Designs <- Plru
    MaxEntries = 8
PROPERTIES
    TreeShieldsRecentLines
\* A run ends after MaxEntries block entries.
CHECK_DEADLOCK FALSE

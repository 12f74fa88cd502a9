\* Runs that outgrow their trace by a transfer, of every design.
SPECIFICATION Spec
CONSTANTS
    Designs <- AllDesigns
    Programs <- Both
    JumpTargets <- MCJumpTargets
    MaxTrace = 6
    BitXor <- MCBitXor
INVARIANTS
    ReportsAgree
    TablesLearn
    WinnerIsChosen
\* A run ends after max_transfers transfers.
CHECK_DEADLOCK FALSE

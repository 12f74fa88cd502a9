\* Every command line of at most three options.
SPECIFICATION CommandSpec
CONSTANTS
    LongBits = 11
    IntBits = 4
    Junk = Junk
    Names <- MCNames
    Texts <- MCTexts
    Overrides <- MCOverrides
    MaxArguments = 3
INVARIANT StagesAtLeastOne
\* A run is configured once.
CHECK_DEADLOCK FALSE

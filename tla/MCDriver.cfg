\* Every way through main, over files of every layout.
SPECIFICATION Spec
CONSTANTS
    ByteValues = 4
    PageSize = 16
    HeaderSize = 12
    ProgramHeaderSize = 4
    StackPointer = 192
    StackSize = 16
    Files <- MCFiles
    Instructions <- MCInstructions
    Writes <- MCWrites
    Entries <- MCEntries
    Magic <- MCMagic
    PhoffAt = 4
    PhentsizeAt = 8
    PhnumAt = 10
    MaxStores = 1
INVARIANTS
    TypeOK
    TempFilesRemoved
    ListingComplete
    ImmediatesAsEncoded
    ListedAsExecuted
    VerdictStands
PROPERTIES
    ImageIsLoaded
    EndsOnceHalted
\* The program returns.
CHECK_DEADLOCK FALSE

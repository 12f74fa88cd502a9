\* What the listing shows of words the interpreter rejects.
SPECIFICATION Spec
CONSTANTS
    ByteValues = 4
    PageSize = 16
    HeaderSize = 12
    ProgramHeaderSize = 4
    StackPointer = 192
    StackSize = 16
    Files <- MCFiles
    Instructions <- MCInstructions
    Writes <- MCWrites
    Entries <- MCEntries
    Magic <- MCMagic
    PhoffAt = 4
    PhentsizeAt = 8
    PhnumAt = 10
    MaxStores = 1
INVARIANT MirrorsValidity
\* The program returns.
CHECK_DEADLOCK FALSE

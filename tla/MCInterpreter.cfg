CONSTANTS
    ByteValues = 4
    PageSize = 8
    Regs <- MCRegs
    StackPointer = 64
    StackSize = 16
    HeapAlignment = 4
    Image <- MCImage
    Programs <- AllPrograms
    Entry = 0
    EndAddress = 20
    Rewrites <- MCRewrites
    MaxRecords = 3
    MaxTrace = 3
    MaxEntries = 4
    MaxInstructions = 20
SPECIFICATION Spec
INVARIANTS
    TypeOK
    HeapMapped
    AccessTraceLegal
    BlocksPartition
    TransfersTellThePath
    FetchesWereExecuted
    TableCoversRun
PROPERTIES
    FaultsArePrecise
    MemoryChangesAreTraced
CHECK_DEADLOCK FALSE

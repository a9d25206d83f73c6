SPECIFICATION FairSpec
CONSTANTS
    NumCores = 2
    BlockSize = 2
    MemDelay = 1
    Tags = {0, 1}
    Indices = {0}
    Value = {0, 1, 2, 3}
    InitialMemory <- FinallyMemory
    Requests <- MixedConflicts
    StrayWords <- ZeroWord
INVARIANTS TypeOK BusProtocol QueueBounded
PROPERTY TransactionsComplete

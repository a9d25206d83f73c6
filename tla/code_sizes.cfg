SPECIFICATION FairSpec
CONSTANTS
    NumCores = 4
    BlockSize = 4
    MemDelay = 16
    Tags = {0}
    Indices = {0}
    Value = {0, 1}
    InitialMemory <- ZeroMemory
    Requests <- OneWriter
    StrayWords = {}
INVARIANT MemoryInStep
PROPERTY SomeRequestCompletes

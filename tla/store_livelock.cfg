SPECIFICATION FairSpec
CONSTANTS
    NumCores = 2
    BlockSize = 2
    MemDelay = 1
    Tags = {0}
    Indices = {0}
    Value = {0, 1}
    InitialMemory <- ZeroMemory
    Requests <- StoreOnly
    StrayWords = {}
PROPERTY SomeRequestCompletes

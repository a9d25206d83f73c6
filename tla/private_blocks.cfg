SPECIFICATION FairSpec
CONSTANTS
    NumCores = 2
    BlockSize = 4
    MemDelay = 16
    Tags = {0, 1, 2, 3}
    Indices = {0}
    Value = {0, 1, 2}
    InitialMemory <- ZeroMemory
    Requests <- PrivateBlocks
    StrayWords = {}
INVARIANT OnlyStoredWords
PROPERTIES SerialSpec RequestsComplete

SPECIFICATION Spec
CONSTANTS
    NumCores = 2
    BlockSize = 2
    MemDelay = 1
    Tags = {0, 1}
    Indices = {0}
    Value = {0, 1, 2}
    InitialMemory <- ZeroMemory
    Requests <- MixedConflicts
    StrayWords = {}
INVARIANT SWMR

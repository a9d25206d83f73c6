SPECIFICATION Spec
CONSTANTS
    NumCores = 3
    BlockSize = 4
    MemDelay = 1
    Tags = {0, 1}
    Indices = {0, 1}
    Value = {0, 1}
    InitialMemory <- ZeroMemory
    Requests <- MixedBlocks
    StrayWords = {}
INVARIANTS SWMR CleanLinesAgree LinesInv WordsInv
PROPERTY SerialSpec

SPECIFICATION Spec
CONSTANTS
    NumCores = 2
    BlockSize = 2
    MemDelay = 1
    Tags = {0}
    Indices = {0}
    Value = {0, 1}
    InitialMemory <- ZeroMemory
    Requests <- AnyWordStored
    StrayWords = {}
PROPERTY SerialSpec

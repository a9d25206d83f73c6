SPECIFICATION Spec
CONSTANTS
    WordBits = 4
    ImmBits = 3
    PcBits = 4
    NumRegs = 5
    MaxRefusals = 2
    Programs <- LinkingJumps
    InitialMemory <- CountingMemory
PROPERTY JumpsLink

SPECIFICATION FairSpec
CONSTANTS
    WordBits = 4
    ImmBits = 3
    PcBits = 4
    NumRegs = 5
    MaxRefusals = 2
    Programs <- SafePrograms
    InitialMemory <- CountingMemory
INVARIANTS PipeTypeOK ProgramFits HazardsFound InOrder WaitsBeyondWriteBack DecodedBeforeExecuted HaltedCoreIsQuiet CyclesAccounted
PROPERTIES StallsOutlastRefusals ImplementsISA ProgramHalts

SPECIFICATION FairSpec
CONSTANT MaxPollCycles <- MCPollCycles
INVARIANTS
    MainTypeOK
    NoUseAfterFree
    MenuExclusive
    NothingLeaks
PROPERTIES
    StopIsHeeded
    StopReturns

SPECIFICATION FairSpec
CONSTANTS
    IntHalf = 1024
    VarintHalf = 256
    Programs <- MCDiffering
    StackSize = 300
    MaxFrames = 16
    GlobalsSize = 6
INVARIANT
    SameOutcome
CHECK_DEADLOCK FALSE

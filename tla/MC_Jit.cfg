SPECIFICATION FairJitSpec
CONSTANTS
    IntHalf = 1024
    VarintHalf = 256
    Programs <- MCPrograms
    StackSize = 6
    MaxFrames = 4
    GlobalsSize = 4
INVARIANTS
    FramesInOrder
    SameAnswer
PROPERTY
    RunReturns
    SenderLeftOnErrors
CHECK_DEADLOCK FALSE

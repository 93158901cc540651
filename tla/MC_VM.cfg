SPECIFICATION FairSpec
CONSTANTS
    IntHalf = 1024
    VarintHalf = 256
    Programs <- MCPrograms
    StackSize = 32
    MaxFrames = 16
    GlobalsSize = 6
INVARIANT
    AnswersExpected
PROPERTY
    Implements
CHECK_DEADLOCK FALSE

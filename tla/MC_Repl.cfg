SPECIFICATION FairRepl
CONSTANTS
    IntHalf = 1024
    VarintHalf = 256
    Programs <- NoPrograms
    StackSize = 16
    MaxFrames = 6
    GlobalsSize = 8
    Prelude <- MCPrelude
    Lines <- MCLines
    MaxLines = 4
INVARIANTS
    SameAnswers
    NamesHaveValues
PROPERTIES
    LinesMakeSession
    
CHECK_DEADLOCK FALSE

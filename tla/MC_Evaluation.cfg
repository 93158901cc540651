SPECIFICATION Spec
CONSTANTS
    IntHalf = 1024
    VarintHalf = 256
    Sources <- MCSources
INVARIANTS
    TypeOK
    
PROPERTY
    CallsKeepVariables
CHECK_DEADLOCK FALSE

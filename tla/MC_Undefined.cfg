SPECIFICATION Spec
CONSTANTS
    IntHalf = 1024
    VarintHalf = 256
    Sources <- MCSources
INVARIANT
    UndefinedRejected
CHECK_DEADLOCK FALSE

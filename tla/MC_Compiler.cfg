SPECIFICATION Spec
CONSTANTS
    IntHalf = 1024
    VarintHalf = 256
    Sources <- MCSources
INVARIANTS
    CodeVerified
    StraysRejected
    BackInMain
PROPERTY
    EarlierCodeKept
CHECK_DEADLOCK FALSE

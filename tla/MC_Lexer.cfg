SPECIFICATION Spec
CONSTANTS
    Letters <- MCLetters
    Digits <- MCDigits
    Keywords <- MCKeywords
    Inputs <- MCInputs
INVARIANTS
    NothingSkipped
    LongestMatch
PROPERTY
    ReachesEOF
CHECK_DEADLOCK FALSE

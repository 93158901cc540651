SPECIFICATION Spec
CONSTANTS
    VarintBase = 4
    VarintLen = 3
    MaxRuns = 3
    Bytecodes <- MCBytecodes
INVARIANTS
    LoadsWhatIsWritten
    RunsOnlyPrefixes
PROPERTY
    OutputOnlyCompiles
CHECK_DEADLOCK FALSE

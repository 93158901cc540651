SPECIFICATION Spec
CONSTANT Sources <- MCSources
INVARIANTS
    NothingLost
    Whole
    Precedence
    StringReparses
CHECK_DEADLOCK FALSE

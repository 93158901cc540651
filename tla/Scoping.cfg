SPECIFICATION Spec
CONSTANTS
    Names = {"a", "b"}
    Builtin = "len"
    MaxParams = 2
    MaxDepth = 4
INVARIANTS
    FreeChains
    ResolvesToNearest
    ResolveAgrees
    SlotsDistinct
PROPERTY
    IndicesStable
CHECK_DEADLOCK FALSE

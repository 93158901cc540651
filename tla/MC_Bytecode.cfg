SPECIFICATION Spec
CONSTANTS
    IntHalf = 4
    VarintHalf = 2
    Programs <- MCPrograms
    StackSize = 9
    MaxFrames = 3
    GlobalsSize = 1
    MainLength = 3
    BodyLength = 3
    Under = {1, 7}
    MaxHeap = 4
INVARIANTS
    TypeOK
    ClosuresInOrder
    FramesInOrder
    CalleeInPlace
    BoundsRespected
    CleanEnd
PROPERTY
    ImplementsCalls
CONSTRAINT HeapBound
CHECK_DEADLOCK FALSE

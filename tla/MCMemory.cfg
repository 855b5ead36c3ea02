CONSTANTS
    first = first
    s1 = s1
    s2 = s2
    none = none
    kernel = kernel
    Tasks <- MCTasks
    First <- first
    Frames <- MCFrames
    None <- none
    Kernel <- kernel
    PAGE = 2
    ENTRIES = 3
    Programs <- MCPrograms
    Stack <- MCStack
    MaxIncr = 3
    HeapLimit = 15
    MaxForks = 3
    HeapAfterFork = FALSE
    LateExecFails = FALSE
SPECIFICATION MemSpec
SYMMETRY SlotSymmetry
VIEW MemView
INVARIANTS
    FramesExact
    MappedExactly
PROPERTIES
    OthersUntouched
CHECK_DEADLOCK FALSE

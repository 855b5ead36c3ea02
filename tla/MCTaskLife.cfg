CONSTANTS
    f = f
    s1 = s1
    s2 = s2
    s3 = s3
    idle = idle
    none = none
    mtx = mtx
    Tasks <- ThreeSlots
    Idle <- idle
    First <- f
    None <- none
    TIME_SLICE = 1
    OS_TICKS_MS = 10
    MaxSleep = 1
    Sems <- NoSem
    Mutexes <- OneMutex
    SemInit <- NoSemInit
    MaxCount = 0
    MaxDepth = 1
    TableMutex <- mtx
    MaxForks = 4
    SlotsClash = FALSE
    LeavesOrphans = FALSE
SPECIFICATION LifeSpec
SYMMETRY SlotSymmetry
INVARIANTS
    LiveTasksHaveAPlace
    FamilyIsSound
PROPERTIES
    ReapedByParent

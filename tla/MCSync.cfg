CONSTANTS
    t1 = t1
    t2 = t2
    t3 = t3
    idle = idle
    none = none
    sem = sem
    mtx = mtx
    Tasks <- MCTasks
    Idle <- idle
    First <- t1
    None <- none
    TIME_SLICE = 1
    OS_TICKS_MS = 10
    MaxSleep = 1
    Sems <- OneSem
    Mutexes <- OneMutex
    SemInit <- MCSemInit
    MaxCount = 1
    MaxDepth = 2
SPECIFICATION FairSyncSpec
INVARIANTS
    SyncTypeOK
    EveryTaskHasItsPlace
PROPERTIES
    SemaphoresAreQueues
    MutexesAreFairLocks
    LockServed

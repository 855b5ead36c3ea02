CONSTANTS
    t1 = t1
    t2 = t2
    t3 = t3
    idle = idle
    Tasks <- MCTasks
    Idle <- idle
    First <- t1
    TIME_SLICE = 2
    OS_TICKS_MS = 2
    MaxSleep = 3
SPECIFICATION FairClockSpec
INVARIANTS
    SchedTypeOK
    QueuesAgree
    TicksConserved
    WaitIsBounded
PROPERTIES
    NoOvertaking
    ReadyRuns
    SleepersWake

SPECIFICATION DiskSpec
CONSTANTS
    Users = {t1, t2, t3}
    Sems <- MCSems
    Start <- MCStart
    Drives <- MCDrives
    Minors <- MCMinors
    MaxCount = 2
    NoOp = NoOp
INVARIANTS
    DiskTypeOK
    MovesItsSectors
PROPERTIES
    CallReturns

SPECIFICATION FatSpec
CONSTANTS
    f1 = f1
    f2 = f2
    Free = Free
    End = End
    Names <- MCNames
    Modes <- MCModes
    Faults <- MCFaults
    OnDisk <- MCOnDisk
    TBL_SECTORS = 2
    PER_SEC = 3
    ROOT_ENT = 3
    DIR_PER_SEC = 3
    CLUSTER = 2
    Handles = {h1, h2}
    h1 = h1
    h2 = h2
    Bad = {4}
    MaxOpens = 3
    Habits = {}
    Lengths = {1, 2, 3}
    MaxSize = 3
VIEW MCView
INVARIANTS
    ChainsDisjoint
    TablesAndBufferAgree
    ReadsWhatWasWritten
    ListingAgrees
SYMMETRY Sym

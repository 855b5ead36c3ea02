CONSTANTS
    t1 = t1
    t2 = t2
    t3 = t3
    m1 = m1
    m2 = m2
    bad = bad
    none = none
    Tasks <- ThreeTasks
    First <- t1
    Fds <- MCFds
    Files <- MCFiles
    None <- none
    NoDev <- none
    DevIds <- MCDevIds
    Minors <- MCMinors
    BadMinors <- MCBad
    ClosesOverlap = FALSE
SPECIFICATION FileSpec
SYMMETRY MCSymmetry
INVARIANTS
    RefIsNumberOfDescriptors
    OpenCountIsNumberOfFiles

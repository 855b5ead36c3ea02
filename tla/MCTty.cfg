CONSTANTS
    t1 = t1
    t2 = t2
    none = none
    Users <- MCUsers
    Sems <- MCSems
    Start <- MCStart
    OBUF_SIZE = 2
    IBUF_SIZE = 2
    Chars <- MCChars
    Lines <- MCLines
    Keys <- MCKeys
    ReadSize = 2
    MaxWrites = 1
    MaxKeys = 3
    None <- none
SPECIFICATION FairTtySpec
INVARIANTS
    TokensMatch
    ScreenInOrder
PROPERTIES
    StuckOnlyTogether
CHECK_DEADLOCK FALSE

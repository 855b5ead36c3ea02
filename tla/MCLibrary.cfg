CONSTANTS
    WIDTH = 6
    FS_TABLE_SIZE = 3
    FS_MOUNTP_SIZE = 8
    NAME_SIZE = 16
    Bases <- MCBases
    Pieces <- MCPieces
    MaxPieces = 3
    Minors <- MCMinors
    Names <- MCNames
    Folders <- MCFolders
    Blocks <- MCBlocks
    PAGES = 8
    Lists = {ready, sleeping}
    Links = {n1, n2, n3, n4}
    Null = Null
    RING_SIZE = 3
    RingChars = {"NUL", "a", "b"}
SPECIFICATION LibrarySpec
INVARIANTS
    NumeralsAgree
    NamesAgree
    ListsLinked
    FifoHoldsItsChars
PROPERTIES
    PagesFound
CHECK_DEADLOCK FALSE

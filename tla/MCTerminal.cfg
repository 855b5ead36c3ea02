SPECIFICATION TermSpec
CONSTANTS
    CONSOLE_NR = 2
    ROWS = 2
    COLS = 3
    ESC_PARAM_MAX = 2
    Glyphs <- MCGlyphs
    Boot <- MCDisp
    BootCursor <- MCCursor
    Messages <- MCMessages
    Habits = {}
    map_table <- MCMap
    E0Keys <- MCE0
    Fx <- MCFx
    MaxEvents = 12
    KeyCost = 3
    TextCost = 4
    MaxBehind = 1
INVARIANTS
    KeyboardAgrees
PROPERTIES
    ScreensSpec

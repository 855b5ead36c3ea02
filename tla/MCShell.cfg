CONSTANTS
    first = first
    t1 = t1
    t2 = t2
    none = none
    prog = prog
    cmd = cmd
    First <- first
    Slots <- MCSlots
    Ttys <- MCTtys
    None <- none
    Programs <- MCPrograms
    Others <- MCOthers
    Elf <- MCElf
    MaxFd = 4
    MaxLines = 1
SPECIFICATION ShellSpec
INVARIANTS
    AtRest
    OneReader
PROPERTIES
    CommandsEnd
CHECK_DEADLOCK FALSE

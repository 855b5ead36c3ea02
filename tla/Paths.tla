-------------------------------- MODULE Paths -------------------------------
(***************************************************************************)
(* Names: the mount points of kernel/fs/fs.c and how sys_open finds its    *)
(* way from a path to a file system, the device names of devfs and the     *)
(* short names of the FAT directory.                                       *)
(***************************************************************************)
EXTENDS Klib

CONSTANTS FS_TABLE_SIZE,   \* file systems that can be mounted
          FS_MOUNTP_SIZE,  \* characters of a mount point
          NAME_SIZE        \* FILE_NAME_SIZE and TASK_NAME_SIZE

ASSUME PathsAssumption ==
    FS_TABLE_SIZE \in Nat /\ FS_MOUNTP_SIZE \in Nat /\ NAME_SIZE \in Nat

NoPath == "null"

-----------------------------------------------------------------------------
(* Mounting *)

\* The list of the mounted file systems after one more call of mount: it
\* stays as it is when there is one at that point, when the table is full, when
\* the type is not known, and when the file system's own mount fails.
mount(mounted, m) ==
    IF \/ \E i \in DOMAIN mounted :
            kernel_strncmp(mounted[i].point, m.point, FS_MOUNTP_SIZE)
       \/ Len(mounted) = FS_TABLE_SIZE
       \/ m.type \notin {"FS_FAT16", "FS_DEVFS"}
       \/ ~m.mounts
    THEN mounted
    ELSE Append(mounted, [type |-> m.type, point |-> kernel_strncpy(m.point, FS_MOUNTP_SIZE)])

DEV == <<"/", "d", "e", "v">>
HOME == <<"/", "h", "o", "m", "e">>

\* The mounted list when fs_init has returned: the kernel stops when one of the
\* two mounts fails.
fs_init ==
    FoldLeft(mount, <<>>, <<[type |-> "FS_DEVFS", point |-> DEV, mounts |-> TRUE],
                            [type |-> "FS_FAT16", point |-> HOME, mounts |-> TRUE]>>)

-----------------------------------------------------------------------------
(* Paths *)

path_begin_with(path, str) == IsPrefix(str, path)

\* path + 1 behind the slashes in front, then behind the next slash.
path_next_child(path) ==
    LET plain == {i \in DOMAIN path : path[i] # "/"}
        next == {i \in DOMAIN path : i > Min(plain) /\ path[i] = "/"}
    IN  IF plain = {} \/ next = {} THEN NoPath
        ELSE IF Min(next) = Len(path) THEN NoPath
        ELSE SubSeq(path, Min(next) + 1, Len(path))

DigitValue(c) == (CHOOSE i \in DOMAIN Digits : Digits[i] = c) - 1

\* The characters in front of a slash are taken for decimal digits.
path_to_num(path) ==
    LET slashes == {i \in DOMAIN path : path[i] = "/"}
        digits == SubSeq(path, 1, Min(slashes \cup {Len(path) + 1}) - 1)
    IN  FoldLeft(LAMBDA n, c : Signed(n * 10 + DigitValue(c)), 0, digits)

\* The file system a path leads to and what is left of the path: the first
\* mounted one whose point the path begins with, or the root, which takes the
\* whole path.
lookup(mounted, path) ==
    LET found == {i \in DOMAIN mounted : path_begin_with(path, mounted[i].point)}
    IN  IF found = {} THEN [type |-> "FS_FAT16", path |-> path]
        ELSE [type |-> mounted[Min(found)].type, path |-> path_next_child(path)]

TTY == <<"t", "t", "y">>

\* The minor number devfs_open opens the tty with; a path of three characters
\* or less leaves it undefined.
devfs_open(path) ==
    IF path = NoPath \/ ~kernel_strncmp(path, TTY, Len(TTY)) THEN "failed"
    ELSE IF Len(path) > Len(TTY)
         THEN path_to_num(SubSeq(path, Len(TTY) + 1, Len(path)))
         ELSE "any"

-----------------------------------------------------------------------------
(* Names in the FAT directory: eight characters and three, filled with blanks. *)

SFN_LEN == 11
Lower == <<"a", "b", "c", "d", "e", "f", "g", "h", "i", "j", "k", "l", "m",
           "n", "o", "p", "q", "r", "s", "t", "u", "v", "w", "x", "y", "z">>
Upper == <<"A", "B", "C", "D", "E", "F", "G", "H", "I", "J", "K", "L", "M",
           "N", "O", "P", "Q", "R", "S", "T", "U", "V", "W", "X", "Y", "Z">>

ToUpper(c) ==
    IF \E i \in DOMAIN Lower : Lower[i] = c
    THEN Upper[CHOOSE i \in DOMAIN Lower : Lower[i] = c] ELSE c

\* One turn of the loop of to_sfn: curr is the next place, and the loop ends
\* behind the last one.
Placed(s, c) ==
    IF s.curr > SFN_LEN THEN s
    ELSE IF c = "." THEN [s EXCEPT !.curr = 9]
    ELSE [dest |-> [s.dest EXCEPT ![s.curr] = ToUpper(c)], curr |-> s.curr + 1]

to_sfn(src) ==
    FoldLeft(Placed, [dest |-> [i \in 1 .. SFN_LEN |-> " "], curr |-> 1], src).dest

diritem_name_match(dirName, path) == to_sfn(path) = dirName

\* The blanks are left out, and so is the dot when nothing is behind it.
Shown(dirName) ==
    LET Seen(i, j) == SelectSeq(SubSeq(dirName, i, j), LAMBDA c : c # " ")
    IN  Seen(1, 8) \o IF Seen(9, 11) = <<>> THEN <<>> ELSE <<".">> \o Seen(9, 11)

\* Mutant: the buffer is not cleared.
diritem_get_name_Kept(dirName, dest) ==
    LET text == Shown(dirName)
    IN  [i \in DOMAIN dest |-> IF i \in DOMAIN text THEN text[i] ELSE dest[i]]

\* The buffer dest with a name in it.  Only the first SFN_LEN + 1 bytes are
\* cleared: what is behind them stays as it was.
diritem_get_name(dirName, dest) ==
    LET text == Shown(dirName)
    IN  [i \in DOMAIN dest |-> IF i \in DOMAIN text THEN text[i]
                              ELSE IF i <= SFN_LEN + 1 THEN "NUL" ELSE dest[i]]

=============================================================================

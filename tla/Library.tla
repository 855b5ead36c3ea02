------------------------------- MODULE Library ------------------------------
(***************************************************************************)
(* Calls of the kernel's library: numerals and formatted text, names and   *)
(* paths, which have no state, so that a behaviour makes one such call;    *)
(* and the pages of the bitmap, the linked lists and a terminal's fifo,    *)
(* each used again and again in a behaviour of its own.  The properties    *)
(* say what each call has to return or leave behind without the algorithm. *)
(***************************************************************************)
EXTENDS Paths, Bitmap, ListImpl, RingFifo

CONSTANTS Bases,      \* bases asked of kernel_itoa
          Pieces,     \* pieces of a format, each with its conversion and argument
          MaxPieces,  \* pieces in a format
          Minors,     \* numbers of terminals
          Names,      \* file names: at most eight characters, a dot and three
          Folders,    \* what may stand in front of the name of a program
          Blocks,     \* what a block from malloc may hold, where dirent.name is in it
          PAGES       \* bits of the bitmap

VARIABLES call,    \* the call that has returned, with its arguments
          result,  \* what it has returned
          pages    \* the bitmap

vars == <<call, result, pages, listVars, ringVars>>

\* The mounted file systems once the kernel runs.
Mounted == fs_init

\* The format and the arguments that stand for a sequence of pieces.
Conversion(p) == IF p.spec = "text" THEN p.arg ELSE <<"%", p.spec>>
Format(ps) == FlattenSeq([i \in DOMAIN ps |-> Conversion(Pieces[ps[i]])])
Arguments(ps) ==
    LET taking == SelectSeq(ps, LAMBDA i : Pieces[i].spec # "text")
    IN  [i \in DOMAIN taking |-> Pieces[taking[i]].arg]

LibraryInit ==
    /\ call = [op |-> "none"]
    /\ result = "none"
    /\ pages = bitmap_init(PAGES, 0)
    /\ ListsInit /\ RingInit

FirstCall == call.op = "none"
Paging == call.op \in {"none", "alloc", "free"}

itoa ==
    /\ FirstCall
    /\ \E num \in -(2 ^ (WIDTH - 1)) .. 2 ^ (WIDTH - 1) - 1, base \in Bases :
         /\ call' = [op |-> "itoa", num |-> num, base |-> base]
         /\ result' = kernel_itoa(num, base)
    /\ UNCHANGED <<pages, listVars, ringVars>>

vsprintf ==
    /\ FirstCall
    /\ \E ps \in SeqOf(DOMAIN Pieces, MaxPieces) :
         /\ call' = [op |-> "vsprintf", pieces |-> ps]
         /\ result' = kernel_vsprintf(Format(ps), Arguments(ps))
    /\ UNCHANGED <<pages, listVars, ringVars>>

\* sys_open of a terminal, as init and the shell name it.
open_tty ==
    /\ FirstCall
    /\ \E n \in Minors :
         LET way == lookup(Mounted, DEV \o <<"/">> \o TTY \o kernel_itoa(n, 10))
         IN  /\ call' = [op |-> "tty", minor |-> n]
             /\ result' = [type |-> way.type, minor |-> devfs_open(way.path)]
    /\ UNCHANGED <<pages, listVars, ringVars>>

\* sys_open of a file, with and without the mount point in front of it.
open_file ==
    /\ FirstCall
    /\ \E name \in Names, full \in BOOLEAN :
         LET way == lookup(Mounted, IF full THEN HOME \o <<"/">> \o name ELSE name)
         IN  /\ call' = [op |-> "file", name |-> name]
             /\ result' = [type |-> way.type, dirName |-> to_sfn(way.path)]
    /\ UNCHANGED <<pages, listVars, ringVars>>

\* readdir of an entry made for the name: the names of a directory are written
\* one after the other into the same block, which malloc does not clear.
readdir ==
    /\ call.op \in {"none", "entry"}
    /\ \E name \in Names, dest \in IF FirstCall THEN Blocks ELSE {result} :
         /\ call' = [op |-> "entry", name |-> name]
         /\ result' = diritem_get_name(to_sfn(name), dest)
    /\ UNCHANGED <<pages, listVars, ringVars>>

\* The name of a task: sys_execve takes it from the path.
task_name ==
    /\ FirstCall
    /\ \E folder \in Folders, name \in Names :
         /\ call' = [op |-> "task", name |-> name]
         /\ result' = kernel_strncpy(get_file_name(folder \o name), NAME_SIZE)
    /\ UNCHANGED <<pages, listVars, ringVars>>

alloc_page ==
    LET taken == addr_alloc_page(pages, 1) IN
    /\ Paging
    /\ call' = [op |-> "alloc"]
    /\ result' = taken.index
    /\ pages' = taken.bits
    /\ UNCHANGED <<listVars, ringVars>>

free_page ==
    /\ Paging
    /\ \E i \in 0 .. PAGES - 1 :
         /\ bitmap_get_bit(pages, i) = 1
         /\ call' = [op |-> "free", page |-> i]
         /\ result' = "none"
         /\ pages' = addr_free_page(pages, i, 1)
    /\ UNCHANGED <<listVars, ringVars>>

lists ==
    /\ call.op \in {"none", "list"}
    /\ call' = [op |-> "list"]
    /\ ListsNext
    /\ UNCHANGED <<result, pages, ringVars>>

ring ==
    /\ call.op \in {"none", "fifo"}
    /\ call' = [op |-> "fifo"]
    /\ RingNext
    /\ UNCHANGED <<result, pages, listVars>>

LibraryNext ==
    \/ itoa \/ vsprintf
    \/ open_tty \/ open_file \/ readdir \/ task_name
    \/ alloc_page \/ free_page \/ lists \/ ring

LibrarySpec == LibraryInit /\ [][LibraryNext]_vars

-----------------------------------------------------------------------------

\* The number a text of digits stands for.
Value(text, base) == FoldLeft(LAMBDA v, c : v * base + DigitValue(c), 0, text)

\* A canonical numeral: at least one digit, and no zero in front of others.
Canonical(text) == text # <<>> /\ (text[1] = "0" => Len(text) = 1)

Numeral(text, num, base) ==
    IF base = 10 /\ num < 0
    THEN text[1] = "-" /\ Canonical(Tail(text)) /\ Value(Tail(text), 10) = -num
    ELSE Canonical(text) /\ Value(text, base) = Unsigned(num)

\* What a piece contributes to the text.
Expected(p) ==
    CASE p.spec = "d" -> kernel_itoa(p.arg, 10)
      [] p.spec = "x" -> kernel_itoa(p.arg, 16)
      [] p.spec = "c" -> <<p.arg>>
      [] OTHER -> p.arg

\* The numeral of every int, the smallest one too, can be read back in its base,
\* and the parts of a formatted text stand in it one behind the other, whatever
\* follows whatever: a numeral is not cut or run over by what comes next.
NumeralsAgree ==
    /\ call.op = "itoa" =>
         IF call.base \in {2, 8, 10, 16} THEN Numeral(result, call.num, call.base)
         ELSE result = <<>>
    /\ call.op = "vsprintf" =>
         result = FlattenSeq([i \in DOMAIN call.pieces |-> Expected(Pieces[call.pieces[i]])])

Uppercase(name) == [i \in DOMAIN name |-> ToUpper(name[i])]

\* The string in a buffer.
TextOf(buffer) ==
    LET ends == {i \in DOMAIN buffer : buffer[i] = "NUL"}
    IN  IF ends = {} THEN buffer ELSE SubSeq(buffer, 1, Min(ends) - 1)

\* A name leads back to what it names: the path of a terminal to its number, the
\* path of a file, long or short, to the root directory and to an entry that no
\* other name matches, the path of a program to its last part.  The entry reads
\* as the name, whatever the names read before and the block have left in the
\* buffer, with one exception: a name of eight and three characters fills all
\* the bytes that have been cleared, and nothing ends it.
NamesAgree ==
    /\ call.op = "tty" => result = [type |-> "FS_DEVFS", minor |-> call.minor]
    /\ call.op = "file" =>
         /\ result.type = "FS_FAT16"
         /\ \A other \in Names :
              diritem_name_match(result.dirName, other)
                <=> Uppercase(other) = Uppercase(call.name)
    /\ call.op = "entry" =>
         /\ IsPrefix(Uppercase(call.name), TextOf(result))
         /\ Len(call.name) <= SFN_LEN => TextOf(result) = Uppercase(call.name)
    /\ call.op = "task" => result = call.name

\* A page is handed out to one owner at a time, and there is a page as long as
\* one is free; the allocation and the return of one leave the others alone.
PagesFound ==
    [][LET Free == {i \in 0 .. PAGES - 1 : bitmap_get_bit(pages, i) = 0} IN
       /\ call'.op = "alloc" =>
            IF Free = {} THEN result' = -1 /\ pages' = pages
            ELSE /\ result' \in Free
                 /\ pages' = [pages EXCEPT ![result' + 1] = 1]
       /\ call'.op = "free" => pages' = [pages EXCEPT ![call'.page + 1] = 0]]_vars

=============================================================================

-------------------------------- MODULE Shell -------------------------------
(***************************************************************************)
(* The processes that run on top of the kernel: the first task, which      *)
(* starts a shell on every terminal, the shells (shell/main.c) and the     *)
(* programs they start (loop/main.c stands for them).                      *)
(*                                                                         *)
(* A process is its place in its program and its image: what fork copies   *)
(* and execve and exit take away.  The image keeps the descriptors, the    *)
(* number of blocks from malloc, and getopt's optind, which outlives the   *)
(* command that used it.  The system calls do what the stubs of            *)
(* applib/lib_syscall.c and the kernel promise: the modules about the      *)
(* kernel show how far they do.  Only wait is cut where the kernel cuts    *)
(* it, between the scan of the children and the block, because a shell     *)
(* can wait for ever there.  Calls that only print are left out, and with  *)
(* them the commands help and clear.                                       *)
(***************************************************************************)
EXTENDS Naturals, Sequences, FiniteSets

CONSTANTS First,      \* the first task
          Slots,      \* the other entries of the task table, by their number
          Ttys,       \* the terminals in the order of their shells
          None,       \* a null pointer
          Programs,   \* the names of the program files
          Others,     \* the names of the files that are no programs
          Elf,        \* the name a name becomes with ".elf" behind it
          MaxFd,      \* descriptors are 0 .. MaxFd (TASK_OFILE_NR - 1)
          MaxLines    \* the lines of a file, or entries of the directory

Names == Programs \cup Others
Tasks == Slots \cup {First}
Terminals == {Ttys[i] : i \in DOMAIN Ttys}

ASSUME ShellAssumption ==
    /\ First \notin Slots /\ Slots \subseteq Nat
    /\ None \notin Tasks
    /\ Ttys \in Seq(Terminals) /\ \A i, j \in DOMAIN Ttys : Ttys[i] = Ttys[j] => i = j
    /\ Elf \in [Names -> Names \cup {None}]
    /\ MaxFd \in Nat \ {0, 1} /\ MaxLines \in Nat

VARIABLES at,        \* where a process is in its program
          parent,    \* task->parent
          image,     \* what it has in memory, and its descriptors
          present,   \* the files that exist
          echo,      \* does the terminal echo (TTY_IECHO)
          started    \* the first task's loop variable i

shellVars == <<at, parent, image, present, echo, started>>

-----------------------------------------------------------------------------
(* What can be typed: a line is a command, its option and its file names. *)

Line(cmds, opts, files, tos) == [cmd : cmds, opt : opts, file : files, to : tos]

Lines ==
    Line({"quit", "ls", "echo"}, {""}, {None}, {None})
      \cup Line({"echo"}, {"args"}, {None}, {None})
      \cup Line({"less"}, {"bad"}, {None}, {None})
      \cup Line({"less"}, {"", "l"}, Names, {None})
      \cup Line({"cp"}, {"too few"}, {None}, {None})
      \cup Line({"cp"}, {""}, Names, Names)
      \cup Line({"rm", "exec"}, {""}, Names, {None})

\* The parts of a line that are still looked at.
AnyLine ==
    [cmd : {"", "quit", "ls", "echo", "less", "cp", "rm", "exec"},
     opt : {"", "args", "bad", "l", "too few"}, file : Names \cup {None}, to : Names \cup {None}]

NoLine == [cmd |-> "", opt |-> "", file |-> None, to |-> None]

\* The image of a program that has just been started on terminal t.
Fresh(t, fds) ==
    [tty |-> t, fds |-> fds, heap |-> 0, optind |-> "first", line |-> NoLine,
     files |-> <<>>, left |-> 0]

Goes(p, place) == at' = [at EXCEPT ![p] = place]
Gets(p, img) == image' = [image EXCEPT ![p] = img]

FreeFds(img) == (0 .. MaxFd) \ img.fds
Lowest(S) == CHOOSE i \in S : \A j \in S : i <= j
NextFd(img) == Lowest(FreeFds(img))

\* open, and fopen, which opens: the lowest free descriptor.
Opened(img) ==
    [img EXCEPT !.fds = @ \cup {NextFd(img)}, !.files = Append(@, NextFd(img))]

\* The name of the file is not looked at again.
Forgets(img) == [img EXCEPT !.line.file = None]

\* close, or fclose, of everything the command has opened.
Closed(img) ==
    [img EXCEPT !.fds = @ \ {img.files[i] : i \in DOMAIN img.files}, !.files = <<>>]

\* A file that exists may still not open: the tables may be full.
MayOpen(p, f) == f \in present /\ FreeFds(image[p]) # {}

-----------------------------------------------------------------------------
(* The system calls about processes *)

FreeSlots == {c \in Slots : at[c] = "free"}

\* fork: the child has the first free slot, the image img and its own place; the
\* parent goes on with the image own.
forks(p, img, childAt, own, place) ==
    LET c == Lowest(FreeSlots) IN
    /\ FreeSlots # {}
    /\ at' = [at EXCEPT ![p] = place, ![c] = childAt]
    /\ parent' = [parent EXCEPT ![c] = p]
    /\ image' = [image EXCEPT ![p] = own, ![c] = img]

Children(p) == {c \in Slots : parent[c] = p}
Zombies(p) == {c \in Children(p) : at[c] = "zombie"}

\* Mutant: nobody is woken.
Woken_nobody(p) == {}

\* Whom the exit of p wakes, if they are blocked in wait: its parent, and the
\* first task when it inherits children.
Woken(p) == {parent[p]} \cup IF Children(p) = {} THEN {} ELSE {First}

\* In the block of wait.
Blocked == {"blocked", "forgotten"}

\* exit: the children go to the first task; the process waits to be reaped.
exits(p) ==
    /\ at' = [q \in Tasks |-> IF q = p THEN "zombie"
                              ELSE IF q \in Woken(p) /\ at[q] \in Blocked THEN "wait"
                              ELSE at[q]]
    /\ Gets(p, Fresh(image[p].tty, {}))
    /\ parent' = [c \in Slots |-> IF parent[c] = p THEN First ELSE parent[c]]

\* wait finds a child that has exited, and returns.
wait(p, c, place) ==
    /\ at[p] = "wait"
    /\ c \in Zombies(p)
    /\ at' = [at EXCEPT ![p] = place, ![c] = "free"]
    /\ parent' = [parent EXCEPT ![c] = None]

\* It finds none and gives the mutex of the task table back ...
wait_release(p) ==
    /\ at[p] = "wait"
    /\ Zombies(p) = {}
    /\ Goes(p, "unlocked")
    /\ UNCHANGED <<parent, image, present, echo, started>>

\* ... and then blocks, whoever has exited in between.  The task does not know
\* that a child is a zombie by then, but the place tells it.
wait_block(p) ==
    /\ at[p] = "unlocked"
    /\ Goes(p, IF Zombies(p) = {} THEN "blocked" ELSE "forgotten")
    /\ UNCHANGED <<parent, image, present, echo, started>>

-----------------------------------------------------------------------------
(* The first task *)

ShellInit ==
    /\ at = [p \in Tasks |-> IF p = First THEN "spawn" ELSE "free"]
    /\ parent = [c \in Slots |-> None]
    /\ image = [p \in Tasks |-> Fresh(None, {})]
    /\ present \in {Names, Names \ {f \in Names : Elf[f] # None}}
    /\ echo = [t \in Terminals |-> TRUE]
    /\ started = 0

\* Mutant: the name of the terminal is not changed from turn to turn.
first_forks_OneTty ==
    /\ at[First] = "spawn"
    /\ IF started = Len(Ttys) \/ FreeSlots = {}
       THEN /\ Goes(First, "wait")
            /\ UNCHANGED <<parent, image, started>>
       ELSE /\ forks(First, Fresh(Ttys[1], {}), "start", image[First], "spawn")
            /\ started' = started + 1
    /\ UNCHANGED <<present, echo>>

\* One turn of the loop over the terminals; a fork that fails ends it.
first_forks ==
    /\ at[First] = "spawn"
    /\ IF started = Len(Ttys) \/ FreeSlots = {}
       THEN /\ Goes(First, "wait")
            /\ UNCHANGED <<parent, image, started>>
       ELSE /\ forks(First, Fresh(Ttys[started + 1], {}), "start", image[First], "spawn")
            /\ started' = started + 1
    /\ UNCHANGED <<present, echo>>

first_waits ==
    /\ \E c \in Slots : wait(First, c, "wait")
    /\ UNCHANGED <<image, present, echo, started>>

\* The child of the first task executes the shell, or sleeps for ever.
start(p) ==
    /\ at[p] = "start"
    /\ Goes(p, "main") \/ Goes(p, "asleep")
    /\ UNCHANGED <<parent, image, present, echo, started>>

\* open(argv[0]), dup(0), dup(0)
main(p) ==
    /\ at[p] = "main"
    /\ Gets(p, [image[p] EXCEPT !.fds = 0 .. 2])
    /\ Goes(p, "prompt")
    /\ UNCHANGED <<parent, present, echo, started>>

-----------------------------------------------------------------------------
(* The loop of the shell: each command returns to the prompt. *)

Returns(p) == Goes(p, "prompt")
Idle(p) == [image[p] EXCEPT !.line = NoLine, !.left = 0]

\* A line has been typed; find_builtin and find_exec_path tell what it is.
read_line(p) ==
    /\ at[p] = "prompt"
    /\ \E l \in Lines :
         /\ Gets(p, [image[p] EXCEPT !.line = l])
         /\ Goes(p, l.cmd)
    /\ UNCHANGED <<parent, present, echo, started>>

do_exit(p) ==
    /\ at[p] = "quit"
    /\ exits(p)
    /\ UNCHANGED <<present, echo, started>>

\* echo without an argument reads a line from the terminal.  Else getopt goes
\* over the options and leaves optind behind them.
do_echo(p) ==
    /\ at[p] = "echo"
    /\ IF image[p].line.opt = ""
       THEN Goes(p, "echo_read") /\ UNCHANGED image
       ELSE /\ Gets(p, [image[p] EXCEPT !.optind = "moved"])
            /\ Goes(p, "echo_args")
    /\ UNCHANGED <<parent, present, echo, started>>

\* Help, an unknown option, no text, or the text: optind is reset in each.
echo_ends(p) ==
    /\ at[p] \in {"echo_read", "echo_args"}
    /\ Gets(p, [Idle(p) EXCEPT !.optind = IF at[p] = "echo_args" THEN "first" ELSE @])
    /\ Returns(p)
    /\ UNCHANGED <<parent, present, echo, started>>

\* opendir: a block for the DIR, given back when the call fails.
do_ls(p) ==
    /\ at[p] = "ls"
    /\ \/ \E n \in 0 .. MaxLines :
            /\ Gets(p, [image[p] EXCEPT !.heap = @ + 1, !.left = n])
            /\ Goes(p, "ls_entry")
       \/ Gets(p, Idle(p)) /\ Returns(p)
    /\ UNCHANGED <<parent, present, echo, started>>

\* readdir until it has no more, then closedir.
ls_entry(p) ==
    /\ at[p] = "ls_entry"
    /\ IF image[p].left > 0
       THEN Gets(p, [image[p] EXCEPT !.left = @ - 1]) /\ UNCHANGED at
       ELSE Gets(p, [Idle(p) EXCEPT !.heap = @ - 1]) /\ Returns(p)
    /\ UNCHANGED <<parent, present, echo, started>>

\* getopt; a wrong option and a missing file name end the command.
do_less(p) ==
    /\ at[p] = "less"
    /\ IF image[p].line.opt = "bad"
       THEN Gets(p, [Idle(p) EXCEPT !.optind = "first"]) /\ Returns(p)
       ELSE /\ Gets(p, [image[p] EXCEPT !.optind = "moved"])
            /\ Goes(p, "less_open")
    /\ UNCHANGED <<parent, present, echo, started>>

\* fopen and malloc; the file has up to MaxLines lines.
less_open(p) ==
    /\ at[p] = "less_open"
    /\ \/ /\ MayOpen(p, image[p].line.file)
          /\ \E n \in 0 .. MaxLines :
               Gets(p, [Forgets(Opened(image[p])) EXCEPT !.heap = @ + 1, !.left = n])
          /\ Goes(p, IF image[p].line.opt = "l" THEN "less_quiet" ELSE "less_line")
       \/ Gets(p, [Idle(p) EXCEPT !.optind = "first"]) /\ Returns(p)
    /\ UNCHANGED <<parent, present, echo, started>>

\* ioctl(0, TTY_CMD_ECHO, 0, 0)
less_quiet(p) ==
    /\ at[p] = "less_quiet"
    /\ echo' = [echo EXCEPT ![image[p].tty] = FALSE]
    /\ Goes(p, "less_line")
    /\ UNCHANGED <<parent, image, present, started>>

\* fgets: the next line, or the end of the file.  With -l a key is awaited
\* after each line.
less_line(p) ==
    /\ at[p] = "less_line"
    /\ IF image[p].left > 0
       THEN /\ Gets(p, [image[p] EXCEPT !.left = @ - 1])
            /\ Goes(p, IF image[p].line.opt = "l" THEN "less_key" ELSE "less_line")
       ELSE Goes(p, "less_quit") /\ UNCHANGED image
    /\ UNCHANGED <<parent, present, echo, started>>

\* Mutant: the key 'q' leaves the command at once.
less_key_JustReturns(p) ==
    /\ at[p] = "less_key"
    /\ \/ Goes(p, "less_line") /\ UNCHANGED image
       \/ Gets(p, [Closed(Idle(p)) EXCEPT !.heap = @ - 1, !.optind = "first"])
          /\ Returns(p)
    /\ UNCHANGED <<parent, present, echo, started>>

\* 'n' goes on, 'q' ends; other keys are read and forgotten.
less_key(p) ==
    /\ at[p] = "less_key"
    /\ Goes(p, "less_line") \/ Goes(p, "less_quit")
    /\ UNCHANGED <<parent, image, present, echo, started>>

less_quit(p) ==
    /\ at[p] = "less_quit"
    /\ echo' = IF image[p].line.opt = "l" THEN [echo EXCEPT ![image[p].tty] = TRUE]
               ELSE echo
    /\ Gets(p, [Closed(Idle(p)) EXCEPT !.heap = @ - 1, !.optind = "first"])
    /\ Returns(p)
    /\ UNCHANGED <<parent, present, started>>

\* The two fopen of cp: both are tried, the second creates its file.
do_cp(p) ==
    /\ at[p] = "cp"
    /\ IF image[p].line.opt = "too few"
       THEN Gets(p, Idle(p)) /\ Returns(p)
       ELSE /\ \/ Gets(p, Forgets(image[p]))
               \/ /\ MayOpen(p, image[p].line.file)
                  /\ Gets(p, Forgets(Opened(image[p])))
            /\ Goes(p, "cp_to")
    /\ UNCHANGED <<parent, present, echo, started>>

\* With both files open cp copies, else it closes the one that is.
cp_to(p) ==
    LET img == Idle(p) IN
    /\ at[p] = "cp_to"
    /\ \/ /\ FreeFds(img) # {}
          /\ present' = present \cup {image[p].line.to}
          /\ IF img.files # <<>>
             THEN /\ Gets(p, [Opened(img) EXCEPT !.heap = @ + 1])
                  /\ Goes(p, "cp_copies")
             ELSE Gets(p, Opened(img)) /\ Goes(p, "cp_close")
       \/ Gets(p, img) /\ Goes(p, "cp_close") /\ UNCHANGED present
    /\ UNCHANGED <<parent, echo, started>>

cp_copies(p) ==
    /\ at[p] = "cp_copies"
    /\ Gets(p, [image[p] EXCEPT !.heap = @ - 1])
    /\ Goes(p, "cp_close")
    /\ UNCHANGED <<parent, present, echo, started>>

cp_close(p) ==
    /\ at[p] = "cp_close"
    /\ Gets(p, Closed(image[p]))
    /\ Returns(p)
    /\ UNCHANGED <<parent, present, echo, started>>

\* unlink finds the file or not.
do_rm(p) ==
    /\ at[p] = "rm"
    /\ present' = present \ {image[p].line.file} \/ present' = present
    /\ Gets(p, Idle(p))
    /\ Returns(p)
    /\ UNCHANGED <<parent, echo, started>>

-----------------------------------------------------------------------------
(* Commands that are programs *)

\* find_exec_path opens the name as it is typed, then with ".elf" behind it.
find_exec_path(p) ==
    LET f == image[p].line.file
        Found(g) == /\ MayOpen(p, g)
                    /\ Gets(p, [Opened(image[p]) EXCEPT !.line.file = g])
                    /\ Goes(p, "found")
    IN  /\ at[p] = "exec"
        /\ \/ Found(f)
           \/ Found(Elf[f])
           \/ Gets(p, Idle(p)) /\ Returns(p)
        /\ UNCHANGED <<parent, present, echo, started>>

\* Only to see that it is there: the file is closed again.
find_close(p) ==
    /\ at[p] = "found"
    /\ Gets(p, Closed(image[p]))
    /\ Goes(p, "run")
    /\ UNCHANGED <<parent, present, echo, started>>

\* fork fails when the task table is full, and for want of memory.  The line is
\* the child's from here on.
run_exec_file(p) ==
    /\ at[p] = "run"
    /\ \/ forks(p, image[p], "child", Idle(p), "wait")
       \/ Gets(p, Idle(p)) /\ Returns(p) /\ UNCHANGED parent
    /\ UNCHANGED <<present, echo, started>>

wait_child(p) ==
    /\ \E c \in Slots : wait(p, c, "prompt")
    /\ UNCHANGED <<image, present, echo, started>>

\* execve starts the program with the descriptors of the shell, or fails and
\* the child ends.
child(p) ==
    /\ at[p] = "child"
    /\ \/ /\ image[p].line.file \in Programs \cap present
          /\ Gets(p, Fresh(image[p].tty, image[p].fds))
          /\ Goes(p, "program")
          /\ UNCHANGED parent
       \/ exits(p)
    /\ UNCHANGED <<present, echo, started>>

\* The program reads a line from the terminal when it has no argument, prints,
\* and exits.
program(p) ==
    /\ at[p] = "program"
    /\ \/ Goes(p, "program_read") /\ UNCHANGED <<parent, image>>
       \/ exits(p)
    /\ UNCHANGED <<present, echo, started>>

program_ends(p) ==
    /\ at[p] = "program_read"
    /\ exits(p)
    /\ UNCHANGED <<present, echo, started>>

-----------------------------------------------------------------------------

\* What a process does by itself, or with the key or line it is waiting for.
Works(p) ==
    \/ start(p) \/ main(p) \/ do_exit(p)
    \/ do_echo(p) \/ echo_ends(p)
    \/ do_ls(p) \/ ls_entry(p)
    \/ do_less(p) \/ less_open(p) \/ less_quiet(p) \/ less_line(p)
    \/ less_key(p) \/ less_quit(p)
    \/ do_cp(p) \/ cp_to(p) \/ cp_copies(p) \/ cp_close(p)
    \/ do_rm(p)
    \/ find_exec_path(p) \/ find_close(p) \/ run_exec_file(p)
    \/ wait_child(p) \/ wait_release(p) \/ wait_block(p)
    \/ child(p) \/ program(p) \/ program_ends(p)

FirstWorks == first_forks \/ first_waits \/ wait_release(First) \/ wait_block(First)

ShellNext ==
    \/ FirstWorks
    \/ \E p \in Slots : Works(p) \/ read_line(p)

\* A task that is ready runs in the end; who is asked for a line or a key gives
\* one in the end, though not at the prompt.
Fairness ==
    /\ WF_shellVars(FirstWorks)
    /\ \A p \in Slots : WF_shellVars(Works(p))

ShellSpec == ShellInit /\ [][ShellNext]_shellVars /\ Fairness

-----------------------------------------------------------------------------

Places ==
    {"free", "zombie", "start", "asleep", "main", "prompt", "quit", "echo",
     "echo_read", "echo_args", "ls", "ls_entry", "less", "less_open", "less_quiet",
     "less_line", "less_key", "less_quit", "cp", "cp_to", "cp_copies", "cp_close",
     "rm", "exec", "found", "run", "wait", "unlocked", "blocked", "forgotten",
     "child", "program", "program_read"}

ShellTypeOK ==
    /\ at \in [Tasks -> Places \cup {"spawn"}]
    /\ parent \in [Slots -> Tasks \cup {None}]
    /\ \A p \in Tasks :
         /\ image[p].tty \in Terminals \cup {None}
         /\ image[p].fds \subseteq 0 .. MaxFd
         /\ image[p].heap \in 0 .. 1
         /\ image[p].optind \in {"first", "moved"}
         /\ image[p].line \in AnyLine
    /\ present \subseteq Names
    /\ echo \in [Terminals -> BOOLEAN]
    /\ started \in 0 .. Len(Ttys)

Shells(places) == {p \in Slots : at[p] \in places}

\* Nobody exits before its children: a process has none where it may exit, at
\* the prompt and in a program.
NoOrphans ==
    \A p \in Shells({"prompt", "quit", "child", "program", "program_read"}) : Children(p) = {}

\* A shell is at its prompt as it was the first time, whatever the commands
\* before have done and however they have failed: it has its three descriptors
\* and no other, has given every block back, the terminal echoes, getopt
\* starts from the first argument, and no child is left over.
AtRest ==
    /\ ShellTypeOK
    /\ NoOrphans
    /\ \A p \in Shells({"prompt"}) :
         /\ image[p].fds = 0 .. 2
         /\ image[p].heap = 0
         /\ echo[image[p].tty]
         /\ image[p].optind = "first"

\* One process at a time reads from a terminal: a shell stays away from it while
\* its program runs, and a child that cannot execute does not become a second
\* shell.
OneReader ==
    \A t \in Terminals :
        Cardinality({p \in Shells({"prompt", "echo_read", "less_key", "program_read"}) :
                        image[p].tty = t}) <= 1

\* An exit wakes whoever waits for it: nobody is blocked beside a zombie that
\* has exited since.
ExitsWake == \A p \in Tasks : at[p] = "blocked" => Zombies(p) = {}

\* Every command comes to its end: the shell is at its prompt again, or has
\* exited and is reaped.  There is one exception: a wait that blocks beside a
\* child that has exited after the scan lasts for ever, for the shell and for
\* the zombie that nobody reaps.
CommandsEnd ==
    \A p \in Slots :
        at[p] \notin {"free", "asleep", "prompt"}
          ~> \/ at[p] \in {"free", "asleep", "prompt"}
             \/ [](\/ at[p] = "forgotten"
                   \/ at[p] = "zombie" /\ at[parent[p]] = "forgotten")

=============================================================================

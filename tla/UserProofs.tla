----------------------------- MODULE UserProofs -----------------------------
(***************************************************************************)
(* Proofs about what a user meets: the shells and their programs (a        *)
(* command leaves nothing behind, one process reads from a terminal), the  *)
(* consoles (they implement Screens) and the keyboard (every key reaches   *)
(* the terminal it was meant for).                                         *)
(***************************************************************************)
EXTENDS Keyboard, Shell, FiniteSetTheorems, WellFoundedInduction, SequenceTheorems, TLAPS

(***************************************************************************)
(* The shells.  A process is a shell from its fork by the first task until *)
(* it exits: every shell has a terminal of its own, what its image holds   *)
(* follows from the place it is at, and its child has its terminal while   *)
(* it waits.                                                               *)
(***************************************************************************)
ChildPlaces == {"child", "program", "program_read"}
ShellPlaces == Places \ (ChildPlaces \cup {"free", "zombie"})
LessPlaces == {"less_quiet", "less_line", "less_key", "less_quit"}
OpenPlaces == LessPlaces \cup {"cp_to", "cp_copies", "cp_close", "found"}
QuietPlaces == {"less_line", "less_key", "less_quit"}
WaitPlaces == {"wait", "unlocked", "blocked", "forgotten"}
RestPlaces == ShellPlaces \ (WaitPlaces \cup QuietPlaces)

Images == [tty : Terminals \cup {None}, fds : SUBSET (0 .. MaxFd), heap : 0 .. 1,
           optind : {"first", "moved"}, line : AnyLine,
           files : Seq(0 .. MaxFd), left : 0 .. MaxLines]

OpenFiles(img) == {img.files[i] : i \in DOMAIN img.files}

\* Descriptors 0 to 2 are the terminal's and the others the command's.
Tidy(img) == OpenFiles(img) \cap (0 .. 2) = {} /\ img.fds = (0 .. 2) \cup OpenFiles(img)

\* What the image of a shell holds at its place.
Holds(place, img) ==
    /\ place \notin {"start", "asleep", "main"} => Tidy(img)
    /\ place \notin OpenPlaces => img.files = <<>>
    /\ img.heap = IF place \in LessPlaces \cup {"ls_entry", "cp_copies"} THEN 1 ELSE 0
    /\ place \notin LessPlaces \cup {"echo_args", "less_open"} => img.optind = "first"
    /\ place \in {"exec", "cp"} => img.line \in Lines
    /\ place = "exec" => img.line.cmd = "exec"
    /\ place = "cp" => img.line.cmd = "cp"
    /\ place = "cp_to" => img.line.to \in Names
    /\ place = "less_quiet" => img.line.opt = "l"

ShellTyped ==
    /\ at \in [Tasks -> Places \cup {"spawn"}]
    /\ at[First] \in {"spawn"} \cup WaitPlaces /\ \A p \in Slots : at[p] \in Places
    /\ parent \in [Slots -> Tasks \cup {None}]
    /\ image \in [Tasks -> Images]
    /\ present \in SUBSET Names
    /\ echo \in [Terminals -> BOOLEAN]
    /\ started \in 0 .. Len(Ttys)

ShellHolds == \A p \in Slots : at[p] \in ShellPlaces => Holds(at[p], image[p])

ShellOwns ==
    /\ \A p \in Slots : at[p] \in ShellPlaces => \E i \in 1 .. started : image[p].tty = Ttys[i]
    /\ \A p, q \in Slots :
          at[p] \in ShellPlaces /\ at[q] \in ShellPlaces /\ image[p].tty = image[q].tty => p = q

ShellKids ==
    /\ \A c \in Slots : at[c] \in ChildPlaces =>
          parent[c] \in Slots /\ image[c].tty = image[parent[c]].tty
    /\ \A c \in Slots : parent[c] \in Slots =>
          at[parent[c]] \in WaitPlaces /\ at[c] \in ChildPlaces \cup {"zombie"}
    /\ \A c, d \in Slots : parent[c] \in Slots /\ parent[c] = parent[d] => c = d

ShellEcho == \A t \in Terminals : ~echo[t] =>
    \E p \in Slots : at[p] \in QuietPlaces /\ image[p].tty = t /\ image[p].line.opt = "l"

ShellInv == ShellTyped /\ ShellHolds /\ ShellOwns /\ ShellKids /\ ShellEcho /\ ExitsWake

-----------------------------------------------------------------------------
(* Descriptors and lines. *)

LEMMA LeastExists ==
    ASSUME NEW S \in SUBSET Nat, S # {}
    PROVE  \E x \in S : \A y \in S : x <= y
<1>1. \E x \in S : \A y \in S : ~(<<y, x>> \in OpToRel(<, Nat))
    BY NatLessThanWellFounded, WFMin
<1>2. PICK x \in S : \A y \in S : ~(<<y, x>> \in OpToRel(<, Nat))
    BY <1>1
<1>3. \A y \in S : ~(y < x)
    BY <1>2 DEF OpToRel
<1>. QED
    BY <1>3

LEMMA LowestIsIn ==
    ASSUME NEW S \in SUBSET Nat, S # {}
    PROVE  Lowest(S) \in S
    BY LeastExists DEF Lowest

\* A file that opens gets a descriptor nobody uses.
LEMMA OpenedIsTidy ==
    ASSUME NEW img \in Images, Tidy(img), FreeFds(img) # {}
    PROVE  /\ Opened(img) \in Images /\ Tidy(Opened(img))
           /\ Opened(img).tty = img.tty /\ Opened(img).heap = img.heap
           /\ Opened(img).optind = img.optind /\ Opened(img).line = img.line
           /\ Opened(img).files # <<>>
<1>1. FreeFds(img) \in SUBSET Nat
    BY ShellAssumption DEF FreeFds
<1>2. NextFd(img) \in FreeFds(img)
    BY <1>1, LowestIsIn DEF NextFd
<1>3. PICK n : n = NextFd(img)
    OBVIOUS
<1>4. n \in 0 .. MaxFd /\ n \notin img.fds
    BY <1>2, <1>3 DEF FreeFds
<1>5. Opened(img) = [img EXCEPT !.fds = @ \cup {n}, !.files = Append(@, n)]
    BY <1>3 DEF Opened
<1>6. img.files \in Seq(0 .. MaxFd) /\ img.fds \in SUBSET (0 .. MaxFd)
    BY DEF Images
<1>7. Append(img.files, n) \in Seq(0 .. MaxFd) /\ Append(img.files, n) # <<>>
    BY <1>4, <1>6
<1>8. /\ Opened(img) \in Images /\ Opened(img).fds = img.fds \cup {n}
      /\ Opened(img).files = Append(img.files, n)
      /\ Opened(img).tty = img.tty /\ Opened(img).heap = img.heap
      /\ Opened(img).optind = img.optind /\ Opened(img).line = img.line
    <2>1. PICK fds, files : fds = img.fds \cup {n} /\ files = Append(img.files, n)
        OBVIOUS
    <2>2. Opened(img) = [img EXCEPT !.fds = fds, !.files = files]
        BY <1>5, <2>1
    <2>3. fds \in SUBSET (0 .. MaxFd) /\ files \in Seq(0 .. MaxFd)
        BY <1>4, <1>6, <1>7, <2>1
    <2>. QED
        BY <2>1, <2>2, <2>3 DEF Images
<1>9. OpenFiles(Opened(img)) = OpenFiles(img) \cup {n}
    BY <1>4, <1>6, <1>8, SMTT(30) DEF OpenFiles
<1>10. n \notin 0 .. 2
    BY <1>4 DEF Tidy
<1>. QED
    BY <1>7, <1>8, <1>9, <1>10 DEF Tidy

\* Everything a command has opened is closed: the terminal's descriptors are left.
LEMMA ClosedIsTidy ==
    ASSUME NEW img \in Images, Tidy(img)
    PROVE  /\ Closed(img) \in Images /\ Tidy(Closed(img)) /\ Closed(img).files = <<>>
           /\ Closed(img).tty = img.tty /\ Closed(img).heap = img.heap
           /\ Closed(img).optind = img.optind /\ Closed(img).line = img.line
<1>1. /\ Closed(img) \in Images /\ Closed(img).files = <<>>
      /\ Closed(img).fds = img.fds \ OpenFiles(img)
      /\ Closed(img).tty = img.tty /\ Closed(img).heap = img.heap
      /\ Closed(img).optind = img.optind /\ Closed(img).line = img.line
    <2>1. PICK fds, files : fds = img.fds \ OpenFiles(img) /\ files = <<>>
        OBVIOUS
    <2>2. Closed(img) = [img EXCEPT !.fds = fds, !.files = files]
        BY <2>1 DEF Closed, OpenFiles
    <2>3. fds \in SUBSET (0 .. MaxFd) /\ files \in Seq(0 .. MaxFd)
        BY <2>1 DEF Images
    <2>. QED
        BY <2>1, <2>2, <2>3 DEF Images
<1>2. OpenFiles(Closed(img)) = {}
    BY <1>1 DEF OpenFiles
<1>. QED
    BY <1>1, <1>2 DEF Tidy

LEMMA LinesTyped ==
    ASSUME NEW l \in Lines
    PROVE  /\ l \in AnyLine /\ l.cmd \in {"quit", "ls", "echo", "less", "cp", "rm", "exec"}
           /\ l.cmd = "cp" /\ l.opt # "too few" => l.to \in Names
           /\ l.cmd = "exec" => \A g \in Names : /\ [l EXCEPT !.file = g] \in Lines
                                                 /\ [l EXCEPT !.file = g].cmd = "exec"
<1>1. /\ l.cmd \in {"quit", "ls", "echo", "less", "cp", "rm", "exec"}
      /\ l.cmd = "cp" /\ l.opt # "too few" => l.to \in Names
    BY DEF Lines, Line
<1>2. ASSUME l.cmd = "exec", NEW g \in Names
      PROVE  [l EXCEPT !.file = g] \in Lines /\ [l EXCEPT !.file = g].cmd = "exec"
    <2>1. l \in Line({"rm", "exec"}, {""}, Names, {None})
        BY <1>2 DEF Lines, Line
    <2>2. /\ [l EXCEPT !.file = g] \in Line({"rm", "exec"}, {""}, Names, {None})
          /\ [l EXCEPT !.file = g].cmd = "exec"
        BY <1>2, <2>1 DEF Line
    <2>. QED
        BY <2>2 DEF Lines
<1>3. l \in AnyLine
    BY DEF Lines, Line, AnyLine
<1>. QED
    BY <1>1, <1>2, <1>3

LEMMA ForgetsIsTidy ==
    ASSUME NEW img \in Images
    PROVE  /\ Forgets(img) \in Images /\ (Tidy(img) => Tidy(Forgets(img)))
           /\ Forgets(img).tty = img.tty /\ Forgets(img).heap = img.heap
           /\ Forgets(img).optind = img.optind /\ Forgets(img).files = img.files
           /\ Forgets(img).fds = img.fds
           /\ Forgets(img).line.opt = img.line.opt /\ Forgets(img).line.to = img.line.to
<1>1. PICK l : l = [img.line EXCEPT !.file = None]
    OBVIOUS
<1>2. l \in AnyLine /\ l.opt = img.line.opt /\ l.to = img.line.to
    BY <1>1 DEF Images, AnyLine
<1>3. Forgets(img) = [img EXCEPT !.line = l]
    BY <1>1 DEF Forgets
<1>4. /\ Forgets(img) \in Images
      /\ Forgets(img).tty = img.tty /\ Forgets(img).heap = img.heap
      /\ Forgets(img).optind = img.optind /\ Forgets(img).files = img.files
      /\ Forgets(img).fds = img.fds /\ Forgets(img).line = l
    BY <1>2, <1>3 DEF Images
<1>. QED
    BY <1>2, <1>4 DEF Tidy, OpenFiles

LEMMA PlacesOfShells ==
    /\ RestPlaces = {"start", "asleep", "main", "prompt", "quit", "echo", "echo_read", "echo_args",
                     "ls", "ls_entry", "less", "less_open", "less_quiet", "cp", "cp_to",
                     "cp_copies", "cp_close", "rm", "exec", "found", "run"}
    /\ ShellPlaces = RestPlaces \cup WaitPlaces \cup QuietPlaces
    /\ WaitPlaces \cap (RestPlaces \cup QuietPlaces) = {}
    /\ ShellPlaces \cap (ChildPlaces \cup {"free", "zombie"}) = {}
    BY DEF RestPlaces, ShellPlaces, WaitPlaces, Places, ChildPlaces, QuietPlaces

LEMMA TtysTyped == \A i \in 1 .. Len(Ttys) : Ttys[i] \in Terminals
    BY ShellAssumption DEF Terminals

-----------------------------------------------------------------------------
(* A step of one shell. *)

\* A terminal that does not echo is the one of a shell that has asked for it.
LEMMA SilentShell ==
    ASSUME ShellInv, NEW p \in Slots, at[p] \in ShellPlaces, image[p].tty \in Terminals,
           ~echo[image[p].tty]
    PROVE  at[p] \in QuietPlaces /\ image[p].line.opt = "l"
<1>1. PICK q \in Slots : at[q] \in QuietPlaces /\ image[q].tty = image[p].tty /\ image[q].line.opt = "l"
    BY DEF ShellInv, ShellEcho
<1>2. at[q] \in ShellPlaces
    BY <1>1 DEF QuietPlaces, ShellPlaces, Places, ChildPlaces
<1>3. q = p
    BY <1>1, <1>2 DEF ShellInv, ShellOwns
<1>. QED
    BY <1>1, <1>3

\* Nobody blocks and nobody exits in the step.
LEMMA NobodyForgotten ==
    ASSUME ExitsWake, \A q \in Tasks : at'[q] = "blocked" => at[q] = "blocked",
           \A c \in Slots : at'[c] = "zombie" => at[c] = "zombie" /\ parent'[c] = parent[c]
    PROVE  ExitsWake'
    BY DEF ExitsWake, Zombies, Children

LEMMA LocalStep ==
    ASSUME ShellInv, NEW p \in Slots, at[p] \in ShellPlaces \ WaitPlaces,
           NEW place \in ShellPlaces \ WaitPlaces, NEW img \in Images,
           img.tty = image[p].tty, Holds(place, img),
           Goes(p, place), Gets(p, img), parent' = parent, started' = started,
           present' \in SUBSET Names, echo' \in [Terminals -> BOOLEAN],
           \A t \in Terminals : t # img.tty => echo'[t] = echo[t],
           img.tty \in Terminals /\ ~echo'[img.tty] => place \in QuietPlaces /\ img.line.opt = "l"
    PROVE  ShellInv'
<1>1. /\ at'[p] = place /\ \A q \in Slots : q # p => at'[q] = at[q]
      /\ at'[First] = at[First]
      /\ at' \in [Tasks -> Places \cup {"spawn"}]
    BY ShellAssumption DEF ShellInv, ShellTyped, Goes, ShellPlaces, Tasks
<1>2. /\ image'[p] = img /\ \A q \in Slots : q # p => image'[q] = image[q]
      /\ image' \in [Tasks -> Images]
      /\ \A q \in Slots : image'[q].tty = image[q].tty
    BY DEF ShellInv, ShellTyped, Gets, Tasks
<1>3. ShellTyped'
    <2>1. \A q \in Slots : at'[q] \in Places
        BY <1>1 DEF ShellInv, ShellTyped, ShellPlaces
    <2>. QED
        BY <1>1, <1>2, <2>1 DEF ShellInv, ShellTyped
<1>4. ShellHolds'
    BY <1>1, <1>2 DEF ShellInv, ShellHolds
<1>5. ShellOwns'
    <2>1. \A q \in Slots : at'[q] \in ShellPlaces => at[q] \in ShellPlaces
        BY <1>1
    <2>. QED
        BY <1>2, <2>1 DEF ShellInv, ShellOwns
<1>6. ShellKids'
    <2>1. p \notin {parent[c] : c \in Slots} /\ parent[p] \notin Slots /\ at[p] \notin ChildPlaces
        BY DEF ShellInv, ShellKids, ShellPlaces, ChildPlaces
    <2>2. at'[p] \notin ChildPlaces
        BY <1>1 DEF ShellPlaces
    <2>3. \A c \in Slots : at'[c] \in ChildPlaces =>
              parent'[c] \in Slots /\ image'[c].tty = image'[parent'[c]].tty
        BY <1>1, <1>2, <2>1, <2>2 DEF ShellInv, ShellKids
    <2>4. \A c \in Slots : parent'[c] \in Slots =>
              at'[parent'[c]] \in WaitPlaces /\ at'[c] \in ChildPlaces \cup {"zombie"}
        BY <1>1, <1>2, <2>1, <2>2 DEF ShellInv, ShellKids
    <2>. QED
        BY <2>3, <2>4 DEF ShellInv, ShellKids
<1>7. ShellEcho'
    <2>1. ASSUME NEW t \in Terminals, ~echo'[t]
          PROVE  \E q \in Slots : at'[q] \in QuietPlaces /\ image'[q].tty = t /\ image'[q].line.opt = "l"
        <3>1. CASE t = img.tty
            BY <1>1, <1>2, <2>1, <3>1
        <3>2. CASE t # img.tty
            <4>1. ~echo[t]
                BY <2>1, <3>2
            <4>2. PICK q \in Slots : at[q] \in QuietPlaces /\ image[q].tty = t /\ image[q].line.opt = "l"
                BY <4>1 DEF ShellInv, ShellEcho
            <4>3. q # p
                BY <3>2, <4>2
            <4>. QED
                BY <1>1, <1>2, <4>2, <4>3
        <3>. QED
            BY <3>1, <3>2
    <2>. QED
        BY <2>1 DEF ShellEcho
<1>8. ExitsWake'
    <2>1. \A q \in Slots : at'[q] \in {"blocked", "zombie"} => at'[q] = at[q]
        BY <1>1, PlacesOfShells DEF WaitPlaces
    <2>. QED
        BY <1>1, <2>1, NobodyForgotten DEF ShellInv, Tasks
<1>. QED
    BY <1>3, <1>4, <1>5, <1>6, <1>7, <1>8 DEF ShellInv

\* The same for a step outside less -l: the terminal echoes and goes on to.
LEMMA EchoingStep ==
    ASSUME ShellInv, NEW p \in Slots, at[p] \in RestPlaces,
           NEW place \in ShellPlaces \ WaitPlaces, NEW img \in Images,
           img.tty = image[p].tty, Holds(place, img),
           Goes(p, place), Gets(p, img), UNCHANGED <<parent, echo, started>>,
           present' \in SUBSET Names
    PROVE  ShellInv'
<1>1. echo' \in [Terminals -> BOOLEAN] /\ echo' = echo
    BY DEF ShellInv, ShellTyped
<1>2. image[p].tty \in Terminals => echo[image[p].tty]
    BY SilentShell DEF RestPlaces
<1>. QED
    BY <1>1, <1>2, LocalStep DEF RestPlaces

LEMMA ShellFacts ==
    ASSUME ShellInv, NEW p \in Slots
    PROVE  /\ image[p] \in Images /\ image = [image EXCEPT ![p] = image[p]]
           /\ at = [at EXCEPT ![p] = at[p]]
           /\ at[p] \in ShellPlaces => Holds(at[p], image[p])
           /\ present \in SUBSET Names
    BY DEF ShellInv, ShellTyped, ShellHolds, Tasks

\* The image back at the prompt.
LEMMA IdleImage ==
    ASSUME NEW p \in Slots, image[p] \in Images
    PROVE  /\ Idle(p) \in Images /\ Idle(p).tty = image[p].tty /\ Idle(p).fds = image[p].fds
           /\ Idle(p).files = image[p].files /\ Idle(p).heap = image[p].heap
           /\ Idle(p).optind = image[p].optind
           /\ Tidy(image[p]) => Tidy(Idle(p))
<1>1. NoLine \in AnyLine /\ 0 \in 0 .. MaxLines
    BY ShellAssumption DEF NoLine, AnyLine
<1>2. /\ Idle(p) \in Images /\ Idle(p).tty = image[p].tty /\ Idle(p).fds = image[p].fds
      /\ Idle(p).files = image[p].files /\ Idle(p).heap = image[p].heap
      /\ Idle(p).optind = image[p].optind
    <2>1. PICK l, n : l = NoLine /\ n = 0
        OBVIOUS
    <2>2. Idle(p) = [image[p] EXCEPT !.line = l, !.left = n]
        BY <2>1 DEF Idle
    <2>. HIDE DEF NoLine
    <2>. QED
        BY <1>1, <2>1, <2>2 DEF Images
<1>. QED
    BY <1>2 DEF Tidy, OpenFiles

\* The terminal's three descriptors are opened once.
LEMMA StartSteps ==
    ASSUME ShellInv, NEW p \in Slots, start(p) \/ main(p)
    PROVE  ShellInv'
<1>1. CASE start(p)
    <2>1. /\ at[p] = "start"
          /\ Goes(p, "main") \/ Goes(p, "asleep")
          /\ UNCHANGED <<parent, image, present, echo, started>>
        BY <1>1 DEF start
    <2>2. at[p] \in RestPlaces
        BY <2>1, PlacesOfShells
    <2>3. Gets(p, image[p]) /\ image[p] \in Images /\ present' \in SUBSET Names
        BY <2>1, ShellFacts DEF Gets
    <2>4. Holds("start", image[p])
        BY <2>1, <2>2, ShellFacts, PlacesOfShells
    <2>5. Holds("main", image[p]) /\ Holds("asleep", image[p])
        BY <2>4 DEF Holds, OpenPlaces, LessPlaces
    <2>6. {"main", "asleep"} \subseteq ShellPlaces \ WaitPlaces
        BY PlacesOfShells
    <2>. QED
        BY <2>1, <2>2, <2>3, <2>5, <2>6, EchoingStep
<1>2. CASE main(p)
    <2>. DEFINE img == [image[p] EXCEPT !.fds = 0 .. 2]
    <2>1. /\ at[p] = "main" /\ Goes(p, "prompt") /\ Gets(p, img)
          /\ UNCHANGED <<parent, present, echo, started>>
        BY <1>2 DEF main
    <2>2. at[p] \in RestPlaces
        BY <2>1, PlacesOfShells
    <2>3. image[p] \in Images /\ present' \in SUBSET Names /\ Holds("main", image[p])
        BY <2>1, <2>2, ShellFacts, PlacesOfShells
    <2>4. 0 .. 2 \in SUBSET (0 .. MaxFd)
        BY ShellAssumption
    <2>5. PICK fds : fds = 0 .. 2
        OBVIOUS
    <2>6. /\ img \in Images /\ img.tty = image[p].tty /\ img.fds = 0 .. 2
          /\ img.files = image[p].files /\ img.heap = image[p].heap
          /\ img.optind = image[p].optind
        BY <2>3, <2>4, <2>5 DEF Images
    <2>. HIDE DEF img
    <2>7. Holds("prompt", img)
        BY <2>3, <2>6 DEF Holds, OpenPlaces, LessPlaces, Tidy, OpenFiles
    <2>8. "prompt" \in ShellPlaces \ WaitPlaces
        BY PlacesOfShells
    <2>. QED
        BY <2>1, <2>2, <2>3, <2>6, <2>7, <2>8, EchoingStep
<1>. QED
    BY <1>1, <1>2

\* A line that has been typed, and echo.
LEMMA LineSteps ==
    ASSUME ShellInv, NEW p \in Slots, read_line(p) \/ do_echo(p)
    PROVE  ShellInv'
<1>1. CASE read_line(p)
    <2>1. /\ at[p] = "prompt"
          /\ \E l \in Lines : Gets(p, [image[p] EXCEPT !.line = l]) /\ Goes(p, l.cmd)
          /\ UNCHANGED <<parent, present, echo, started>>
        BY <1>1 DEF read_line
    <2>2. at[p] \in RestPlaces /\ at[p] \in ShellPlaces
        BY <2>1, PlacesOfShells
    <2>3. image[p] \in Images /\ Holds("prompt", image[p]) /\ present \in SUBSET Names
        BY <2>1, <2>2, ShellFacts
    <2>4. present' \in SUBSET Names
        BY <2>1, <2>3
    <2>5. ASSUME NEW l \in Lines, Gets(p, [image[p] EXCEPT !.line = l]), Goes(p, l.cmd)
          PROVE  ShellInv'
        <3>. DEFINE img == [image[p] EXCEPT !.line = l]
        <3>1. Goes(p, l.cmd) /\ Gets(p, img)
            BY <2>1, <2>5
        <3>2. /\ img \in Images /\ img.tty = image[p].tty
              /\ img.fds = image[p].fds /\ img.files = image[p].files
              /\ img.heap = image[p].heap /\ img.optind = image[p].optind /\ img.line = l
            BY <2>1, <2>3, <2>5, LinesTyped DEF Images
        <3>. HIDE DEF img
        <3>3. Holds(l.cmd, img)
            <4>1. /\ Tidy(img) /\ img.files = <<>> /\ img.heap = 0 /\ img.optind = "first"
                BY <2>3, <3>2 DEF Holds, OpenPlaces, LessPlaces, Tidy, OpenFiles
            <4>2. l.cmd \in {"quit", "ls", "echo", "less", "cp", "rm", "exec"}
                BY <2>5, LinesTyped
            <4>. QED
                BY <2>5, <3>2, <4>1, <4>2 DEF Holds, OpenPlaces, LessPlaces
        <3>4. l.cmd \in ShellPlaces \ WaitPlaces
            BY <2>5, LinesTyped, PlacesOfShells
        <3>. QED
            BY <2>1, <2>2, <2>4, <3>1, <3>2, <3>3, <3>4, EchoingStep
    <2>. QED
        BY <2>1, <2>5
<1>2. CASE do_echo(p)
    <2>1. /\ at[p] = "echo"
          /\ \/ Goes(p, "echo_read") /\ UNCHANGED image
             \/ Gets(p, [image[p] EXCEPT !.optind = "moved"]) /\ Goes(p, "echo_args")
          /\ UNCHANGED <<parent, present, echo, started>>
        BY <1>2 DEF do_echo
    <2>2. at[p] \in RestPlaces /\ at[p] \in ShellPlaces
        BY <2>1, PlacesOfShells
    <2>3. image[p] \in Images /\ Holds("echo", image[p]) /\ present \in SUBSET Names
        BY <2>1, <2>2, ShellFacts
    <2>4. present' \in SUBSET Names
        BY <2>1, <2>3
    <2>5. ASSUME Goes(p, "echo_read"), UNCHANGED image
          PROVE  ShellInv'
        <3>. DEFINE img == image[p]
        <3>1. Goes(p, "echo_read") /\ Gets(p, img)
            BY <2>1, <2>5, ShellFacts DEF Gets
        <3>2. /\ img \in Images /\ img.tty = image[p].tty
              /\ img.fds = image[p].fds /\ img.files = image[p].files
              /\ img.heap = image[p].heap /\ img.optind = image[p].optind /\ img.line = image[p].line
            BY <2>1, <2>3, <2>5
        <3>. HIDE DEF img
        <3>3. Holds("echo_read", img)
            BY <2>1, <2>3, <2>5, <3>2 DEF Holds, OpenPlaces, LessPlaces, Tidy, OpenFiles
        <3>4. "echo_read" \in ShellPlaces \ WaitPlaces
            BY PlacesOfShells
        <3>. QED
            BY <2>1, <2>2, <2>4, <3>1, <3>2, <3>3, <3>4, EchoingStep
    <2>6. ASSUME Gets(p, [image[p] EXCEPT !.optind = "moved"]), Goes(p, "echo_args")
          PROVE  ShellInv'
        <3>. DEFINE img == [image[p] EXCEPT !.optind = "moved"]
        <3>1. Goes(p, "echo_args") /\ Gets(p, img)
            BY <2>1, <2>6
        <3>2. /\ img \in Images /\ img.tty = image[p].tty
              /\ img.fds = image[p].fds /\ img.files = image[p].files
              /\ img.heap = image[p].heap /\ img.optind = "moved"
            BY <2>1, <2>3, <2>6 DEF Images
        <3>. HIDE DEF img
        <3>3. Holds("echo_args", img)
            BY <2>1, <2>3, <2>6, <3>2 DEF Holds, OpenPlaces, LessPlaces, Tidy, OpenFiles
        <3>4. "echo_args" \in ShellPlaces \ WaitPlaces
            BY PlacesOfShells
        <3>. QED
            BY <2>1, <2>2, <2>4, <3>1, <3>2, <3>3, <3>4, EchoingStep
    <2>. QED
        BY <2>1, <2>5, <2>6
<1>. QED
    BY <1>1, <1>2

\* ls gives back the block it takes.
LEMMA ListSteps ==
    ASSUME ShellInv, NEW p \in Slots, do_ls(p) \/ ls_entry(p)
    PROVE  ShellInv'
<1>1. CASE do_ls(p)
    <2>1. /\ at[p] = "ls"
          /\ \/ \E n \in 0 .. MaxLines :
                   Gets(p, [image[p] EXCEPT !.heap = @ + 1, !.left = n]) /\ Goes(p, "ls_entry")
             \/ Gets(p, Idle(p)) /\ Returns(p)
          /\ UNCHANGED <<parent, present, echo, started>>
        BY <1>1 DEF do_ls
    <2>2. at[p] \in RestPlaces /\ at[p] \in ShellPlaces
        BY <2>1, PlacesOfShells
    <2>3. image[p] \in Images /\ Holds("ls", image[p]) /\ present \in SUBSET Names
        BY <2>1, <2>2, ShellFacts
    <2>4. present' \in SUBSET Names
        BY <2>1, <2>3
    <2>5. ASSUME NEW n \in 0 .. MaxLines, Goes(p, "ls_entry"),
                   Gets(p, [image[p] EXCEPT !.heap = @ + 1, !.left = n])
          PROVE  ShellInv'
        <3>. DEFINE img == [image[p] EXCEPT !.heap = @ + 1, !.left = n]
        <3>1. Goes(p, "ls_entry") /\ Gets(p, img)
            BY <2>1, <2>5
        <3>2. /\ img \in Images /\ img.tty = image[p].tty
              /\ img.fds = image[p].fds /\ img.files = image[p].files
              /\ img.optind = image[p].optind /\ img.heap = 1
            <4>1. image[p].heap = 0
                BY <2>3 DEF Holds, LessPlaces
            <4>2. PICK h \in 0 .. 1 : h = 1
                OBVIOUS
            <4>3. img = [image[p] EXCEPT !.heap = h, !.left = n]
                BY <4>1, <4>2
            <4>. HIDE DEF img
            <4>. QED
                BY <2>3, <2>5, <4>2, <4>3 DEF Images
        <3>. HIDE DEF img
        <3>3. Holds("ls_entry", img)
            BY <2>1, <2>3, <2>5, <3>2 DEF Holds, OpenPlaces, LessPlaces, Tidy, OpenFiles
        <3>4. "ls_entry" \in ShellPlaces \ WaitPlaces
            BY PlacesOfShells
        <3>. QED
            BY <2>1, <2>2, <2>4, <3>1, <3>2, <3>3, <3>4, EchoingStep
    <2>6. ASSUME Gets(p, Idle(p)), Returns(p)
          PROVE  ShellInv'
        <3>. DEFINE img == Idle(p)
        <3>1. Goes(p, "prompt") /\ Gets(p, img)
            BY <2>1, <2>6 DEF Returns
        <3>2. /\ img \in Images /\ img.tty = image[p].tty
              /\ img.fds = image[p].fds /\ img.files = image[p].files
              /\ img.heap = image[p].heap /\ img.optind = image[p].optind /\ (Tidy(image[p]) => Tidy(img))
            BY <2>1, <2>3, <2>6, IdleImage
        <3>. HIDE DEF img
        <3>3. Holds("prompt", img)
            BY <2>1, <2>3, <2>6, <3>2 DEF Holds, OpenPlaces, LessPlaces
        <3>4. "prompt" \in ShellPlaces \ WaitPlaces
            BY PlacesOfShells
        <3>. QED
            BY <2>1, <2>2, <2>4, <3>1, <3>2, <3>3, <3>4, EchoingStep
    <2>. QED
        BY <2>1, <2>5, <2>6
<1>2. CASE ls_entry(p)
    <2>1. /\ at[p] = "ls_entry"
          /\ \/ image[p].left > 0 /\ Gets(p, [image[p] EXCEPT !.left = @ - 1]) /\ UNCHANGED at
             \/ Gets(p, [Idle(p) EXCEPT !.heap = @ - 1]) /\ Returns(p)
          /\ UNCHANGED <<parent, present, echo, started>>
        BY <1>2 DEF ls_entry
    <2>2. at[p] \in RestPlaces /\ at[p] \in ShellPlaces
        BY <2>1, PlacesOfShells
    <2>3. image[p] \in Images /\ Holds("ls_entry", image[p]) /\ present \in SUBSET Names
        BY <2>1, <2>2, ShellFacts
    <2>4. present' \in SUBSET Names
        BY <2>1, <2>3
    <2>5. ASSUME image[p].left > 0, Gets(p, [image[p] EXCEPT !.left = @ - 1]), UNCHANGED at
          PROVE  ShellInv'
        <3>. DEFINE img == [image[p] EXCEPT !.left = @ - 1]
        <3>1. Goes(p, "ls_entry") /\ Gets(p, img)
            BY <2>1, <2>5, ShellFacts DEF Goes
        <3>2. /\ img \in Images /\ img.tty = image[p].tty
              /\ img.fds = image[p].fds /\ img.files = image[p].files
              /\ img.heap = image[p].heap /\ img.optind = image[p].optind
            <4>1. PICK n \in 0 .. MaxLines : n = image[p].left - 1
                BY <2>3, <2>5, ShellAssumption DEF Images
            <4>2. img = [image[p] EXCEPT !.left = n]
                BY <4>1
            <4>. QED
                BY <2>3, <4>2 DEF Images
        <3>. HIDE DEF img
        <3>3. Holds("ls_entry", img)
            BY <2>1, <2>3, <2>5, <3>2 DEF Holds, OpenPlaces, LessPlaces, Tidy, OpenFiles
        <3>4. "ls_entry" \in ShellPlaces \ WaitPlaces
            BY PlacesOfShells
        <3>. QED
            BY <2>1, <2>2, <2>4, <3>1, <3>2, <3>3, <3>4, EchoingStep
    <2>6. ASSUME Gets(p, [Idle(p) EXCEPT !.heap = @ - 1]), Returns(p)
          PROVE  ShellInv'
        <3>. DEFINE img == [Idle(p) EXCEPT !.heap = @ - 1]
        <3>1. Goes(p, "prompt") /\ Gets(p, img)
            BY <2>1, <2>6 DEF Returns
        <3>2. /\ img \in Images /\ img.tty = image[p].tty
              /\ img.fds = image[p].fds /\ img.files = image[p].files
              /\ img.optind = image[p].optind /\ img.heap = 0
            BY <2>1, <2>3, <2>6, IdleImage DEF Images, Holds, LessPlaces
        <3>. HIDE DEF img
        <3>3. Holds("prompt", img)
            BY <2>1, <2>3, <2>6, <3>2 DEF Holds, OpenPlaces, LessPlaces, Tidy, OpenFiles
        <3>4. "prompt" \in ShellPlaces \ WaitPlaces
            BY PlacesOfShells
        <3>. QED
            BY <2>1, <2>2, <2>4, <3>1, <3>2, <3>3, <3>4, EchoingStep
    <2>. QED
        BY <2>1, <2>5, <2>6
<1>. QED
    BY <1>1, <1>2

\* less until it shows the file: a wrong option and a file that does not open end it.
LEMMA LessStartSteps ==
    ASSUME ShellInv, NEW p \in Slots, do_less(p) \/ less_open(p)
    PROVE  ShellInv'
<1>1. CASE do_less(p)
    <2>1. /\ at[p] = "less"
          /\ \/ Gets(p, [Idle(p) EXCEPT !.optind = "first"]) /\ Returns(p)
             \/ Gets(p, [image[p] EXCEPT !.optind = "moved"]) /\ Goes(p, "less_open")
          /\ UNCHANGED <<parent, present, echo, started>>
        BY <1>1 DEF do_less
    <2>2. at[p] \in RestPlaces /\ at[p] \in ShellPlaces
        BY <2>1, PlacesOfShells
    <2>3. image[p] \in Images /\ Holds("less", image[p]) /\ present \in SUBSET Names
        BY <2>1, <2>2, ShellFacts
    <2>4. present' \in SUBSET Names
        BY <2>1, <2>3
    <2>5. ASSUME Gets(p, [Idle(p) EXCEPT !.optind = "first"]), Returns(p)
          PROVE  ShellInv'
        <3>. DEFINE img == [Idle(p) EXCEPT !.optind = "first"]
        <3>1. Goes(p, "prompt") /\ Gets(p, img)
            BY <2>1, <2>5 DEF Returns
        <3>2. /\ img \in Images /\ img.tty = image[p].tty
              /\ img.fds = image[p].fds /\ img.files = image[p].files
              /\ img.heap = image[p].heap /\ img.optind = "first"
            BY <2>1, <2>3, <2>5, IdleImage DEF Images
        <3>. HIDE DEF img
        <3>3. Holds("prompt", img)
            BY <2>1, <2>3, <2>5, <3>2 DEF Holds, OpenPlaces, LessPlaces, Tidy, OpenFiles
        <3>4. "prompt" \in ShellPlaces \ WaitPlaces
            BY PlacesOfShells
        <3>. QED
            BY <2>1, <2>2, <2>4, <3>1, <3>2, <3>3, <3>4, EchoingStep
    <2>6. ASSUME Gets(p, [image[p] EXCEPT !.optind = "moved"]), Goes(p, "less_open")
          PROVE  ShellInv'
        <3>. DEFINE img == [image[p] EXCEPT !.optind = "moved"]
        <3>1. Goes(p, "less_open") /\ Gets(p, img)
            BY <2>1, <2>6
        <3>2. /\ img \in Images /\ img.tty = image[p].tty
              /\ img.fds = image[p].fds /\ img.files = image[p].files
              /\ img.heap = image[p].heap
            BY <2>1, <2>3, <2>6 DEF Images
        <3>. HIDE DEF img
        <3>3. Holds("less_open", img)
            BY <2>1, <2>3, <2>6, <3>2 DEF Holds, OpenPlaces, LessPlaces, Tidy, OpenFiles
        <3>4. "less_open" \in ShellPlaces \ WaitPlaces
            BY PlacesOfShells
        <3>. QED
            BY <2>1, <2>2, <2>4, <3>1, <3>2, <3>3, <3>4, EchoingStep
    <2>. QED
        BY <2>1, <2>5, <2>6
<1>2. CASE less_open(p)
    <2>1. /\ at[p] = "less_open"
          /\ \/ \E n \in 0 .. MaxLines, place \in {"less_quiet", "less_line"} :
                   /\ Goes(p, place) /\ FreeFds(image[p]) # {}
                   /\ place = "less_quiet" => image[p].line.opt = "l"
                   /\ Gets(p, [Forgets(Opened(image[p])) EXCEPT !.heap = @ + 1, !.left = n])
             \/ Gets(p, [Idle(p) EXCEPT !.optind = "first"]) /\ Returns(p)
          /\ UNCHANGED <<parent, present, echo, started>>
        BY <1>2 DEF less_open, MayOpen
    <2>2. at[p] \in RestPlaces /\ at[p] \in ShellPlaces
        BY <2>1, PlacesOfShells
    <2>3. image[p] \in Images /\ Holds("less_open", image[p]) /\ present \in SUBSET Names
        BY <2>1, <2>2, ShellFacts
    <2>4. present' \in SUBSET Names
        BY <2>1, <2>3
    <2>5. ASSUME NEW n \in 0 .. MaxLines, NEW place \in {"less_quiet", "less_line"}, Goes(p, place),
                 FreeFds(image[p]) # {}, Gets(p, [Forgets(Opened(image[p])) EXCEPT !.heap = @ + 1, !.left = n]),
                 place = "less_quiet" => image[p].line.opt = "l"
          PROVE  ShellInv'
        <3>. DEFINE img == [Forgets(Opened(image[p])) EXCEPT !.heap = @ + 1, !.left = n]
        <3>1. PICK opened : opened = Forgets(Opened(image[p]))
            OBVIOUS
        <3>6. /\ opened \in Images /\ Tidy(opened) /\ opened.tty = image[p].tty
              /\ opened.heap = 0 /\ opened.line.opt = image[p].line.opt
            <4>1. /\ Opened(image[p]) \in Images /\ Tidy(Opened(image[p]))
                  /\ Opened(image[p]).tty = image[p].tty /\ Opened(image[p]).heap = 0
                  /\ Opened(image[p]).line = image[p].line
                BY <2>3, <2>5, OpenedIsTidy DEF Holds, LessPlaces
            <4>2. PICK o \in Images : o = Opened(image[p])
                BY <4>1
            <4>. QED
                BY <3>1, <4>1, <4>2, ForgetsIsTidy
        <3>2. /\ img \in Images /\ img.tty = image[p].tty
              /\ img.fds = opened.fds /\ img.files = opened.files
              /\ img.heap = 1 /\ img.line.opt = image[p].line.opt
            <4>1. PICK h \in 0 .. 1 : h = 1
                OBVIOUS
            <4>2. img = [opened EXCEPT !.heap = h, !.left = n]
                BY <3>1, <3>6, <4>1
            <4>. HIDE DEF img
            <4>. QED
                BY <2>5, <3>6, <4>1, <4>2 DEF Images
        <3>. HIDE DEF img
        <3>3. Holds(place, img)
            BY <2>5, <3>6, <3>2, ZenonT(40) DEF Holds, OpenPlaces, LessPlaces, Tidy, OpenFiles
        <3>4. place \in ShellPlaces \ WaitPlaces
            BY PlacesOfShells DEF QuietPlaces
        <3>5. Gets(p, img)
            BY <2>5 DEF img
        <3>. QED
            BY <2>1, <2>2, <2>4, <2>5, <3>2, <3>3, <3>4, <3>5, EchoingStep
    <2>6. ASSUME Gets(p, [Idle(p) EXCEPT !.optind = "first"]), Returns(p)
          PROVE  ShellInv'
        <3>. DEFINE img == [Idle(p) EXCEPT !.optind = "first"]
        <3>1. Goes(p, "prompt") /\ Gets(p, img)
            BY <2>1, <2>6 DEF Returns
        <3>2. /\ img \in Images /\ img.tty = image[p].tty
              /\ img.fds = image[p].fds /\ img.files = image[p].files
              /\ img.heap = image[p].heap /\ img.optind = "first"
            BY <2>1, <2>3, <2>6, IdleImage DEF Images
        <3>. HIDE DEF img
        <3>3. Holds("prompt", img)
            BY <2>1, <2>3, <2>6, <3>2 DEF Holds, OpenPlaces, LessPlaces, Tidy, OpenFiles
        <3>4. "prompt" \in ShellPlaces \ WaitPlaces
            BY PlacesOfShells
        <3>. QED
            BY <2>1, <2>2, <2>4, <3>1, <3>2, <3>3, <3>4, EchoingStep
    <2>. QED
        BY <2>1, <2>5, <2>6
<1>. QED
    BY <1>1, <1>2

\* cp, which closes what it has opened whichever of the two opens fails, and rm.
LEMMA CopySteps ==
    ASSUME ShellInv, NEW p \in Slots, do_cp(p) \/ cp_to(p) \/ cp_copies(p) \/ cp_close(p) \/ do_rm(p)
    PROVE  ShellInv'
<1>1. CASE do_cp(p)
    <2>1. /\ at[p] = "cp"
          /\ \/ Gets(p, Idle(p)) /\ Returns(p)
             \/ /\ image[p].line.opt # "too few" /\ Goes(p, "cp_to")
                /\ \/ Gets(p, Forgets(image[p]))
                   \/ FreeFds(image[p]) # {} /\ Gets(p, Forgets(Opened(image[p])))
          /\ UNCHANGED <<parent, present, echo, started>>
        BY <1>1 DEF do_cp, MayOpen
    <2>2. at[p] \in RestPlaces /\ at[p] \in ShellPlaces
        BY <2>1, PlacesOfShells
    <2>3. image[p] \in Images /\ Holds("cp", image[p]) /\ present \in SUBSET Names
        BY <2>1, <2>2, ShellFacts
    <2>4. present' \in SUBSET Names
        BY <2>1, <2>3
    <2>8. image[p].line.opt # "too few" => image[p].line.to \in Names
        BY <2>3, LinesTyped DEF Holds
    <2>5. ASSUME Gets(p, Idle(p)), Returns(p)
          PROVE  ShellInv'
        <3>. DEFINE img == Idle(p)
        <3>1. Goes(p, "prompt") /\ Gets(p, img)
            BY <2>1, <2>5 DEF Returns
        <3>2. /\ img \in Images /\ img.tty = image[p].tty
              /\ img.fds = image[p].fds /\ img.files = image[p].files
              /\ img.heap = image[p].heap /\ img.optind = image[p].optind /\ (Tidy(image[p]) => Tidy(img))
            BY <2>1, <2>3, <2>5, IdleImage
        <3>. HIDE DEF img
        <3>3. Holds("prompt", img)
            BY <2>1, <2>3, <2>5, <3>2 DEF Holds, OpenPlaces, LessPlaces
        <3>4. "prompt" \in ShellPlaces \ WaitPlaces
            BY PlacesOfShells
        <3>. QED
            BY <2>1, <2>2, <2>4, <3>1, <3>2, <3>3, <3>4, EchoingStep
    <2>6. ASSUME image[p].line.opt # "too few", Goes(p, "cp_to"), Gets(p, Forgets(image[p]))
          PROVE  ShellInv'
        <3>. DEFINE img == Forgets(image[p])
        <3>1. Goes(p, "cp_to") /\ Gets(p, img)
            BY <2>1, <2>6
        <3>2. /\ img \in Images /\ img.tty = image[p].tty /\ img.line.to \in Names
              /\ Tidy(img) /\ img.heap = image[p].heap /\ img.optind = image[p].optind
            <4>1. Tidy(image[p])
                BY <2>3 DEF Holds
            <4>2. PICK o \in Images : o = image[p]
                BY <2>3
            <4>. QED
                BY <2>6, <2>8, <4>1, <4>2, ForgetsIsTidy
        <3>. HIDE DEF img
        <3>3. Holds("cp_to", img)
            BY <2>1, <2>3, <2>6, <3>2 DEF Holds, OpenPlaces, LessPlaces
        <3>4. "cp_to" \in ShellPlaces \ WaitPlaces
            BY PlacesOfShells
        <3>. QED
            BY <2>1, <2>2, <2>4, <3>1, <3>2, <3>3, <3>4, EchoingStep
    <2>7. ASSUME image[p].line.opt # "too few", Goes(p, "cp_to"),
                   FreeFds(image[p]) # {}, Gets(p, Forgets(Opened(image[p])))
          PROVE  ShellInv'
        <3>. DEFINE img == Forgets(Opened(image[p]))
        <3>1. Goes(p, "cp_to") /\ Gets(p, img)
            BY <2>1, <2>7
        <3>2. /\ img \in Images /\ img.tty = image[p].tty /\ img.line.to \in Names
              /\ Tidy(img) /\ img.heap = image[p].heap /\ img.optind = image[p].optind
            <4>1. /\ Opened(image[p]) \in Images /\ Tidy(Opened(image[p]))
                  /\ Opened(image[p]).tty = image[p].tty /\ Opened(image[p]).heap = image[p].heap
                  /\ Opened(image[p]).optind = image[p].optind
                  /\ Opened(image[p]).line = image[p].line
                BY <2>3, <2>7, OpenedIsTidy DEF Holds
            <4>2. PICK o \in Images : o = Opened(image[p])
                BY <4>1
            <4>. QED
                BY <2>7, <2>8, <4>1, <4>2, ForgetsIsTidy
        <3>. HIDE DEF img
        <3>3. Holds("cp_to", img)
            BY <2>1, <2>3, <2>7, <3>2 DEF Holds, OpenPlaces, LessPlaces, Tidy, OpenFiles
        <3>4. "cp_to" \in ShellPlaces \ WaitPlaces
            BY PlacesOfShells
        <3>. QED
            BY <2>1, <2>2, <2>4, <3>1, <3>2, <3>3, <3>4, EchoingStep
    <2>. QED
        BY <2>1, <2>5, <2>6, <2>7
<1>2. CASE cp_to(p)
    <2>1. /\ at[p] = "cp_to"
          /\ present' = present \cup {image[p].line.to} \/ present' = present
          /\ \/ /\ FreeFds(Idle(p)) # {}
                /\ \/ Gets(p, [Opened(Idle(p)) EXCEPT !.heap = @ + 1]) /\ Goes(p, "cp_copies")
                   \/ Gets(p, Opened(Idle(p))) /\ Goes(p, "cp_close")
             \/ Goes(p, "cp_close") /\ Gets(p, Idle(p))
          /\ UNCHANGED <<parent, echo, started>>
        BY <1>2 DEF cp_to
    <2>2. at[p] \in RestPlaces /\ at[p] \in ShellPlaces
        BY <2>1, PlacesOfShells
    <2>3. image[p] \in Images /\ Holds("cp_to", image[p]) /\ present \in SUBSET Names
        BY <2>1, <2>2, ShellFacts
    <2>4. present' \in SUBSET Names
        <3>1. image[p].line.to \in Names
            BY <2>3 DEF Holds
        <3>. QED
            BY <2>1, <2>3, <3>1
    <2>8. /\ Idle(p) \in Images /\ Tidy(Idle(p)) /\ Idle(p).tty = image[p].tty
          /\ Idle(p).heap = 0 /\ Idle(p).optind = "first"
        BY <2>3, IdleImage DEF Holds, LessPlaces
    <2>5. ASSUME FreeFds(Idle(p)) # {}, Goes(p, "cp_copies"),
                   Gets(p, [Opened(Idle(p)) EXCEPT !.heap = @ + 1])
          PROVE  ShellInv'
        <3>. DEFINE img == [Opened(Idle(p)) EXCEPT !.heap = @ + 1]
        <3>1. Goes(p, "cp_copies") /\ Gets(p, img)
            BY <2>1, <2>5
        <3>2. /\ img \in Images /\ img.tty = image[p].tty
              /\ Tidy(img) /\ img.heap = 1
              /\ img.optind = "first"
            <4>1. /\ Opened(Idle(p)) \in Images /\ Tidy(Opened(Idle(p)))
                  /\ Opened(Idle(p)).tty = image[p].tty /\ Opened(Idle(p)).heap = 0
                  /\ Opened(Idle(p)).optind = "first"
                BY <2>5, <2>8, OpenedIsTidy
            <4>2. img = [Opened(Idle(p)) EXCEPT !.heap = 1]
                BY <4>1
            <4>3. img \in Images /\ img.fds = Opened(Idle(p)).fds /\ img.files = Opened(Idle(p)).files
                BY <4>1, <4>2 DEF Images
            <4>. QED
                BY <4>1, <4>2, <4>3 DEF Tidy, OpenFiles
        <3>. HIDE DEF img
        <3>3. Holds("cp_copies", img)
            BY <2>1, <2>3, <2>5, <3>2 DEF Holds, OpenPlaces, LessPlaces
        <3>4. "cp_copies" \in ShellPlaces \ WaitPlaces
            BY PlacesOfShells
        <3>. QED
            BY <2>1, <2>2, <2>4, <3>1, <3>2, <3>3, <3>4, EchoingStep
    <2>6. ASSUME FreeFds(Idle(p)) # {}, Gets(p, Opened(Idle(p))), Goes(p, "cp_close")
          PROVE  ShellInv'
        <3>. DEFINE img == Opened(Idle(p))
        <3>1. Goes(p, "cp_close") /\ Gets(p, img)
            BY <2>1, <2>6
        <3>2. /\ img \in Images /\ img.tty = image[p].tty
              /\ Tidy(img) /\ img.heap = 0
              /\ img.optind = "first"
            BY <2>6, <2>8, OpenedIsTidy
        <3>. HIDE DEF img
        <3>3. Holds("cp_close", img)
            BY <2>1, <2>3, <2>6, <3>2 DEF Holds, OpenPlaces, LessPlaces, Tidy, OpenFiles
        <3>4. "cp_close" \in ShellPlaces \ WaitPlaces
            BY PlacesOfShells
        <3>. QED
            BY <2>1, <2>2, <2>4, <3>1, <3>2, <3>3, <3>4, EchoingStep
    <2>7. ASSUME Goes(p, "cp_close"), Gets(p, Idle(p))
          PROVE  ShellInv'
        <3>. DEFINE img == Idle(p)
        <3>1. Holds("cp_close", img)
            BY <2>8 DEF Holds, OpenPlaces, LessPlaces
        <3>2. "cp_close" \in ShellPlaces \ WaitPlaces
            BY PlacesOfShells
        <3>. QED
            BY <2>1, <2>2, <2>4, <2>7, <2>8, <3>1, <3>2, EchoingStep
    <2>. QED
        BY <2>1, <2>5, <2>6, <2>7
<1>3. CASE cp_copies(p)
    <2>1. /\ at[p] = "cp_copies"
          /\ Gets(p, [image[p] EXCEPT !.heap = @ - 1]) /\ Goes(p, "cp_close")
          /\ UNCHANGED <<parent, present, echo, started>>
        BY <1>3 DEF cp_copies
    <2>2. at[p] \in RestPlaces /\ at[p] \in ShellPlaces
        BY <2>1, PlacesOfShells
    <2>3. image[p] \in Images /\ Holds("cp_copies", image[p]) /\ present \in SUBSET Names
        BY <2>1, <2>2, ShellFacts
    <2>4. present' \in SUBSET Names
        BY <2>1, <2>3
    <2>5. ASSUME Gets(p, [image[p] EXCEPT !.heap = @ - 1]), Goes(p, "cp_close")
          PROVE  ShellInv'
        <3>. DEFINE img == [image[p] EXCEPT !.heap = @ - 1]
        <3>1. Goes(p, "cp_close") /\ Gets(p, img)
            BY <2>1, <2>5
        <3>2. /\ img \in Images /\ img.tty = image[p].tty
              /\ img.fds = image[p].fds /\ img.files = image[p].files
              /\ img.optind = image[p].optind /\ img.heap = 0
            BY <2>1, <2>3, <2>5 DEF Images, Holds, LessPlaces
        <3>. HIDE DEF img
        <3>3. Holds("cp_close", img)
            BY <2>1, <2>3, <2>5, <3>2 DEF Holds, OpenPlaces, LessPlaces, Tidy, OpenFiles
        <3>4. "cp_close" \in ShellPlaces \ WaitPlaces
            BY PlacesOfShells
        <3>. QED
            BY <2>1, <2>2, <2>4, <3>1, <3>2, <3>3, <3>4, EchoingStep
    <2>. QED
        BY <2>1, <2>5
<1>4. CASE cp_close(p)
    <2>1. /\ at[p] = "cp_close"
          /\ Gets(p, Closed(image[p])) /\ Returns(p)
          /\ UNCHANGED <<parent, present, echo, started>>
        BY <1>4 DEF cp_close
    <2>2. at[p] \in RestPlaces /\ at[p] \in ShellPlaces
        BY <2>1, PlacesOfShells
    <2>3. image[p] \in Images /\ Holds("cp_close", image[p]) /\ present \in SUBSET Names
        BY <2>1, <2>2, ShellFacts
    <2>4. present' \in SUBSET Names
        BY <2>1, <2>3
    <2>5. ASSUME Gets(p, Closed(image[p])), Returns(p)
          PROVE  ShellInv'
        <3>. DEFINE img == Closed(image[p])
        <3>1. Goes(p, "prompt") /\ Gets(p, img)
            BY <2>1, <2>5 DEF Returns
        <3>2. /\ img \in Images /\ img.tty = image[p].tty
              /\ Tidy(img) /\ img.files = <<>>
              /\ img.heap = image[p].heap /\ img.optind = image[p].optind
            BY <2>1, <2>3, <2>5, ClosedIsTidy DEF Holds
        <3>. HIDE DEF img
        <3>3. Holds("prompt", img)
            BY <2>1, <2>3, <2>5, <3>2 DEF Holds, OpenPlaces, LessPlaces
        <3>4. "prompt" \in ShellPlaces \ WaitPlaces
            BY PlacesOfShells
        <3>. QED
            BY <2>1, <2>2, <2>4, <3>1, <3>2, <3>3, <3>4, EchoingStep
    <2>. QED
        BY <2>1, <2>5
<1>5. CASE do_rm(p)
    <2>1. /\ at[p] = "rm"
          /\ present' = present \ {image[p].line.file} \/ present' = present
          /\ Gets(p, Idle(p)) /\ Returns(p)
          /\ UNCHANGED <<parent, echo, started>>
        BY <1>5 DEF do_rm
    <2>2. at[p] \in RestPlaces /\ at[p] \in ShellPlaces
        BY <2>1, PlacesOfShells
    <2>3. image[p] \in Images /\ Holds("rm", image[p]) /\ present \in SUBSET Names
        BY <2>1, <2>2, ShellFacts
    <2>4. present' \in SUBSET Names
        BY <2>1, <2>3
    <2>5. ASSUME Gets(p, Idle(p)), Returns(p)
          PROVE  ShellInv'
        <3>. DEFINE img == Idle(p)
        <3>1. Goes(p, "prompt") /\ Gets(p, img)
            BY <2>1, <2>5 DEF Returns
        <3>2. /\ img \in Images /\ img.tty = image[p].tty
              /\ img.fds = image[p].fds /\ img.files = image[p].files
              /\ img.heap = image[p].heap /\ img.optind = image[p].optind /\ (Tidy(image[p]) => Tidy(img))
            BY <2>1, <2>3, <2>5, IdleImage
        <3>. HIDE DEF img
        <3>3. Holds("prompt", img)
            BY <2>1, <2>3, <2>5, <3>2 DEF Holds, OpenPlaces, LessPlaces
        <3>4. "prompt" \in ShellPlaces \ WaitPlaces
            BY PlacesOfShells
        <3>. QED
            BY <2>1, <2>2, <2>4, <3>1, <3>2, <3>3, <3>4, EchoingStep
    <2>. QED
        BY <2>1, <2>5
<1>. QED
    BY <1>1, <1>2, <1>3, <1>4, <1>5

\* The search for a program, which leaves nothing open.
LEMMA FindSteps ==
    ASSUME ShellInv, NEW p \in Slots, find_exec_path(p) \/ find_close(p)
    PROVE  ShellInv'
<1>1. CASE find_exec_path(p)
    <2>1. /\ at[p] = "exec"
          /\ \/ \E g \in Names : /\ FreeFds(image[p]) # {} /\ Goes(p, "found")
                                /\ Gets(p, [Opened(image[p]) EXCEPT !.line.file = g])
             \/ Gets(p, Idle(p)) /\ Returns(p)
          /\ UNCHANGED <<parent, present, echo, started>>
        <3>1. present \in SUBSET Names
            BY ShellFacts
        <3>. QED
            BY <1>1, <3>1 DEF find_exec_path, MayOpen
    <2>2. at[p] \in RestPlaces /\ at[p] \in ShellPlaces
        BY <2>1, PlacesOfShells
    <2>3. image[p] \in Images /\ Holds("exec", image[p]) /\ present \in SUBSET Names
        BY <2>1, <2>2, ShellFacts
    <2>4. present' \in SUBSET Names
        BY <2>1, <2>3
    <2>5. ASSUME NEW g \in Names, FreeFds(image[p]) # {}, Goes(p, "found"),
                   Gets(p, [Opened(image[p]) EXCEPT !.line.file = g])
          PROVE  ShellInv'
        <3>. DEFINE img == [Opened(image[p]) EXCEPT !.line.file = g]
        <3>1. Goes(p, "found") /\ Gets(p, img)
            BY <2>1, <2>5
        <3>2. /\ img \in Images /\ img.tty = image[p].tty
              /\ Tidy(img) /\ img.heap = image[p].heap
              /\ img.optind = image[p].optind
            <4>1. /\ Opened(image[p]) \in Images /\ Tidy(Opened(image[p]))
                  /\ Opened(image[p]).tty = image[p].tty /\ Opened(image[p]).heap = image[p].heap
                  /\ Opened(image[p]).optind = image[p].optind
                  /\ Opened(image[p]).line = image[p].line
                BY <2>3, <2>5, OpenedIsTidy DEF Holds
            <4>2. PICK l \in AnyLine : l = [image[p].line EXCEPT !.file = g]
                BY <2>3, <2>5, LinesTyped DEF Holds
            <4>3. img = [Opened(image[p]) EXCEPT !.line = l]
                BY <4>1, <4>2
            <4>4. /\ img \in Images /\ img.tty = image[p].tty /\ img.heap = image[p].heap
                  /\ img.optind = image[p].optind
                  /\ img.fds = Opened(image[p]).fds /\ img.files = Opened(image[p]).files
                BY <4>1, <4>3 DEF Images
            <4>. QED
                BY <4>1, <4>4 DEF Tidy, OpenFiles
        <3>. HIDE DEF img
        <3>3. Holds("found", img)
            BY <2>1, <2>3, <2>5, <3>2 DEF Holds, OpenPlaces, LessPlaces
        <3>4. "found" \in ShellPlaces \ WaitPlaces
            BY PlacesOfShells
        <3>. QED
            BY <2>1, <2>2, <2>4, <3>1, <3>2, <3>3, <3>4, EchoingStep
    <2>6. ASSUME Gets(p, Idle(p)), Returns(p)
          PROVE  ShellInv'
        <3>. DEFINE img == Idle(p)
        <3>1. Goes(p, "prompt") /\ Gets(p, img)
            BY <2>1, <2>6 DEF Returns
        <3>2. /\ img \in Images /\ img.tty = image[p].tty
              /\ img.fds = image[p].fds /\ img.files = image[p].files
              /\ img.heap = image[p].heap /\ img.optind = image[p].optind /\ (Tidy(image[p]) => Tidy(img))
            BY <2>1, <2>3, <2>6, IdleImage
        <3>. HIDE DEF img
        <3>3. Holds("prompt", img)
            BY <2>1, <2>3, <2>6, <3>2 DEF Holds, OpenPlaces, LessPlaces
        <3>4. "prompt" \in ShellPlaces \ WaitPlaces
            BY PlacesOfShells
        <3>. QED
            BY <2>1, <2>2, <2>4, <3>1, <3>2, <3>3, <3>4, EchoingStep
    <2>. QED
        BY <2>1, <2>5, <2>6
<1>2. CASE find_close(p)
    <2>1. /\ at[p] = "found"
          /\ Gets(p, Closed(image[p])) /\ Goes(p, "run")
          /\ UNCHANGED <<parent, present, echo, started>>
        BY <1>2 DEF find_close
    <2>2. at[p] \in RestPlaces /\ at[p] \in ShellPlaces
        BY <2>1, PlacesOfShells
    <2>3. image[p] \in Images /\ Holds("found", image[p]) /\ present \in SUBSET Names
        BY <2>1, <2>2, ShellFacts
    <2>4. present' \in SUBSET Names
        BY <2>1, <2>3
    <2>5. ASSUME Gets(p, Closed(image[p])), Goes(p, "run")
          PROVE  ShellInv'
        <3>. DEFINE img == Closed(image[p])
        <3>1. Goes(p, "run") /\ Gets(p, img)
            BY <2>1, <2>5
        <3>2. /\ img \in Images /\ img.tty = image[p].tty
              /\ Tidy(img) /\ img.files = <<>>
              /\ img.heap = image[p].heap /\ img.optind = image[p].optind
            BY <2>1, <2>3, <2>5, ClosedIsTidy DEF Holds
        <3>. HIDE DEF img
        <3>3. Holds("run", img)
            BY <2>1, <2>3, <2>5, <3>2 DEF Holds, OpenPlaces, LessPlaces
        <3>4. "run" \in ShellPlaces \ WaitPlaces
            BY PlacesOfShells
        <3>. QED
            BY <2>1, <2>2, <2>4, <3>1, <3>2, <3>3, <3>4, EchoingStep
    <2>. QED
        BY <2>1, <2>5
<1>. QED
    BY <1>1, <1>2

\* echo leaves optind as it has found it.
LEMMA EchoEnds ==
    ASSUME ShellInv, NEW p \in Slots, echo_ends(p)
    PROVE  ShellInv'
<1>. DEFINE img == [Idle(p) EXCEPT !.optind = IF at[p] = "echo_args" THEN "first" ELSE @]
<1>1. /\ at[p] \in {"echo_read", "echo_args"} /\ Goes(p, "prompt") /\ Gets(p, img)
      /\ UNCHANGED <<parent, present, echo, started>>
    BY DEF echo_ends, Returns
<1>2. at[p] \in RestPlaces /\ at[p] \in ShellPlaces /\ "prompt" \in ShellPlaces \ WaitPlaces
    BY <1>1, PlacesOfShells
<1>3. image[p] \in Images /\ Holds(at[p], image[p]) /\ present' \in SUBSET Names
    BY <1>1, <1>2, ShellFacts
<1>4. /\ Idle(p) \in Images /\ Idle(p).tty = image[p].tty /\ Tidy(Idle(p))
      /\ Idle(p).files = <<>> /\ Idle(p).heap = 0
      /\ at[p] # "echo_args" => Idle(p).optind = "first"
    BY <1>1, <1>3, IdleImage DEF Holds, OpenPlaces, LessPlaces
<1>5. img = [Idle(p) EXCEPT !.optind = "first"]
    BY <1>1, <1>4 DEF Images
<1>6. /\ img \in Images /\ img.tty = image[p].tty /\ img.fds = Idle(p).fds
      /\ img.files = <<>> /\ img.heap = 0 /\ img.optind = "first"
    BY <1>4, <1>5 DEF Images
<1>. HIDE DEF img
<1>7. Holds("prompt", img)
    BY <1>4, <1>6 DEF Holds, OpenPlaces, LessPlaces, Tidy, OpenFiles
<1>. QED
    BY <1>1, <1>2, <1>3, <1>6, <1>7, EchoingStep

\* What less knows while the file is open.
LEMMA LessFacts ==
    ASSUME ShellInv, NEW p \in Slots, at[p] \in LessPlaces
    PROVE  /\ at[p] \in ShellPlaces \ WaitPlaces /\ image[p] \in Images
           /\ image[p].heap = 1 /\ Tidy(image[p])
           /\ image[p].tty \in Terminals /\ echo \in [Terminals -> BOOLEAN]
           /\ \A place \in QuietPlaces : Holds(place, image[p])
           /\ at[p] = "less_quiet" => image[p].line.opt = "l"
           /\ ~echo[image[p].tty] => image[p].line.opt = "l"
<1>1. at[p] \in ShellPlaces \ WaitPlaces
    BY PlacesOfShells DEF LessPlaces, QuietPlaces
<1>2. image[p] \in Images /\ Holds(at[p], image[p]) /\ echo \in [Terminals -> BOOLEAN]
    BY <1>1, ShellFacts DEF ShellInv, ShellTyped
<1>3. /\ Tidy(image[p]) /\ image[p].heap = 1
      /\ \A place \in QuietPlaces : Holds(place, image[p])
      /\ at[p] = "less_quiet" => image[p].line.opt = "l"
    BY <1>2 DEF Holds, LessPlaces, OpenPlaces, QuietPlaces
<1>4. image[p].tty \in Terminals
    <2>1. PICK i \in 1 .. started : image[p].tty = Ttys[i]
        BY <1>1 DEF ShellInv, ShellOwns
    <2>. QED
        BY <2>1, TtysTyped DEF ShellInv, ShellTyped
<1>. QED
    BY <1>1, <1>2, <1>3, <1>4, SilentShell

\* The lines of the file, the keys between them, and the terminal that is quiet
\* meanwhile.
LEMMA LessSteps ==
    ASSUME ShellInv, NEW p \in Slots, less_quiet(p) \/ less_line(p) \/ less_key(p) \/ less_quit(p)
    PROVE  ShellInv'
<1>1. /\ at[p] \in LessPlaces /\ parent' = parent /\ started' = started
      /\ present' = present
    BY DEF less_quiet, less_line, less_key, less_quit, LessPlaces
<1>2. /\ at[p] \in ShellPlaces \ WaitPlaces /\ image[p] \in Images
      /\ image[p].heap = 1 /\ Tidy(image[p])
      /\ image[p].tty \in Terminals /\ echo \in [Terminals -> BOOLEAN]
      /\ \A place \in QuietPlaces : Holds(place, image[p])
      /\ ~echo[image[p].tty] => image[p].line.opt = "l"
    BY <1>1, LessFacts
<1>3. present' \in SUBSET Names
    BY <1>1, ShellFacts
<1>4. LessPlaces \subseteq ShellPlaces \ WaitPlaces /\ "prompt" \in ShellPlaces \ WaitPlaces
    BY PlacesOfShells DEF LessPlaces, QuietPlaces
<1>5. UNCHANGED image => Gets(p, image[p])
    BY ShellFacts DEF Gets
<1>6. CASE less_quiet(p)
    <2>1. /\ at[p] = "less_quiet" /\ Goes(p, "less_line") /\ UNCHANGED image
          /\ echo' = [echo EXCEPT ![image[p].tty] = FALSE]
        BY <1>6 DEF less_quiet
    <2>2. /\ echo' \in [Terminals -> BOOLEAN]
          /\ \A t \in Terminals : t # image[p].tty => echo'[t] = echo[t]
        BY <1>2, <2>1
    <2>3. "less_line" \in LessPlaces /\ "less_line" \in QuietPlaces
        BY DEF LessPlaces, QuietPlaces
    <2>4. image[p].line.opt = "l"
        BY <2>1, <1>1, LessFacts
    <2>. QED
        BY <1>1, <1>2, <1>3, <1>4, <1>5, <2>1, <2>2, <2>3, <2>4, LocalStep
<1>7. CASE less_line(p)
    <2>1. ASSUME NEW place \in QuietPlaces, NEW img \in Images,
                 Goes(p, place), Gets(p, img), UNCHANGED echo, img.tty = image[p].tty,
                 img.line = image[p].line, img.heap = 1, img.fds = image[p].fds,
                 img.files = image[p].files
          PROVE  ShellInv'
        <3>1. place \in LessPlaces
            BY DEF LessPlaces, QuietPlaces
        <3>2. Holds(place, img)
            <4>1. Tidy(img)
                BY <1>2, <2>1 DEF Tidy, OpenFiles
            <4>. QED
                BY <2>1, <4>1 DEF Holds, LessPlaces, OpenPlaces, QuietPlaces
        <3>. QED
            BY <1>1, <1>2, <1>3, <1>4, <2>1, <3>1, <3>2, LocalStep
    <2>2. CASE image[p].left > 0
        <3>1. PICK n \in 0 .. MaxLines : n = image[p].left - 1
            BY <1>2, <2>2, ShellAssumption DEF Images
        <3>2. PICK img : img = [image[p] EXCEPT !.left = n]
            OBVIOUS
        <3>3. /\ img \in Images /\ img.tty = image[p].tty /\ img.line = image[p].line
              /\ img.heap = 1 /\ img.fds = image[p].fds /\ img.files = image[p].files
            BY <1>2, <3>2 DEF Images
        <3>4. Gets(p, img) /\ (Goes(p, "less_key") \/ Goes(p, "less_line")) /\ UNCHANGED echo
            BY <1>7, <2>2, <3>1, <3>2 DEF less_line
        <3>. QED
            BY <2>1, <3>3, <3>4 DEF QuietPlaces
    <2>3. CASE ~(image[p].left > 0)
        <3>1. Goes(p, "less_quit") /\ Gets(p, image[p]) /\ UNCHANGED echo
            BY <1>5, <1>7, <2>3 DEF less_line
        <3>. QED
            BY <1>2, <2>1, <3>1 DEF QuietPlaces
    <2>. QED
        BY <2>2, <2>3
<1>8. CASE less_key(p)
    <2>1. PICK place \in QuietPlaces : Goes(p, place)
        BY <1>8 DEF less_key, QuietPlaces
    <2>2. Gets(p, image[p]) /\ UNCHANGED echo
        BY <1>5, <1>8 DEF less_key
    <2>3. place \in LessPlaces
        BY DEF LessPlaces, QuietPlaces
    <2>. QED
        BY <1>1, <1>2, <1>3, <1>4, <2>1, <2>2, <2>3, LocalStep
<1>9. CASE less_quit(p)
    <2>. DEFINE img == [Closed(Idle(p)) EXCEPT !.heap = @ - 1, !.optind = "first"]
    <2>1. Goes(p, "prompt") /\ Gets(p, img)
        BY <1>9 DEF less_quit, Returns
    <2>2. /\ echo' \in [Terminals -> BOOLEAN] /\ echo'[image[p].tty]
          /\ \A t \in Terminals : t # image[p].tty => echo'[t] = echo[t]
        BY <1>2, <1>9 DEF less_quit
    <2>3. Idle(p) \in Images /\ Tidy(Idle(p)) /\ Idle(p).tty = image[p].tty /\ Idle(p).heap = 1
        BY <1>2, IdleImage
    <2>4. PICK closed : closed = Closed(Idle(p))
        OBVIOUS
    <2>5. /\ closed \in Images /\ Tidy(closed) /\ closed.files = <<>>
          /\ closed.tty = image[p].tty /\ closed.heap = 1
        BY <2>3, <2>4, ClosedIsTidy
    <2>6. PICK h \in 0 .. 1 : h = 0
        OBVIOUS
    <2>7. img = [closed EXCEPT !.heap = h, !.optind = "first"]
        BY <2>4, <2>5, <2>6
    <2>. HIDE DEF img
    <2>8. /\ img \in Images /\ img.tty = image[p].tty /\ img.heap = 0 /\ img.optind = "first"
          /\ img.files = <<>> /\ img.fds = closed.fds
        BY <2>5, <2>6, <2>7 DEF Images
    <2>9. Holds("prompt", img)
        BY <2>5, <2>8 DEF Holds, LessPlaces, OpenPlaces, Tidy, OpenFiles
    <2>. QED
        BY <1>1, <1>2, <1>3, <1>4, <2>1, <2>2, <2>8, <2>9, LocalStep
<1>. QED
    BY <1>6, <1>7, <1>8, <1>9

-----------------------------------------------------------------------------
(* Steps of a parent and a child. *)

LEMMA FreshImage ==
    ASSUME NEW t \in Terminals \cup {None}, NEW fds \in SUBSET (0 .. MaxFd)
    PROVE  /\ Fresh(t, fds) \in Images /\ Fresh(t, fds).tty = t
           /\ Holds("start", Fresh(t, {}))
<1>1. NoLine \in AnyLine /\ 0 \in 0 .. MaxLines /\ <<>> \in Seq(0 .. MaxFd)
    BY ShellAssumption DEF NoLine, AnyLine
<1>2. Fresh(t, fds) \in Images /\ Fresh(t, fds).tty = t
    BY <1>1 DEF Fresh, Images
<1>3. Holds("start", Fresh(t, {}))
    BY DEF Fresh, Holds, OpenPlaces, LessPlaces
<1>. QED
    BY <1>2, <1>3

\* fork takes a slot that nobody has and that nobody waits for.
LEMMA FreeSlot ==
    ASSUME ShellInv, FreeSlots # {}
    PROVE  /\ Lowest(FreeSlots) \in Slots /\ at[Lowest(FreeSlots)] = "free"
           /\ Lowest(FreeSlots) \in Tasks /\ Lowest(FreeSlots) # First
           /\ \A c \in Slots : parent[c] # Lowest(FreeSlots)
<1>1. FreeSlots \in SUBSET Nat
    BY ShellAssumption DEF FreeSlots
<1>2. Lowest(FreeSlots) \in FreeSlots
    BY <1>1, LowestIsIn
<1>. QED
    <2>1. PICK s \in Slots : s = Lowest(FreeSlots) /\ at[s] = "free"
        BY <1>2 DEF FreeSlots
    <2>2. \A c \in Slots : parent[c] # s
        BY <2>1 DEF ShellInv, ShellKids, WaitPlaces
    <2>. QED
        BY <2>1, <2>2, ShellAssumption DEF Tasks

LEMMA FirstForks ==
    ASSUME ShellInv, first_forks
    PROVE  ShellInv'
<1>1. /\ at[First] = "spawn" /\ UNCHANGED <<present, echo>>
      /\ First \in Tasks /\ First \notin Slots
    BY ShellAssumption DEF first_forks, Tasks
<1>2. CASE started = Len(Ttys) \/ FreeSlots = {}
    <2>1. Goes(First, "wait") /\ UNCHANGED <<parent, image, started>>
        BY <1>2 DEF first_forks
    <2>2. at'[First] = "wait" /\ \A q \in Slots : at'[q] = at[q]
        BY <1>1, <2>1 DEF Goes, ShellInv, ShellTyped, Tasks
    <2>3. ShellTyped'
        BY <1>1, <2>1, <2>2 DEF Goes, ShellInv, ShellTyped, WaitPlaces, Places
    <2>4. ShellHolds' /\ ShellOwns' /\ ShellEcho'
        BY <1>1, <2>1, <2>2 DEF ShellInv, ShellHolds, ShellOwns, ShellEcho
    <2>5. ShellKids'
        BY <1>1, <2>1, <2>2 DEF ShellInv, ShellKids
    <2>6. ExitsWake'
        BY <1>1, <2>1, <2>2, NobodyForgotten DEF ShellInv, Tasks
    <2>. QED
        BY <2>3, <2>4, <2>5, <2>6 DEF ShellInv
<1>3. CASE ~(started = Len(Ttys) \/ FreeSlots = {})
    <2>1. PICK c : c = Lowest(FreeSlots)
        OBVIOUS
    <2>2. PICK img : img = Fresh(Ttys[started + 1], {})
        OBVIOUS
    <2>3. /\ at' = [at EXCEPT ![First] = "spawn", ![c] = "start"]
          /\ parent' = [parent EXCEPT ![c] = First]
          /\ image' = [image EXCEPT ![First] = image[First], ![c] = img]
          /\ started' = started + 1
        BY <1>3, <2>1, <2>2 DEF first_forks, forks
    <2>4. /\ c \in Slots /\ at[c] = "free" /\ c \in Tasks /\ c # First
          /\ \A d \in Slots : parent[d] # c
        BY <1>3, <2>1, FreeSlot
    <2>5. started \in Nat /\ Len(Ttys) \in Nat /\ started + 1 \in 1 .. Len(Ttys)
          /\ 1 .. Len(Ttys) = DOMAIN Ttys
        BY <1>3, ShellAssumption DEF ShellInv, ShellTyped
    <2>6. img \in Images /\ img.tty = Ttys[started + 1] /\ Holds("start", img)
        BY <2>2, <2>5, TtysTyped, FreshImage
    <2>7. /\ at'[First] = "spawn" /\ at'[c] = "start"
          /\ \A q \in Slots : q # c => at'[q] = at[q]
          /\ parent'[c] = First /\ \A q \in Slots : q # c => parent'[q] = parent[q]
          /\ image'[c] = img /\ \A q \in Slots : q # c => image'[q] = image[q]
        BY <1>1, <2>3, <2>4 DEF ShellInv, ShellTyped, Tasks
    <2>8. ShellTyped'
        <3>1. at' \in [Tasks -> Places \cup {"spawn"}]
            BY <2>3 DEF ShellInv, ShellTyped, Places
        <3>2. \A q \in Slots : at'[q] \in Places
            BY <2>7 DEF ShellInv, ShellTyped, Places
        <3>3. parent' \in [Slots -> Tasks \cup {None}] /\ image' \in [Tasks -> Images]
            BY <1>1, <2>3, <2>6 DEF ShellInv, ShellTyped
        <3>4. started' \in 0 .. Len(Ttys)
            BY <2>3, <2>5
        <3>. QED
            BY <1>1, <2>7, <3>1, <3>2, <3>3, <3>4 DEF ShellInv, ShellTyped
    <2>9. ShellHolds'
        BY <2>6, <2>7 DEF ShellInv, ShellHolds
    <2>10. ShellOwns'
        <3>1. \A q \in Slots : q # c /\ at'[q] \in ShellPlaces =>
                  \E i \in 1 .. started : image[q].tty = Ttys[i]
            BY <2>7 DEF ShellInv, ShellOwns
        <3>2. \A i \in 1 .. started : Ttys[i] # Ttys[started + 1]
            BY <2>5, ShellAssumption
        <3>3. \A q \in Slots : q # c /\ at'[q] \in ShellPlaces => image'[q].tty # image'[c].tty
            BY <2>6, <2>7, <3>1, <3>2
        <3>4. \A i \in 1 .. started : i \in 1 .. started'
            BY <2>3, <2>5
        <3>5. started + 1 \in 1 .. started'
            BY <2>3, <2>5
        <3>6. \A q \in Slots : at'[q] \in ShellPlaces => \E i \in 1 .. started' : image'[q].tty = Ttys[i]
            BY <2>6, <2>7, <3>1, <3>4, <3>5
        <3>7. \A p, q \in Slots :
                  at'[p] \in ShellPlaces /\ at'[q] \in ShellPlaces /\ image'[p].tty = image'[q].tty => p = q
            BY <2>7, <3>3 DEF ShellInv, ShellOwns
        <3>. QED
            BY <3>6, <3>7 DEF ShellOwns
    <2>11. ShellKids'
        BY <1>1, <2>4, <2>7 DEF ShellInv, ShellKids, ChildPlaces
    <2>12. ShellEcho'
        BY <1>1, <2>4, <2>7 DEF ShellInv, ShellEcho, QuietPlaces
    <2>13. ExitsWake'
        BY <1>1, <2>7, NobodyForgotten DEF ShellInv, Tasks
    <2>. QED
        BY <2>8, <2>9, <2>10, <2>11, <2>12, <2>13 DEF ShellInv
<1>. QED
    BY <1>2, <1>3

LEMMA FirstWaits ==
    ASSUME ShellInv, first_waits
    PROVE  ShellInv'
<1>1. PICK c \in Slots : wait(First, c, "wait")
    BY DEF first_waits
<1>2. /\ UNCHANGED <<image, present, echo, started>> /\ First \in Tasks /\ First \notin Slots
      /\ c \in Tasks /\ c # First /\ None \notin Slots
    BY ShellAssumption DEF first_waits, Tasks
<1>3. /\ parent[c] = First /\ at[c] = "zombie"
      /\ at' = [at EXCEPT ![First] = "wait", ![c] = "free"]
      /\ parent' = [parent EXCEPT ![c] = None]
    BY <1>1 DEF wait, Zombies, Children
<1>4. /\ at'[First] = "wait" /\ at'[c] = "free"
      /\ \A q \in Slots : q # c => at'[q] = at[q]
      /\ parent'[c] = None /\ \A q \in Slots : q # c => parent'[q] = parent[q]
    BY <1>2, <1>3 DEF ShellInv, ShellTyped, Tasks
<1>5. ShellTyped'
    <2>1. at' \in [Tasks -> Places \cup {"spawn"}]
        BY <1>3 DEF ShellInv, ShellTyped, Places
    <2>2. \A q \in Slots : at'[q] \in Places
        BY <1>4 DEF ShellInv, ShellTyped, Places
    <2>3. parent' \in [Slots -> Tasks \cup {None}]
        BY <1>3 DEF ShellInv, ShellTyped
    <2>. QED
        BY <1>2, <1>4, <2>1, <2>2, <2>3 DEF ShellInv, ShellTyped, WaitPlaces
<1>6. ShellHolds' /\ ShellOwns'
    <2>1. \A q \in Slots : at'[q] \in ShellPlaces => at'[q] = at[q]
        BY <1>4, PlacesOfShells
    <2>. QED
        BY <1>2, <2>1 DEF ShellInv, ShellHolds, ShellOwns
<1>7. ShellKids'
    <2>1. \A d \in Slots : parent[d] # c
        BY <1>3 DEF ShellInv, ShellKids, ChildPlaces, WaitPlaces
    <2>. QED
        BY <1>2, <1>4, <2>1 DEF ShellInv, ShellKids, ChildPlaces
<1>8. ShellEcho'
    BY <1>2, <1>3, <1>4 DEF ShellInv, ShellEcho, QuietPlaces
<1>9. ExitsWake'
    BY <1>4, NobodyForgotten DEF ShellInv, Tasks
<1>. QED
    BY <1>5, <1>6, <1>7, <1>8, <1>9 DEF ShellInv

\* A wait that finds no zombie only moves on in its own code.
LEMMA BlockStep ==
    ASSUME ShellInv, NEW p \in Tasks, wait_release(p) \/ wait_block(p)
    PROVE  ShellInv'
<1>1. /\ at[p] \in WaitPlaces /\ UNCHANGED <<parent, image, present, echo, started>>
      /\ \E place \in WaitPlaces :
            Goes(p, place) /\ (place = "blocked" => Zombies(p) = {})
    BY DEF wait_release, wait_block, WaitPlaces
<1>2. PICK place \in WaitPlaces : Goes(p, place) /\ (place = "blocked" => Zombies(p) = {})
    BY <1>1
<1>3. at' = [at EXCEPT ![p] = place] /\ at'[p] = place /\ \A q \in Tasks : q # p => at'[q] = at[q]
    BY <1>2 DEF Goes, ShellInv, ShellTyped
<1>4. WaitPlaces \subseteq Places /\ WaitPlaces \cap (QuietPlaces \cup ChildPlaces \cup {"zombie"}) = {}
    BY DEF WaitPlaces, Places, QuietPlaces, ChildPlaces
<1>5. \A q \in Slots : /\ at'[q] \in ShellPlaces <=> at[q] \in ShellPlaces
                       /\ at'[q] \in ChildPlaces <=> at[q] \in ChildPlaces
                       /\ at'[q] \in WaitPlaces <=> at[q] \in WaitPlaces
                       /\ at'[q] \in QuietPlaces <=> at[q] \in QuietPlaces
                       /\ at'[q] = "zombie" <=> at[q] = "zombie"
    BY <1>1, <1>3, <1>4, PlacesOfShells DEF Tasks
<1>6. ShellTyped'
    <2>1. at' \in [Tasks -> Places \cup {"spawn"}]
        BY <1>3, <1>4 DEF ShellInv, ShellTyped
    <2>2. at'[First] \in {"spawn"} \cup WaitPlaces
        BY <1>3 DEF ShellInv, ShellTyped, Tasks
    <2>3. \A q \in Slots : at'[q] \in Places
        BY <1>3, <1>4 DEF ShellInv, ShellTyped, Tasks
    <2>. QED
        BY <1>1, <2>1, <2>2, <2>3 DEF ShellInv, ShellTyped
<1>7. ShellHolds'
    <2>1. ASSUME NEW q \in Slots, at'[q] \in ShellPlaces
          PROVE  Holds(at'[q], image[q])
        <3>1. at[q] \in ShellPlaces /\ Holds(at[q], image[q])
            BY <1>5, <2>1 DEF ShellInv, ShellHolds
        <3>2. CASE q # p
            BY <1>3, <3>1, <3>2 DEF Tasks
        <3>3. CASE q = p
            <4>1. at[q] \in WaitPlaces /\ at'[q] \in WaitPlaces
                BY <1>1, <1>3, <3>3
            <4>. QED
                BY <3>1, <4>1 DEF Holds, WaitPlaces, OpenPlaces, LessPlaces
        <3>. QED
            BY <3>2, <3>3
    <2>. QED
        BY <1>1, <2>1 DEF ShellHolds
<1>8. ShellOwns' /\ ShellEcho'
    BY <1>1, <1>5 DEF ShellInv, ShellOwns, ShellEcho
<1>9. ShellKids'
    BY <1>1, <1>5 DEF ShellInv, ShellKids
<1>10. ExitsWake'
    <2>1. ASSUME NEW q \in Tasks, at'[q] = "blocked"
          PROVE  Zombies(q)' = {}
        <3>1. Zombies(q)' = Zombies(q)
            BY <1>1, <1>5 DEF Zombies, Children
        <3>. QED
            BY <1>2, <1>3, <2>1, <3>1 DEF ShellInv, ExitsWake
    <2>. QED
        BY <2>1 DEF ExitsWake
<1>. QED
    BY <1>6, <1>7, <1>8, <1>9, <1>10 DEF ShellInv

\* A process that exits has no children: only a shell has one, and it waits.
LEMMA NoChildren ==
    ASSUME ShellInv, NEW p \in Slots, at[p] \notin WaitPlaces
    PROVE  Children(p) = {}
    BY DEF ShellInv, ShellKids, Children

LEMMA Exits ==
    ASSUME ShellInv, NEW p \in Slots, at[p] \in ChildPlaces \cup {"quit"}, exits(p),
           UNCHANGED <<present, echo, started>>
    PROVE  ShellInv'
<1>1. p \in Tasks /\ p # First /\ at[p] \notin WaitPlaces /\ at[p] \notin QuietPlaces
    BY ShellAssumption DEF Tasks, ChildPlaces, QuietPlaces, WaitPlaces
<1>2. \A c \in Slots : parent[c] # p
    BY <1>1 DEF ShellInv, ShellKids
<1>3. parent' = parent
    BY <1>2 DEF exits, ShellInv, ShellTyped
<1>4. PICK img \in Images : img = Fresh(image[p].tty, {})
    <2>1. image[p].tty \in Terminals \cup {None}
        BY <1>1 DEF ShellInv, ShellTyped, Images
    <2>. QED
        BY <2>1, FreshImage
<1>5. image' = [image EXCEPT ![p] = img]
    BY <1>4 DEF exits, Gets
<1>6. Woken(p) = {parent[p]}
    BY <1>1, NoChildren DEF Woken
<1>7. /\ at'[p] = "zombie" /\ \A q \in Slots : q # p => image'[q] = image[q]
      /\ \A q \in Tasks : q # p =>
            at'[q] = IF q = parent[p] /\ at[q] \in Blocked THEN "wait" ELSE at[q]
    BY <1>1, <1>5, <1>6 DEF exits, ShellInv, ShellTyped, Tasks
<1>8. \A q \in Tasks : q # p => at'[q] = at[q] \/ (at[q] \in WaitPlaces /\ at'[q] = "wait")
    BY <1>7 DEF Blocked, WaitPlaces
<1>9. WaitPlaces \subseteq Places \cap ShellPlaces /\ "wait" \in WaitPlaces
      /\ WaitPlaces \cap (QuietPlaces \cup ChildPlaces \cup {"zombie"}) = {}
    BY PlacesOfShells DEF WaitPlaces, Places, QuietPlaces, ChildPlaces
<1>10. \A q \in Slots : q # p => /\ at'[q] \in ShellPlaces <=> at[q] \in ShellPlaces
                                 /\ at'[q] \in ChildPlaces <=> at[q] \in ChildPlaces
                                 /\ at'[q] \in WaitPlaces <=> at[q] \in WaitPlaces
                                 /\ at'[q] = "zombie" <=> at[q] = "zombie"
    BY <1>8, <1>9 DEF Tasks
<1>11. ShellTyped'
    <2>1. at' \in [Tasks -> Places \cup {"spawn"}]
        <3>1. \A q \in Tasks : at'[q] \in Places \cup {"spawn"}
            BY <1>1, <1>7, <1>8, <1>9 DEF ShellInv, ShellTyped, Places
        <3>. QED
            BY <3>1 DEF exits
    <2>2. \A q \in Slots : at'[q] \in Places
        BY <1>7, <1>8, <1>9 DEF ShellInv, ShellTyped, Places, Tasks
    <2>3. at'[First] \in {"spawn"} \cup WaitPlaces
        BY <1>1, <1>8, <1>9 DEF ShellInv, ShellTyped, Tasks
    <2>4. image' \in [Tasks -> Images]
        BY <1>5 DEF ShellInv, ShellTyped
    <2>. QED
        BY <1>3, <2>1, <2>2, <2>3, <2>4 DEF ShellInv, ShellTyped
<1>12. \A q \in Slots : at'[q] \in ShellPlaces => q # p /\ at[q] \in ShellPlaces
    BY <1>7, <1>10, PlacesOfShells
<1>13. ShellHolds'
    <2>1. ASSUME NEW q \in Slots, at'[q] \in ShellPlaces
          PROVE  Holds(at'[q], image'[q])
        <3>1. q # p /\ Holds(at[q], image[q]) /\ image'[q] = image[q]
            BY <1>7, <1>12, <2>1 DEF ShellInv, ShellHolds
        <3>2. CASE at[q] \in WaitPlaces /\ at'[q] = "wait"
            BY <3>1, <3>2 DEF Holds, WaitPlaces, OpenPlaces, LessPlaces
        <3>. QED
            BY <1>8, <3>1, <3>2 DEF Tasks
    <2>. QED
        BY <2>1 DEF ShellHolds
<1>14. ShellOwns'
    BY <1>7, <1>12 DEF ShellInv, ShellOwns
<1>15. ShellKids'
    <2>1. \A c \in Slots : at'[c] \in ChildPlaces => c # p /\ at[c] \in ChildPlaces
        BY <1>7, <1>10 DEF ChildPlaces
    <2>2. \A c \in Slots : at'[c] \in ChildPlaces =>
              parent'[c] \in Slots /\ image'[c].tty = image'[parent'[c]].tty
        BY <1>2, <1>3, <1>7, <2>1 DEF ShellInv, ShellKids
    <2>3. ASSUME NEW c \in Slots, parent'[c] \in Slots
          PROVE  at'[parent'[c]] \in WaitPlaces /\ at'[c] \in ChildPlaces \cup {"zombie"}
        <3>1. /\ parent'[c] = parent[c] /\ parent[c] # p
              /\ at[parent[c]] \in WaitPlaces /\ at[c] \in ChildPlaces \cup {"zombie"}
            BY <1>2, <1>3, <2>3 DEF ShellInv, ShellKids
        <3>. QED
            BY <1>7, <1>10, <2>3, <3>1
    <2>. QED
        BY <1>3, <2>2, <2>3 DEF ShellInv, ShellKids
<1>16. ShellEcho'
    <2>1. \A q \in Slots : at[q] \in QuietPlaces => at'[q] = at[q] /\ image'[q] = image[q]
        BY <1>1, <1>7, <1>8, <1>9 DEF Tasks
    <2>. QED
        BY <2>1 DEF ShellInv, ShellEcho
<1>17. ExitsWake'
    <2>1. ASSUME NEW q \in Tasks, at'[q] = "blocked"
          PROVE  Zombies(q)' = {}
        <3>1. at[q] = "blocked" /\ q # parent[p]
            BY <1>7, <2>1 DEF Blocked
        <3>2. Zombies(q) = {}
            BY <3>1 DEF ShellInv, ExitsWake
        <3>3. ASSUME NEW c \in Slots, parent'[c] = q, at'[c] = "zombie"
              PROVE  FALSE
            <4>1. c # p /\ at[c] = "zombie" /\ parent[c] = q
                BY <1>3, <1>10, <3>1, <3>3
            <4>. QED
                BY <3>2, <4>1 DEF Zombies, Children
        <3>. QED
            BY <3>3 DEF Zombies, Children
    <2>. QED
        BY <2>1 DEF ExitsWake
<1>. QED
    BY <1>11, <1>13, <1>14, <1>15, <1>16, <1>17 DEF ShellInv

\* The child that has become a program, or is about to.
LEMMA ChildStep ==
    ASSUME ShellInv, NEW p \in Slots, at[p] \in ChildPlaces, NEW place \in ChildPlaces,
           NEW img \in Images, img.tty = image[p].tty, Goes(p, place), Gets(p, img),
           UNCHANGED <<parent, present, echo, started>>
    PROVE  ShellInv'
<1>1. p \in Tasks /\ p # First /\ at[p] \notin WaitPlaces /\ at[p] \notin QuietPlaces
    BY ShellAssumption DEF Tasks, ChildPlaces, QuietPlaces, WaitPlaces
<1>2. at' = [at EXCEPT ![p] = place] /\ image' = [image EXCEPT ![p] = img]
    BY DEF Goes, Gets
<1>3. /\ at'[p] = place /\ at'[First] = at[First] /\ image'[p] = img
      /\ \A q \in Slots : q # p => at'[q] = at[q] /\ image'[q] = image[q]
      /\ \A q \in Slots : image'[q].tty = image[q].tty
    BY <1>1, <1>2 DEF ShellInv, ShellTyped, Tasks
<1>4. ShellTyped'
    <2>1. at' \in [Tasks -> Places \cup {"spawn"}] /\ image' \in [Tasks -> Images]
        BY <1>2 DEF ShellInv, ShellTyped, Places, ChildPlaces
    <2>2. \A q \in Slots : at'[q] \in Places
        BY <1>3 DEF ShellInv, ShellTyped, Places, ChildPlaces
    <2>. QED
        BY <1>3, <2>1, <2>2 DEF ShellInv, ShellTyped
<1>5. ShellHolds' /\ ShellOwns'
    <2>1. \A q \in Slots : at'[q] \in ShellPlaces => q # p
        BY <1>3, PlacesOfShells
    <2>. QED
        BY <1>3, <2>1 DEF ShellInv, ShellHolds, ShellOwns
<1>6. ShellKids'
    <2>1. \A c \in Slots : parent[c] # p
        BY <1>1 DEF ShellInv, ShellKids
    <2>2. \A c \in Slots : at'[c] \in ChildPlaces =>
              parent'[c] \in Slots /\ image'[c].tty = image'[parent'[c]].tty
        BY <1>3 DEF ShellInv, ShellKids
    <2>3. \A c \in Slots : parent'[c] \in Slots =>
              at'[parent'[c]] \in WaitPlaces /\ at'[c] \in ChildPlaces \cup {"zombie"}
        BY <1>3, <2>1 DEF ShellInv, ShellKids
    <2>. QED
        BY <2>2, <2>3 DEF ShellInv, ShellKids
<1>7. ShellEcho'
    <2>1. \A q \in Slots : at[q] \in QuietPlaces => at'[q] = at[q] /\ image'[q] = image[q]
        BY <1>1, <1>3
    <2>. QED
        BY <2>1 DEF ShellInv, ShellEcho
<1>8. ExitsWake'
    <2>1. \A q \in Slots : at'[q] \in {"blocked", "zombie"} => at'[q] = at[q]
        BY <1>3 DEF ChildPlaces
    <2>. QED
        BY <1>3, <2>1, NobodyForgotten DEF ShellInv, Tasks
<1>. QED
    BY <1>4, <1>5, <1>6, <1>7, <1>8 DEF ShellInv

LEMMA ProgramSteps ==
    ASSUME ShellInv, NEW p \in Slots, do_exit(p) \/ child(p) \/ program(p) \/ program_ends(p)
    PROVE  ShellInv'
<1>1. image[p] \in Images
    BY ShellFacts
<1>2. CASE do_exit(p)
    <2>1. at[p] = "quit" /\ exits(p) /\ UNCHANGED <<present, echo, started>>
        BY <1>2 DEF do_exit
    <2>. QED
        BY <2>1, Exits
<1>3. CASE child(p)
    <2>1. /\ at[p] \in ChildPlaces /\ UNCHANGED <<present, echo, started>>
          /\ \/ /\ Gets(p, Fresh(image[p].tty, image[p].fds))
                /\ Goes(p, "program") /\ UNCHANGED parent
             \/ exits(p)
        BY <1>3 DEF child, ChildPlaces
    <2>2. /\ Fresh(image[p].tty, image[p].fds) \in Images
          /\ Fresh(image[p].tty, image[p].fds).tty = image[p].tty
        BY <1>1, FreshImage DEF Images
    <2>3. "program" \in ChildPlaces
        BY DEF ChildPlaces
    <2>. QED
        BY <2>1, <2>2, <2>3, Exits, ChildStep
<1>4. CASE program(p)
    <2>1. /\ at[p] \in ChildPlaces /\ UNCHANGED <<present, echo, started>>
          /\ \/ Goes(p, "program_read") /\ UNCHANGED <<parent, image>>
             \/ exits(p)
        BY <1>4 DEF program, ChildPlaces
    <2>2. UNCHANGED image => Gets(p, image[p])
        BY ShellFacts DEF Gets
    <2>3. "program_read" \in ChildPlaces
        BY DEF ChildPlaces
    <2>. QED
        BY <1>1, <2>1, <2>2, <2>3, Exits, ChildStep
<1>5. CASE program_ends(p)
    <2>1. at[p] \in ChildPlaces /\ exits(p) /\ UNCHANGED <<present, echo, started>>
        BY <1>5 DEF program_ends, ChildPlaces
    <2>. QED
        BY <2>1, Exits
<1>. QED
    BY <1>2, <1>3, <1>4, <1>5

\* The shell waits from the fork on, and the child has its image.
LEMMA RunStep ==
    ASSUME ShellInv, NEW p \in Slots, run_exec_file(p)
    PROVE  ShellInv'
<1>1. /\ at[p] = "run" /\ UNCHANGED <<present, echo, started>>
      /\ \/ forks(p, image[p], "child", Idle(p), "wait")
         \/ Gets(p, Idle(p)) /\ Returns(p) /\ UNCHANGED parent
    BY DEF run_exec_file
<1>2. /\ at[p] \in RestPlaces /\ at[p] \in ShellPlaces /\ p \in Tasks /\ p # First
      /\ "prompt" \in ShellPlaces \ WaitPlaces
    BY <1>1, PlacesOfShells, ShellAssumption DEF Tasks
<1>3. image[p] \in Images /\ Holds("run", image[p]) /\ present' \in SUBSET Names
    BY <1>1, <1>2, ShellFacts
<1>4. ASSUME Gets(p, Idle(p)), Goes(p, "prompt"), UNCHANGED parent
      PROVE  ShellInv'
    <2>1. /\ Idle(p) \in Images /\ Idle(p).tty = image[p].tty /\ Tidy(Idle(p))
          /\ Idle(p).files = <<>> /\ Idle(p).heap = 0 /\ Idle(p).optind = "first"
        BY <1>3, IdleImage DEF Holds, OpenPlaces, LessPlaces
    <2>2. Holds("prompt", Idle(p))
        BY <2>1 DEF Holds, OpenPlaces, LessPlaces
    <2>. QED
        BY <1>1, <1>2, <1>3, <1>4, <2>1, <2>2, EchoingStep
<1>5. ASSUME forks(p, image[p], "child", Idle(p), "wait")
      PROVE  ShellInv'
    <2>0. PICK own : own = Idle(p)
        OBVIOUS
    <2>1. PICK c : c = Lowest(FreeSlots)
        OBVIOUS
    <2>2. /\ FreeSlots # {} /\ at' = [at EXCEPT ![p] = "wait", ![c] = "child"]
          /\ parent' = [parent EXCEPT ![c] = p]
          /\ image' = [image EXCEPT ![p] = own, ![c] = image[p]]
        BY <1>5, <2>1, <2>0 DEF forks
    <2>3. /\ c \in Slots /\ at[c] = "free" /\ c \in Tasks /\ c # First /\ c # p
          /\ \A d \in Slots : parent[d] # c
        BY <1>1, <2>1, <2>2, FreeSlot
    <2>4. \A d \in Slots : parent[d] # p
        BY <1>1 DEF ShellInv, ShellKids, WaitPlaces
    <2>5. /\ at'[p] = "wait" /\ at'[c] = "child" /\ at'[First] = at[First]
          /\ \A q \in Slots : q # c /\ q # p => at'[q] = at[q]
          /\ parent'[c] = p /\ \A q \in Slots : q # c => parent'[q] = parent[q]
          /\ image'[p] = own /\ image'[c] = image[p]
          /\ \A q \in Slots : q # c /\ q # p => image'[q] = image[q]
        BY <1>2, <2>2, <2>3 DEF ShellInv, ShellTyped, Tasks
    <2>12. /\ own \in Images /\ own.tty = image[p].tty /\ Tidy(own)
           /\ own.files = <<>> /\ own.heap = 0 /\ own.optind = "first"
        BY <1>3, <2>0, IdleImage DEF Holds, OpenPlaces, LessPlaces
    <2>13. \A q \in Slots : q # c => image'[q].tty = image[q].tty
        BY <2>5, <2>12
    <2>6. ShellTyped'
        <3>1. at' \in [Tasks -> Places \cup {"spawn"}]
            BY <2>2 DEF ShellInv, ShellTyped, Places
        <3>2. \A q \in Slots : at'[q] \in Places
            BY <2>5 DEF ShellInv, ShellTyped, Places
        <3>3. parent' \in [Slots -> Tasks \cup {None}] /\ image' \in [Tasks -> Images]
            BY <1>2, <1>3, <2>2, <2>12 DEF ShellInv, ShellTyped
        <3>. QED
            BY <1>1, <2>5, <3>1, <3>2, <3>3 DEF ShellInv, ShellTyped
    <2>7. \A q \in Slots : at'[q] \in ShellPlaces => q # c /\ at[q] \in ShellPlaces
        BY <1>2, <2>5, PlacesOfShells DEF ChildPlaces
    <2>8. ShellHolds'
        <3>1. Holds("wait", own)
            BY <2>12 DEF Holds, OpenPlaces, LessPlaces
        <3>. QED
            BY <2>3, <2>5, <2>7, <3>1 DEF ShellInv, ShellHolds
    <2>9. ShellOwns'
        BY <1>1, <2>7, <2>13 DEF ShellInv, ShellOwns
    <2>10. ShellKids'
        <3>1. \A d \in Slots : at'[d] \in ChildPlaces =>
                  parent'[d] \in Slots /\ image'[d].tty = image'[parent'[d]].tty
            <4>1. ASSUME NEW d \in Slots, at'[d] \in ChildPlaces, d # c
                  PROVE  parent'[d] \in Slots /\ image'[d].tty = image'[parent'[d]].tty
                <5>1. d # p
                    BY <2>5, <4>1 DEF ChildPlaces
                <5>2. at[d] \in ChildPlaces /\ parent'[d] = parent[d] /\ parent[d] # c
                    BY <2>3, <2>5, <4>1, <5>1
                <5>. QED
                    BY <2>13, <4>1, <5>2 DEF ShellInv, ShellKids
            <4>. QED
                BY <2>3, <2>5, <2>12, <4>1
        <3>2. \A d \in Slots : parent'[d] \in Slots =>
                  at'[parent'[d]] \in WaitPlaces /\ at'[d] \in ChildPlaces \cup {"zombie"}
            <4>1. ASSUME NEW d \in Slots, parent'[d] \in Slots, d # c
                  PROVE  at'[parent'[d]] \in WaitPlaces /\ at'[d] \in ChildPlaces \cup {"zombie"}
                <5>1. parent'[d] = parent[d] /\ parent[d] # p /\ parent[d] # c
                    BY <2>3, <2>4, <2>5, <4>1
                <5>2. at[parent[d]] \in WaitPlaces /\ at[d] \in ChildPlaces \cup {"zombie"}
                    BY <4>1, <5>1 DEF ShellInv, ShellKids
                <5>3. d # p
                    BY <1>1, <5>2 DEF ChildPlaces
                <5>. QED
                    BY <2>5, <4>1, <5>1, <5>2, <5>3
            <4>. QED
                BY <2>5, <4>1 DEF ChildPlaces, WaitPlaces
        <3>3. \A d, e \in Slots : parent'[d] \in Slots /\ parent'[d] = parent'[e] => d = e
            BY <2>4, <2>5 DEF ShellInv, ShellKids
        <3>. QED
            BY <3>1, <3>2, <3>3 DEF ShellKids
    <2>11. ShellEcho'
        <3>1. \A q \in Slots : at[q] \in QuietPlaces => at'[q] = at[q] /\ image'[q] = image[q]
            BY <1>1, <2>3, <2>5 DEF QuietPlaces
        <3>. QED
            BY <1>1, <3>1 DEF ShellInv, ShellEcho
    <2>14. ExitsWake'
        BY <2>5, NobodyForgotten DEF ShellInv, Tasks
    <2>. QED
        BY <2>6, <2>8, <2>9, <2>10, <2>11, <2>14 DEF ShellInv
<1>. QED
    BY <1>1, <1>4, <1>5 DEF Returns

\* The one child is reaped and the shell is at its prompt again.
LEMMA WaitStep ==
    ASSUME ShellInv, NEW p \in Slots, wait_child(p)
    PROVE  ShellInv'
<1>1. PICK c \in Slots : wait(p, c, "prompt")
    BY DEF wait_child
<1>2. /\ at[p] = "wait" /\ UNCHANGED <<image, present, echo, started>>
      /\ parent[c] = p /\ at[c] = "zombie"
      /\ at' = [at EXCEPT ![p] = "prompt", ![c] = "free"]
      /\ parent' = [parent EXCEPT ![c] = None]
    BY <1>1 DEF wait_child, wait, Zombies, Children
<1>3. p \in Tasks /\ p # First /\ c # p /\ c \in Tasks /\ c # First /\ None \notin Slots
    BY <1>2, ShellAssumption DEF Tasks
<1>4. at[p] \in ShellPlaces /\ "prompt" \in ShellPlaces
    BY <1>2, PlacesOfShells DEF WaitPlaces
<1>5. Holds("wait", image[p])
    BY <1>2, <1>4, ShellFacts
<1>8. /\ at'[p] = "prompt" /\ at'[c] = "free" /\ at'[First] = at[First]
      /\ \A q \in Slots : q # c /\ q # p => at'[q] = at[q]
      /\ parent'[c] = None /\ \A q \in Slots : q # c => parent'[q] = parent[q]
    BY <1>2, <1>3 DEF ShellInv, ShellTyped, Tasks
<1>10. ShellTyped'
    <2>1. at' \in [Tasks -> Places \cup {"spawn"}]
        BY <1>2 DEF ShellInv, ShellTyped, Places
    <2>2. \A q \in Slots : at'[q] \in Places
        BY <1>8 DEF ShellInv, ShellTyped, Places
    <2>3. parent' \in [Slots -> Tasks \cup {None}] /\ image' \in [Tasks -> Images]
        BY <1>2 DEF ShellInv, ShellTyped
    <2>. QED
        BY <1>2, <1>8, <2>1, <2>2, <2>3 DEF ShellInv, ShellTyped
<1>11. \A q \in Slots : at'[q] \in ShellPlaces => q # c /\ at[q] \in ShellPlaces
    BY <1>4, <1>8, PlacesOfShells
<1>12. ShellHolds'
    <2>1. Holds("prompt", image[p])
        BY <1>5 DEF Holds, OpenPlaces, LessPlaces
    <2>. QED
        BY <1>2, <1>8, <1>11, <2>1 DEF ShellInv, ShellHolds
<1>13. ShellOwns'
    <2>1. \A q \in Slots : at'[q] \in ShellPlaces => \E i \in 1 .. started' : image'[q].tty = Ttys[i]
        BY <1>2, <1>11 DEF ShellInv, ShellOwns
    <2>2. \A q, r \in Slots :
              at'[q] \in ShellPlaces /\ at'[r] \in ShellPlaces /\ image'[q].tty = image'[r].tty => q = r
        <3>1. \A q, r \in Slots :
                  at[q] \in ShellPlaces /\ at[r] \in ShellPlaces /\ image[q].tty = image[r].tty => q = r
            BY DEF ShellInv, ShellOwns
        <3>. QED
            BY <1>2, <1>11, <3>1
    <2>. QED
        BY <2>1, <2>2 DEF ShellOwns
<1>14. ShellKids'
    <2>1. \A d \in Slots : parent'[d] # p /\ parent'[d] # c
        BY <1>2, <1>3, <1>8 DEF ShellInv, ShellKids, WaitPlaces
    <2>2. \A d \in Slots : at'[d] \in ChildPlaces => d # c /\ d # p
        BY <1>8 DEF ChildPlaces
    <2>3. \A d \in Slots : at'[d] \in ChildPlaces =>
              parent'[d] \in Slots /\ image'[d].tty = image'[parent'[d]].tty
        <3>1. ASSUME NEW d \in Slots, at'[d] \in ChildPlaces
              PROVE  parent'[d] \in Slots /\ image'[d].tty = image'[parent'[d]].tty
            <4>1. at[d] \in ChildPlaces /\ parent'[d] = parent[d]
                BY <1>8, <2>2, <3>1
            <4>. QED
                BY <1>2, <4>1 DEF ShellInv, ShellKids
        <3>. QED
            BY <3>1
    <2>4. \A d \in Slots : parent'[d] \in Slots => d # c /\ d # p
        <3>1. parent[p] \notin Slots
            BY <1>2 DEF ShellInv, ShellKids, ChildPlaces
        <3>. QED
            BY <1>3, <1>8, <3>1
    <2>5. \A d \in Slots : parent'[d] \in Slots =>
              at'[parent'[d]] \in WaitPlaces /\ at'[d] \in ChildPlaces \cup {"zombie"}
        BY <1>8, <2>1, <2>4 DEF ShellInv, ShellKids
    <2>6. \A d, e \in Slots : parent'[d] \in Slots /\ parent'[d] = parent'[e] => d = e
        BY <1>8, <2>4 DEF ShellInv, ShellKids
    <2>. QED
        BY <2>3, <2>5, <2>6 DEF ShellKids
<1>15. ShellEcho'
    <2>1. \A q \in Slots : at[q] \in QuietPlaces => at'[q] = at[q] /\ image'[q] = image[q]
        BY <1>2, <1>8 DEF QuietPlaces
    <2>. QED
        <3>1. ASSUME NEW t \in Terminals, ~echo'[t]
              PROVE  \E q \in Slots : at'[q] \in QuietPlaces /\ image'[q].tty = t /\ image'[q].line.opt = "l"
            <4>1. PICK q \in Slots : at[q] \in QuietPlaces /\ image[q].tty = t /\ image[q].line.opt = "l"
                BY <1>2, <3>1 DEF ShellInv, ShellEcho
            <4>. QED
                BY <2>1, <4>1
        <3>. QED
            BY <3>1 DEF ShellEcho
<1>16. ExitsWake'
    BY <1>8, NobodyForgotten DEF ShellInv, Tasks
<1>. QED
    BY <1>10, <1>12, <1>13, <1>14, <1>15, <1>16 DEF ShellInv

-----------------------------------------------------------------------------

THEOREM ShellInvariant == ShellSpec => []ShellInv
<1>1. ShellInit => ShellInv
    <2>1. ASSUME ShellInit
          PROVE  ShellInv
        <3>1. /\ at = [p \in Tasks |-> IF p = First THEN "spawn" ELSE "free"]
              /\ parent = [c \in Slots |-> None] /\ image = [p \in Tasks |-> Fresh(None, {})]
              /\ present \in SUBSET Names /\ echo = [t \in Terminals |-> TRUE] /\ started = 0
            BY <2>1 DEF ShellInit
        <3>2. /\ at[First] = "spawn" /\ \A p \in Slots : at[p] = "free" /\ parent[p] = None
            BY <3>1, ShellAssumption DEF Tasks
        <3>3. Fresh(None, {}) \in Images
            BY FreshImage
        <3>4. ShellTyped
            <4>1. at \in [Tasks -> Places \cup {"spawn"}]
                BY <3>1 DEF Places
            <4>2. Len(Ttys) \in Nat
                BY ShellAssumption
            <4>. QED
                BY <3>1, <3>2, <3>3, <4>1, <4>2 DEF ShellTyped, Places
        <3>5. ShellHolds /\ ShellOwns /\ ShellKids
            BY <3>2, ShellAssumption, PlacesOfShells DEF ShellHolds, ShellOwns, ShellKids, ChildPlaces, Tasks
        <3>6. ShellEcho
            BY <3>1 DEF ShellEcho
        <3>7. ExitsWake
            <4>1. \A p \in Tasks : at[p] # "blocked"
                BY <3>1
            <4>. QED
                BY <4>1 DEF ExitsWake
        <3>. QED
            BY <3>4, <3>5, <3>6, <3>7 DEF ShellInv
    <2>. QED
        BY <2>1
<1>2. ShellInv /\ [ShellNext]_shellVars => ShellInv'
    <2>1. ASSUME ShellInv, UNCHANGED shellVars
          PROVE  ShellInv'
        BY <2>1 DEF ShellInv, ShellTyped, ShellHolds, ShellOwns, ShellKids, ShellEcho, ExitsWake,
           Zombies, Children, shellVars
    <2>2. ASSUME ShellInv, NEW p \in Slots, Works(p) \/ read_line(p)
          PROVE  ShellInv'
        BY <2>2, StartSteps, LineSteps, EchoEnds, ListSteps, LessStartSteps, LessSteps, CopySteps,
           FindSteps, ProgramSteps, RunStep, WaitStep, BlockStep DEF Works, Tasks
    <2>3. ASSUME ShellInv, FirstWorks
          PROVE  ShellInv'
        BY <2>3, FirstForks, FirstWaits, BlockStep DEF FirstWorks, Tasks
    <2>. QED
        BY <2>1, <2>2, <2>3 DEF ShellNext
<1>. QED
    BY <1>1, <1>2, PTL DEF ShellSpec

\* The exits never forget a parent that is blocked: a wait is only lost when the
\* child exits between the scan and the block.
THEOREM ShellExitsWake == ShellSpec => []ExitsWake
<1>1. ShellInv => ExitsWake
    BY DEF ShellInv
<1>. QED
    BY <1>1, ShellInvariant, PTL

\* Whatever the commands have done and however they have failed, a shell is at its
\* prompt as it was the first time.
THEOREM ShellAtRest == ShellSpec => []AtRest
<1>1. ShellInv => AtRest
    <2>1. ASSUME ShellInv
          PROVE  AtRest
        <3>1. ShellTypeOK
            BY <2>1 DEF ShellInv, ShellTyped, ShellTypeOK, Images
        <3>3. NoOrphans
            <4>1. \A p \in Shells({"prompt", "quit", "child", "program", "program_read"}) :
                      p \in Slots /\ at[p] \notin WaitPlaces
                BY DEF Shells, WaitPlaces
            <4>. QED
                BY <2>1, <4>1, NoChildren DEF NoOrphans
        <3>2. ASSUME NEW p \in Shells({"prompt"})
              PROVE  /\ image[p].fds = 0 .. 2 /\ image[p].heap = 0 /\ echo[image[p].tty]
                     /\ image[p].optind = "first"
            <4>1. p \in Slots /\ at[p] = "prompt" /\ at[p] \in ShellPlaces
                BY PlacesOfShells DEF Shells
            <4>2. Holds("prompt", image[p]) /\ image[p] \in Images
                BY <2>1, <4>1, ShellFacts
            <4>3. image[p].fds = 0 .. 2 /\ image[p].heap = 0 /\ image[p].optind = "first"
                BY <4>2 DEF Holds, OpenPlaces, LessPlaces, Tidy, OpenFiles
            <4>4. PICK i \in 1 .. started : image[p].tty = Ttys[i]
                BY <2>1, <4>1 DEF ShellInv, ShellOwns
            <4>5. image[p].tty \in Terminals
                BY <2>1, <4>4, TtysTyped DEF ShellInv, ShellTyped
            <4>6. echo[image[p].tty]
                BY <2>1, <4>1, <4>5, SilentShell DEF QuietPlaces
            <4>. QED
                BY <4>3, <4>6
        <3>. QED
            BY <3>1, <3>2, <3>3 DEF AtRest
    <2>. QED
        BY <2>1
<1>. QED
    BY <1>1, ShellInvariant, PTL

\* No terminal has two readers: two shells have two terminals, and a shell that has
\* a program running is not one of them.
THEOREM ShellOneReader == ShellSpec => []OneReader
<1>1. ShellInv => OneReader
    <2>1. ASSUME ShellInv, NEW t \in Terminals
          PROVE  Cardinality({p \in Shells({"prompt", "echo_read", "less_key", "program_read"}) :
                                 image[p].tty = t}) <= 1
        <3>. DEFINE Readers == {p \in Shells({"prompt", "echo_read", "less_key", "program_read"}) :
                                   image[p].tty = t}
        <3>1. ASSUME NEW p \in Readers, NEW q \in Readers
              PROVE  p = q
            <4>1. /\ p \in Slots /\ q \in Slots /\ image[p].tty = t /\ image[q].tty = t
                  /\ at[p] \notin WaitPlaces /\ at[q] \notin WaitPlaces
                  /\ at[p] \in ShellPlaces \cup ChildPlaces /\ at[q] \in ShellPlaces \cup ChildPlaces
                BY PlacesOfShells DEF Shells, QuietPlaces, ChildPlaces
            <4>2. ASSUME NEW c \in {p, q}, at[c] \in ChildPlaces
                  PROVE  /\ parent[c] \in Slots /\ at[parent[c]] \in WaitPlaces
                         /\ image[parent[c]].tty = t /\ at[parent[c]] \in ShellPlaces
                BY <2>1, <4>1, <4>2, PlacesOfShells DEF ShellInv, ShellKids
            <4>3. CASE at[p] \in ShellPlaces /\ at[q] \in ShellPlaces
                BY <2>1, <4>1, <4>3 DEF ShellInv, ShellOwns
            <4>4. CASE at[p] \in ChildPlaces /\ at[q] \in ChildPlaces
                <5>1. parent[p] \in Slots /\ parent[p] = parent[q]
                    BY <2>1, <4>2, <4>4 DEF ShellInv, ShellOwns
                <5>. QED
                    BY <2>1, <4>1, <5>1 DEF ShellInv, ShellKids
            <4>5. CASE at[p] \in ShellPlaces /\ at[q] \in ChildPlaces
                BY <2>1, <4>1, <4>2, <4>5 DEF ShellInv, ShellOwns
            <4>6. CASE at[p] \in ChildPlaces /\ at[q] \in ShellPlaces
                BY <2>1, <4>1, <4>2, <4>6 DEF ShellInv, ShellOwns
            <4>. QED
                BY <4>1, <4>3, <4>4, <4>5, <4>6
        <3>. HIDE DEF Readers
        <3>2. CASE Readers = {}
            BY <3>2, FS_EmptySet DEF Readers
        <3>3. ASSUME NEW p \in Readers
              PROVE  Cardinality(Readers) <= 1
            <4>1. Readers = {p}
                BY <3>1, <3>3
            <4>2. Cardinality({p}) = 1
                BY FS_Singleton
            <4>. QED
                BY <4>1, <4>2
        <3>. QED
            BY <3>2, <3>3 DEF Readers
    <2>. QED
        BY <2>1 DEF OneReader
<1>. QED
    BY <1>1, ShellInvariant, PTL

(***************************************************************************)
(* The consoles.  Their windows are ranges of one display memory: the      *)
(* arithmetic of places shows that what is done in a window stays in it.   *)
(***************************************************************************)
Rows == 0 .. ROWS - 1
Cols == 0 .. COLS - 1
Place(c, r, k) == c * CELLS + r * COLS + k
Displays == [DOMAIN Boot -> Characters]
ParamRange == 0 .. ESC_PARAM_MAX - 1

ConsoleRecords ==
    [base : Int, row : Int, col : Int, old_row : Int, old_col : Int,
     esc_param : [ParamRange -> Nat], curr_param_index : Nat,
     write_state : {"NORMAL", "ESC", "SQUARE"}]

States == [con : ConsoleRecords, disp : Displays]

IsState(c, s) == s \in States /\ s.con.base = c * CELLS

\* What a console keeps between two bytes.
Settled(con) ==
    /\ con.row \in Rows /\ con.col \in Cols /\ con.old_row \in Rows /\ con.old_col \in Cols
    /\ con.curr_param_index \in 0 .. ESC_PARAM_MAX + 1
    /\ con.write_state = "SQUARE" => con.curr_param_index <= ESC_PARAM_MAX

ConsoleInv ==
    /\ console \in [Consoles -> ConsoleRecords]
    /\ \A c \in Consoles : console[c].base \in {-1, c * CELLS} /\ Settled(console[c])
    /\ \A c \in Consoles : console[c].base = -1 => ofifo[c] = <<>>
    /\ ofifo = [c \in Consoles |-> ofifo[c]]
    /\ disp \in Displays
    /\ curr_console_index \in Consoles

-----------------------------------------------------------------------------
(* Places. *)

LEMMA Times1 ==
    ASSUME NEW a \in Nat, NEW b \in Nat, NEW n \in Nat, a < b
    PROVE  a * n \in Nat /\ b * n \in Nat /\ a * n + n <= b * n
<1>1. PICK e \in Nat : b = a + 1 + e
    <2>1. b - (a + 1) \in Nat
        OBVIOUS
    <2>. QED
        BY <2>1
<1>2. b * n = a * n + n + e * n
    BY <1>1
<1>3. a * n \in Nat /\ e * n \in Nat
    OBVIOUS
<1>. QED
    BY <1>2, <1>3

LEMMA Sizes ==
    /\ CELLS \in Nat /\ CELLS >= 1 /\ COLS \in Nat /\ COLS >= 1 /\ ROWS \in Nat /\ ROWS >= 1
    /\ COLS <= CELLS /\ (ROWS - 1) * COLS = CELLS - COLS
    /\ COLS * (ROWS - 1) = CELLS - COLS /\ COLS * (ROWS - 1 + 1) = CELLS /\ COLS * 0 = 0
    /\ CONSOLE_NR \in Nat /\ CONSOLE_NR * ROWS * COLS = CONSOLE_NR * CELLS
    /\ DOMAIN Boot = 0 .. CONSOLE_NR * CELLS - 1
<1>1. /\ CONSOLE_NR \in Nat /\ COLS \in Nat /\ ROWS \in Nat
      /\ CONSOLE_NR >= 1 /\ COLS >= 1 /\ ROWS >= 1
    <2>1. CONSOLE_NR \in Nat \ {0} /\ COLS \in Nat \ {0} /\ ROWS \in Nat \ {0}
        BY ConsoleAssumption, Zenon
    <2>. QED
        BY <2>1
<1>2. CELLS = ROWS * COLS
    BY DEF CELLS
<1>3. PICK m \in Nat : ROWS = m + 1
    <2>1. ROWS - 1 \in Nat
        BY <1>1
    <2>. QED
        BY <1>1, <2>1
<1>4. ROWS * COLS = m * COLS + COLS /\ m * COLS \in Nat
    BY <1>1, <1>3
<1>5. COLS * m = m * COLS /\ COLS * (m + 1) = COLS * m + COLS
    BY <1>1
<1>6. CELLS \in Nat /\ CELLS >= 1 /\ COLS <= CELLS /\ m * COLS = CELLS - COLS
    BY <1>1, <1>2, <1>4
<1>7. ROWS - 1 = m /\ ROWS - 1 + 1 = m + 1
    BY <1>3
<1>8. (ROWS - 1) * COLS = CELLS - COLS /\ COLS * (ROWS - 1) = CELLS - COLS
      /\ COLS * (ROWS - 1 + 1) = CELLS /\ COLS * 0 = 0
    BY <1>1, <1>5, <1>6, <1>7
<1>9. CONSOLE_NR * ROWS * COLS = CONSOLE_NR * CELLS
    BY <1>1, <1>2
<1>10. DOMAIN Boot = 0 .. CONSOLE_NR * ROWS * COLS - 1
    BY ConsoleAssumption
<1>. QED
    BY <1>1, <1>6, <1>8, <1>9, <1>10

\* A place lies in its window, which lies in the display memory.
LEMMA PlaceRange ==
    ASSUME NEW c \in Consoles, NEW r \in Rows, NEW k \in Cols
    PROVE  /\ c * CELLS \in Nat /\ r * COLS \in Nat /\ r * COLS + COLS <= CELLS
           /\ Place(c, r, k) \in c * CELLS .. c * CELLS + CELLS - 1
           /\ Place(c, r, k) \in DOMAIN Boot
<1>1. c \in Nat /\ c < CONSOLE_NR /\ r \in Nat /\ r < ROWS /\ k \in Nat /\ k < COLS
    BY Sizes DEF Consoles, Rows, Cols
<1>2. r * COLS \in Nat /\ r * COLS + COLS <= CELLS
    BY <1>1, Times1, Sizes DEF CELLS
<1>3. c * CELLS \in Nat /\ c * CELLS + CELLS <= CONSOLE_NR * CELLS /\ CONSOLE_NR * CELLS \in Nat
    BY <1>1, Times1, Sizes
<1>. HIDE DEF CELLS
<1>4. PICK a \in Nat, b \in Nat, n \in Nat : a = c * CELLS /\ b = r * COLS /\ n = CONSOLE_NR * CELLS
    BY <1>2, <1>3
<1>5. /\ a + b + k \in a .. a + CELLS - 1 /\ a + b + k \in 0 .. n - 1
    BY <1>1, <1>2, <1>3, <1>4, Sizes
<1>. QED
    BY <1>2, <1>3, <1>4, <1>5, Sizes DEF Place

\* Windows do not overlap.
LEMMA WindowsApart ==
    ASSUME NEW c \in Consoles, NEW e \in Consoles, c # e,
           NEW i \in c * CELLS .. c * CELLS + CELLS - 1
    PROVE  i \notin e * CELLS .. e * CELLS + CELLS - 1
<1>1. c \in Nat /\ e \in Nat /\ (c < e \/ e < c)
    BY DEF Consoles
<1>2. CASE c < e
    <2>1. c * CELLS \in Nat /\ e * CELLS \in Nat /\ c * CELLS + CELLS <= e * CELLS
        BY <1>1, <1>2, Times1, Sizes
    <2>. QED
        BY <2>1, Sizes
<1>3. CASE e < c
    <2>1. c * CELLS \in Nat /\ e * CELLS \in Nat /\ e * CELLS + CELLS <= c * CELLS
        BY <1>1, <1>3, Times1, Sizes
    <2>. QED
        BY <2>1, Sizes
<1>. QED
    BY <1>1, <1>2, <1>3

\* A row and a column have a place of their own.
LEMMA PlacesApart ==
    ASSUME NEW c \in Consoles, NEW r \in Rows, NEW k \in Cols, NEW q \in Rows, NEW j \in Cols,
           Place(c, r, k) = Place(c, q, j)
    PROVE  r = q /\ k = j
<1>1. r \in Nat /\ q \in Nat /\ k \in Nat /\ k < COLS /\ j \in Nat /\ j < COLS
    BY Sizes DEF Rows, Cols
<1>2. c * CELLS \in Nat /\ r * COLS \in Nat /\ q * COLS \in Nat
    BY PlaceRange
<1>3. r * COLS + k = q * COLS + j
    BY <1>1, <1>2 DEF Place
<1>4. ~(r < q)
    <2>1. ASSUME r < q PROVE FALSE
        <3>1. r * COLS + COLS <= q * COLS
            BY <1>1, <2>1, Times1, Sizes
        <3>. QED
            BY <1>1, <1>2, <1>3, <3>1, Sizes
    <2>. QED
        BY <2>1
<1>5. ~(q < r)
    <2>1. ASSUME q < r PROVE FALSE
        <3>1. q * COLS + COLS <= r * COLS
            BY <1>1, <2>1, Times1, Sizes
        <3>. QED
            BY <1>1, <1>2, <1>3, <3>1, Sizes
    <2>. QED
        BY <2>1
<1>. QED
    BY <1>1, <1>2, <1>3, <1>4, <1>5

\* The rows above the last are the ones that scroll, and the last is what is erased.
LEMMA PlaceOfRow ==
    ASSUME NEW c \in Consoles, NEW r \in Rows, NEW k \in Cols
    PROVE  /\ r < ROWS - 1 =>
                /\ r + 1 \in Rows /\ Place(c, r, k) + COLS = Place(c, r + 1, k)
                /\ Place(c, r, k) \in c * CELLS .. c * CELLS + CELLS - COLS - 1
                /\ Place(c, r, k) \notin c * CELLS + COLS * (ROWS - 1) .. c * CELLS + COLS * (ROWS - 1 + 1) - 1
           /\ ~(r < ROWS - 1) =>
                /\ Place(c, r, k) \notin c * CELLS .. c * CELLS + CELLS - COLS - 1
                /\ Place(c, r, k) \in c * CELLS + COLS * (ROWS - 1) .. c * CELLS + COLS * (ROWS - 1 + 1) - 1
<1>1. r \in Nat /\ r < ROWS /\ k \in Nat /\ k < COLS
    BY Sizes DEF Rows, Cols
<1>2. c * CELLS \in Nat /\ r * COLS \in Nat /\ Place(c, r, k) = c * CELLS + r * COLS + k
    BY PlaceRange DEF Place
<1>3. CASE r < ROWS - 1
    <2>1. r + 1 \in Rows /\ r + 1 \in Nat /\ r + 1 < ROWS
        BY <1>1, <1>3, Sizes DEF Rows
    <2>2. (r + 1) * COLS = r * COLS + COLS
        BY <1>1, Sizes
    <2>3. (r + 1) * COLS + COLS <= CELLS
        BY <2>1, PlaceRange
    <2>4. Place(c, r, k) + COLS = Place(c, r + 1, k)
        BY <1>1, <1>2, <2>2, Sizes DEF Place
    <2>5. PICK a \in Nat, b \in Nat : a = c * CELLS /\ b = r * COLS
        BY <1>2
    <2>6. b + COLS + COLS <= CELLS
        BY <2>2, <2>3, <2>5
    <2>7. /\ a + b + k \in a .. a + CELLS - COLS - 1
          /\ a + b + k \notin a + (CELLS - COLS) .. a + CELLS - 1
        BY <1>1, <2>6, Sizes
    <2>8. Place(c, r, k) \in c * CELLS .. c * CELLS + CELLS - COLS - 1
        BY <1>2, <2>5, <2>7
    <2>9. Place(c, r, k) \notin c * CELLS + COLS * (ROWS - 1) .. c * CELLS + COLS * (ROWS - 1 + 1) - 1
        BY <1>2, <2>5, <2>7, Sizes
    <2>. QED
        BY <1>3, <2>1, <2>4, <2>8, <2>9
<1>4. CASE ~(r < ROWS - 1)
    <2>1. r = ROWS - 1
        BY <1>1, <1>4, Sizes
    <2>2. r * COLS = CELLS - COLS
        BY <2>1, Sizes
    <2>3. PICK a \in Nat : a = c * CELLS
        BY <1>2
    <2>4. /\ a + (CELLS - COLS) + k \notin a .. a + CELLS - COLS - 1
          /\ a + (CELLS - COLS) + k \in a + (CELLS - COLS) .. a + CELLS - 1
        BY <1>1, Sizes
    <2>. QED
        BY <1>2, <1>4, <2>2, <2>3, <2>4, Sizes
<1>. QED
    BY <1>3, <1>4

-----------------------------------------------------------------------------
(* What the operations do to the windows. *)

BlankRow == [k \in Cols |-> Space]
Blanks == [r \in Rows |-> BlankRow]
Scrolled(w) == [r \in Rows |-> IF r < ROWS - 1 THEN w[r + 1] ELSE BlankRow]
Put(w, r, k, ch) == [w EXCEPT ![r][k] = ch]
View(c, s) == Window(c, s.disp)
Moved(x, r, k) == [x EXCEPT !.row = r, !.col = k]

\* The operation that leads from s to t: console c shows w, its cursor is at row and
\* col, and nothing else has changed.
Result(c, s, t, w, row, col) ==
    /\ IsState(c, t)
    /\ t.con = Moved(s.con, row, col)
    /\ View(c, t) = w
    /\ \A e \in Consoles \ {c} : View(e, t) = View(e, s)

LEMMA WindowAt ==
    ASSUME NEW c \in Consoles, NEW d
    PROVE  Window(c, d) = [r \in Rows |-> [k \in Cols |-> d[Place(c, r, k)]]]
    BY DEF Window, Rows, Cols, Place

\* What changes in one window leaves the others alone.
LEMMA OthersSame ==
    ASSUME NEW c \in Consoles, NEW d, NEW f,
           \A i \in DOMAIN Boot : i \notin c * CELLS .. c * CELLS + CELLS - 1 => f[i] = d[i]
    PROVE  \A e \in Consoles \ {c} : Window(e, f) = Window(e, d)
<1>1. ASSUME NEW e \in Consoles \ {c}, NEW r \in Rows, NEW k \in Cols
      PROVE  f[Place(e, r, k)] = d[Place(e, r, k)]
    BY PlaceRange, WindowsApart
<1>. QED
    BY <1>1, WindowAt

LEMMA Blank1 == Space \in Characters
    BY ConsoleAssumption DEF Characters

LEMMA MovedIs ==
    ASSUME NEW x \in ConsoleRecords, NEW r \in Int, NEW k \in Int
    PROVE  /\ Moved(x, r, k) \in ConsoleRecords /\ Moved(x, r, k).base = x.base
           /\ Moved(x, r, k).row = r /\ Moved(x, r, k).col = k
    BY DEF ConsoleRecords, Moved

LEMMA RecordMoves ==
    ASSUME NEW x \in ConsoleRecords, NEW r \in Int, NEW k \in Int
    PROVE  /\ [x EXCEPT !.row = r] = Moved(x, r, x.col)
           /\ [x EXCEPT !.col = k] = Moved(x, x.row, k)
           /\ [x EXCEPT !.row = r, !.col = k] = Moved(x, r, k)
    BY DEF ConsoleRecords, Moved

LEMMA RecordStays ==
    ASSUME NEW x \in ConsoleRecords
    PROVE  x = Moved(x, x.row, x.col) /\ x.row \in Int /\ x.col \in Int
    BY DEF ConsoleRecords, Moved

LEMMA StateFields ==
    ASSUME NEW c, NEW s, IsState(c, s)
    PROVE  /\ s.con \in ConsoleRecords /\ s.disp \in Displays /\ s.con.base = c * CELLS
           /\ s = [con |-> s.con, disp |-> s.disp]
           /\ s.con.row \in Int /\ s.con.col \in Int
<1>1. s.con \in ConsoleRecords /\ s.disp \in Displays /\ s = [con |-> s.con, disp |-> s.disp]
    BY DEF IsState, States
<1>. QED
    BY <1>1, RecordStays DEF IsState

LEMMA Moves ==
    ASSUME NEW c \in Consoles, NEW s, IsState(c, s), NEW row \in Int, NEW col \in Int
    PROVE  /\ Result(c, s, [s EXCEPT !.con.row = row, !.con.col = col], View(c, s), row, col)
           /\ Result(c, s, [s EXCEPT !.con.col = col, !.con.row = row], View(c, s), row, col)
           /\ Result(c, s, [s EXCEPT !.con.row = row], View(c, s), row, s.con.col)
           /\ Result(c, s, [s EXCEPT !.con.col = col], View(c, s), s.con.row, col)
           /\ Result(c, s, s, View(c, s), s.con.row, s.con.col)
<1>1. ASSUME NEW r \in Int, NEW k \in Int, NEW t, t = [con |-> Moved(s.con, r, k), disp |-> s.disp]
      PROVE  Result(c, s, t, View(c, s), r, k)
    <2>1. t.con = Moved(s.con, r, k) /\ t.disp = s.disp
        BY <1>1
    <2>2. t.con \in ConsoleRecords /\ t.con.base = c * CELLS
        <3>1. s.con \in ConsoleRecords /\ s.con.base = c * CELLS
            BY StateFields
        <3>2. Moved(s.con, r, k) \in ConsoleRecords /\ Moved(s.con, r, k).base = s.con.base
            BY <3>1, MovedIs
        <3>. QED
            BY <2>1, <3>1, <3>2
    <2>3. IsState(c, t)
        BY <1>1, <2>1, <2>2, StateFields DEF IsState, States
    <2>. QED
        BY <2>1, <2>3 DEF Result, View
<1>2. PICK x \in ConsoleRecords, d \in Displays : s = [con |-> x, disp |-> d] /\ s.con = x /\ s.disp = d
    BY StateFields
<1>3. /\ [s EXCEPT !.con.row = row] = [con |-> Moved(x, row, x.col), disp |-> d]
      /\ [s EXCEPT !.con.col = col] = [con |-> Moved(x, x.row, col), disp |-> d]
      /\ s = [con |-> Moved(x, x.row, x.col), disp |-> d]
    <2>1. [s EXCEPT !.con.row = row] = [con |-> [x EXCEPT !.row = row], disp |-> d]
        BY <1>2
    <2>2. [s EXCEPT !.con.col = col] = [con |-> [x EXCEPT !.col = col], disp |-> d]
        BY <1>2
    <2>. QED
        BY <1>2, <2>1, <2>2, RecordMoves, RecordStays
<1>4. [s EXCEPT !.con.row = row, !.con.col = col] = [con |-> Moved(x, row, col), disp |-> d]
    <2>1. PICK y : y = [x EXCEPT !.row = row]
        OBVIOUS
    <2>2. PICK v : v = [con |-> y, disp |-> d]
        OBVIOUS
    <2>3. [s EXCEPT !.con.row = row] = v
        BY <1>2, <2>1, <2>2
    <2>4. [s EXCEPT !.con.row = row, !.con.col = col] = [v EXCEPT !.con.col = col]
        BY <2>3
    <2>5. [v EXCEPT !.con.col = col] = [con |-> [y EXCEPT !.col = col], disp |-> d]
        BY <2>2
    <2>6. [y EXCEPT !.col = col] = Moved(x, row, col)
        BY <2>1 DEF Moved
    <2>. QED
        BY <2>4, <2>5, <2>6
<1>5. [s EXCEPT !.con.col = col, !.con.row = row] = [con |-> Moved(x, row, col), disp |-> d]
    <2>1. PICK y : y = [x EXCEPT !.col = col]
        OBVIOUS
    <2>2. PICK v : v = [con |-> y, disp |-> d]
        OBVIOUS
    <2>3. [s EXCEPT !.con.col = col] = v
        BY <1>2, <2>1, <2>2
    <2>4. [s EXCEPT !.con.col = col, !.con.row = row] = [v EXCEPT !.con.row = row]
        BY <2>3
    <2>5. [v EXCEPT !.con.row = row] = [con |-> [y EXCEPT !.row = row], disp |-> d]
        BY <2>2
    <2>6. [y EXCEPT !.row = row] = Moved(x, row, col)
        BY <2>1, ZenonT(40) DEF Moved, ConsoleRecords
    <2>. QED
        BY <2>4, <2>5, <2>6
<1>6. x.row \in Int /\ x.col \in Int
    BY RecordStays
<1>. QED
    BY <1>1, <1>2, <1>3, <1>4, <1>5, <1>6

\* The same, for the state t that is behind the move.
LEMMA MovesTo ==
    ASSUME NEW c \in Consoles, NEW s, IsState(c, s), NEW row \in Int, NEW col \in Int, NEW t,
           \/ t = [s EXCEPT !.con.row = row, !.con.col = col]
           \/ t = [s EXCEPT !.con.col = col, !.con.row = row]
    PROVE  Result(c, s, t, View(c, s), row, col)
<1>1. CASE t = [s EXCEPT !.con.row = row, !.con.col = col]
    BY <1>1, Moves
<1>2. CASE t = [s EXCEPT !.con.col = col, !.con.row = row]
    BY <1>2, Moves, ZenonT(40)
<1>. QED
    BY <1>1, <1>2, SMTT(30)

LEMMA MovesRow ==
    ASSUME NEW c \in Consoles, NEW s, IsState(c, s), NEW row \in Int, NEW t,
           t = [s EXCEPT !.con.row = row]
    PROVE  Result(c, s, t, View(c, s), row, s.con.col)
<1>1. 0 \in Int
    BY SMTT(30)
<1>. QED
    BY <1>1, Moves

LEMMA MovesCol ==
    ASSUME NEW c \in Consoles, NEW s, IsState(c, s), NEW col \in Int, NEW t,
           t = [s EXCEPT !.con.col = col]
    PROVE  Result(c, s, t, View(c, s), s.con.row, col)
<1>1. 0 \in Int
    OBVIOUS
<1>. QED
    BY <1>1, Moves

LEMMA Lands ==
    ASSUME NEW c, NEW s, IsState(c, s), NEW t, NEW w, NEW row \in Int, NEW col \in Int,
           Result(c, s, t, w, row, col)
    PROVE  IsState(c, t) /\ t.con.row = row /\ t.con.col = col /\ View(c, t) = w
<1>1. IsState(c, t) /\ View(c, t) = w /\ t.con = Moved(s.con, row, col)
    BY DEF Result
<1>2. s.con \in ConsoleRecords
    BY StateFields
<1>3. Moved(s.con, row, col).row = row /\ Moved(s.con, row, col).col = col
    BY <1>2, MovedIs
<1>. QED
    BY <1>1, <1>3

\* One operation after another.
LEMMA Then ==
    ASSUME NEW c, NEW s, NEW t, NEW v, NEW w1, NEW r1, NEW k1, NEW w2, NEW r2, NEW k2,
           IsState(c, s), Result(c, s, t, w1, r1, k1), Result(c, t, v, w2, r2, k2)
    PROVE  Result(c, s, v, w2, r2, k2)
<1>1. v.con = Moved(s.con, r2, k2)
    <2>1. v.con = Moved(Moved(s.con, r1, k1), r2, k2)
        BY DEF Result
    <2>2. s.con \in ConsoleRecords
        BY StateFields
    <2>3. Moved(Moved(s.con, r1, k1), r2, k2) = Moved(s.con, r2, k2)
        BY <2>2 DEF Moved, ConsoleRecords
    <2>. QED
        BY <2>1, <2>3
<1>. QED
    BY <1>1 DEF Result

\* A display put in the place of the other.
LEMMA Redrawn ==
    ASSUME NEW c \in Consoles, NEW s, IsState(c, s), NEW d \in Displays, NEW t,
           t = [con |-> s.con, disp |-> d],
           \A i \in DOMAIN Boot : i \notin c * CELLS .. c * CELLS + CELLS - 1 => d[i] = s.disp[i]
    PROVE  Result(c, s, t, Window(c, d), s.con.row, s.con.col)
<1>1. IsState(c, t) /\ t.con = s.con /\ t.disp = d
    BY StateFields DEF IsState, States
<1>2. s.con = Moved(s.con, s.con.row, s.con.col)
    BY StateFields, RecordStays
<1>3. \A e \in Consoles \ {c} : Window(e, d) = Window(e, s.disp)
    BY OthersSame
<1>. QED
    BY <1>1, <1>2, <1>3 DEF Result, View

LEMMA PutsChar ==
    ASSUME NEW c \in Consoles, NEW s, IsState(c, s), s.con.row \in Rows, s.con.col \in Cols,
           NEW ch \in Characters
    PROVE  Result(c, s, [s EXCEPT !.disp[Cursor(s)] = ch],
                  Put(View(c, s), s.con.row, s.con.col, ch), s.con.row, s.con.col)
<1>1. PICK r \in Rows, k \in Cols : r = s.con.row /\ k = s.con.col
    OBVIOUS
<1>2. PICK p : p = Place(c, r, k)
    OBVIOUS
<1>3. Cursor(s) = p
    <2>1. c * CELLS \in Nat /\ r * COLS \in Nat /\ k \in Nat
        BY PlaceRange DEF Cols
    <2>. QED
        BY <1>1, <1>2, <2>1 DEF Cursor, Place, IsState
<1>4. p \in DOMAIN Boot /\ p \in c * CELLS .. c * CELLS + CELLS - 1
    BY <1>2, PlaceRange
<1>5. PICK d : d = [s.disp EXCEPT ![p] = ch]
    OBVIOUS
<1>6. /\ d \in Displays /\ d[p] = ch /\ \A i \in DOMAIN Boot : i # p => d[i] = s.disp[i]
      /\ [s EXCEPT !.disp[Cursor(s)] = ch] = [con |-> s.con, disp |-> d]
    <2>1. PICK x \in ConsoleRecords, f \in Displays : s = [con |-> x, disp |-> f] /\ s.con = x /\ s.disp = f
        BY StateFields
    <2>2. [s EXCEPT !.disp[p] = ch] = [con |-> x, disp |-> [f EXCEPT ![p] = ch]]
        BY <2>1
    <2>3. d = [f EXCEPT ![p] = ch]
        BY <1>5, <2>1
    <2>4. d \in Displays /\ d[p] = ch /\ \A i \in DOMAIN Boot : i # p => d[i] = f[i]
        BY <1>4, <2>3 DEF Displays
    <2>. QED
        BY <1>3, <2>1, <2>2, <2>3, <2>4
<1>7. \A i \in DOMAIN Boot : i \notin c * CELLS .. c * CELLS + CELLS - 1 => d[i] = s.disp[i]
    BY <1>4, <1>6
<1>8. Window(c, d) = Put(View(c, s), r, k, ch)
    <2>1. ASSUME NEW q \in Rows, NEW j \in Cols
          PROVE  d[Place(c, q, j)] = IF q = r /\ j = k THEN ch ELSE s.disp[Place(c, q, j)]
        <3>1. CASE q = r /\ j = k
            BY <1>2, <1>6, <3>1
        <3>2. CASE ~(q = r /\ j = k)
            <4>1. Place(c, q, j) # p
                BY <1>2, <3>2, PlacesApart
            <4>. QED
                BY <1>6, <3>2, <4>1, PlaceRange
        <3>. QED
            BY <3>1, <3>2
    <2>2. Window(c, d) = [q \in Rows |-> [j \in Cols |->
              IF q = r /\ j = k THEN ch ELSE s.disp[Place(c, q, j)]]]
        BY <2>1, WindowAt
    <2>3. View(c, s) = [q \in Rows |-> [j \in Cols |-> s.disp[Place(c, q, j)]]]
        BY WindowAt DEF View
    <2>4. Put(View(c, s), r, k, ch) = [q \in Rows |-> [j \in Cols |->
              IF q = r /\ j = k THEN ch ELSE s.disp[Place(c, q, j)]]]
        <3>1. PICK w : w = View(c, s)
            OBVIOUS
        <3>2. /\ w = [q \in Rows |-> w[q]]
              /\ \A q \in Rows : w[q] = [j \in Cols |-> s.disp[Place(c, q, j)]]
            BY <2>3, <3>1
        <3>3. [w EXCEPT ![r][k] = ch] = [q \in Rows |-> IF q = r THEN [w[q] EXCEPT ![k] = ch] ELSE w[q]]
            BY <3>2
        <3>4. \A q \in Rows : (IF q = r THEN [w[q] EXCEPT ![k] = ch] ELSE w[q])
                  = [j \in Cols |-> IF q = r /\ j = k THEN ch ELSE s.disp[Place(c, q, j)]]
            BY <3>2
        <3>. QED
            BY <3>1, <3>3, <3>4 DEF Put
    <2>. QED
        BY <2>2, <2>4
<1>9. PICK t : t = [con |-> s.con, disp |-> d]
    OBVIOUS
<1>10. Result(c, s, t, Window(c, d), s.con.row, s.con.col)
    BY <1>6, <1>7, <1>9, Redrawn
<1>. QED
    BY <1>1, <1>6, <1>8, <1>9, <1>10

\* What erase_rows makes of a display.
Erased(d, lo, hi) == [i \in DOMAIN Boot |-> IF i \in lo .. hi THEN Space ELSE d[i]]
Drawn(x, d) == [con |-> x, disp |-> d]

LEMMA Erases ==
    ASSUME NEW c, NEW s, IsState(c, s), NEW first, NEW last, NEW lo, NEW hi,
           lo = s.con.base + COLS * first, hi = s.con.base + COLS * (last + 1) - 1
    PROVE  erase_rows(s, first, last) = Drawn(s.con, Erased(s.disp, lo, hi))
<1>1. PICK x \in ConsoleRecords, d \in Displays : s = [con |-> x, disp |-> d] /\ s.con = x /\ s.disp = d
    BY StateFields
<1>2. PICK f : f = [i \in DOMAIN s.disp |-> IF i \in lo .. hi THEN Space ELSE s.disp[i]]
    OBVIOUS
<1>3. erase_rows(s, first, last) = [s EXCEPT !.disp = f]
    BY <1>2 DEF erase_rows
<1>4. [s EXCEPT !.disp = f] = [con |-> x, disp |-> f]
    BY <1>1
<1>5. DOMAIN s.disp = DOMAIN Boot
    BY <1>1 DEF Displays
<1>. QED
    BY <1>1, <1>2, <1>3, <1>4, <1>5 DEF Erased, Drawn

\* The window is cleared.
LEMMA Clears ==
    ASSUME NEW c \in Consoles, NEW s, IsState(c, s)
    PROVE  Result(c, s, clear_display(s), Blanks, s.con.row, s.con.col)
<1>1. PICK lo, hi : lo = s.con.base + COLS * 0 /\ hi = s.con.base + COLS * (ROWS - 1 + 1) - 1
    OBVIOUS
<1>2. lo = c * CELLS /\ hi = c * CELLS + CELLS - 1
    <2>1. c * CELLS \in Nat
        BY Sizes DEF Consoles
    <2>. QED
        BY <1>1, <2>1, Sizes DEF IsState
<1>9. PICK d : d = Erased(s.disp, lo, hi)
    OBVIOUS
<1>3. d = [i \in DOMAIN Boot |-> IF i \in lo .. hi THEN Space ELSE s.disp[i]]
    BY <1>9 DEF Erased
<1>4. d \in Displays
    BY <1>3, Blank1, StateFields DEF Displays
<1>5. clear_display(s) = [con |-> s.con, disp |-> d]
    <2>1. PICK first, last : first = 0 /\ last = ROWS - 1
        OBVIOUS
    <2>2. lo = s.con.base + COLS * first /\ hi = s.con.base + COLS * (last + 1) - 1
        BY <1>1, <2>1
    <2>3. erase_rows(s, first, last) = Drawn(s.con, d)
        BY <1>9, <2>2, Erases
    <2>. QED
        BY <2>1, <2>3 DEF clear_display, Drawn
<1>6. \A i \in DOMAIN Boot : i \notin c * CELLS .. c * CELLS + CELLS - 1 => d[i] = s.disp[i]
    BY <1>2, <1>3
<1>7. \A r \in Rows, k \in Cols : d[Place(c, r, k)] = Space
    BY <1>2, <1>3, PlaceRange
<1>8. Window(c, d) = Blanks
    <2>1. \A r \in Rows : [k \in Cols |-> d[Place(c, r, k)]] = BlankRow
        BY <1>7 DEF BlankRow
    <2>. QED
        BY <2>1, WindowAt DEF Blanks
<1>. QED
    BY <1>4, <1>5, <1>6, <1>8, Redrawn

\* The rows move up and the last is blank.
LEMMA Scrolls ==
    ASSUME NEW c \in Consoles, NEW s, IsState(c, s)
    PROVE  Result(c, s, scroll_up(s), Scrolled(View(c, s)), s.con.row - 1, s.con.col)
<1>1. PICK lo, hi : /\ lo = c * CELLS + COLS * (ROWS - 1)
                    /\ hi = c * CELLS + COLS * (ROWS - 1 + 1) - 1
    OBVIOUS
<1>2. PICK f : f = [i \in DOMAIN Boot |->
              IF i \in c * CELLS .. c * CELLS + CELLS - COLS - 1 THEN s.disp[i + COLS] ELSE s.disp[i]]
    OBVIOUS
<1>19. PICK d : d = Erased(f, lo, hi)
    OBVIOUS
<1>3. d = [i \in DOMAIN Boot |-> IF i \in lo .. hi THEN Space ELSE f[i]]
    BY <1>19 DEF Erased
<1>4. DOMAIN s.disp = DOMAIN Boot /\ s.con.base = c * CELLS /\ s.disp \in Displays
    BY StateFields DEF Displays
<1>5. [s EXCEPT !.disp = [i \in DOMAIN s.disp |->
           IF i \in s.con.base .. s.con.base + CELLS - COLS - 1 THEN s.disp[i + COLS] ELSE s.disp[i]]]
        = [con |-> s.con, disp |-> f]
    BY <1>2, <1>4, StateFields
<1>6. PICK v : v = [con |-> s.con, disp |-> f]
    OBVIOUS
<1>10. \A i \in DOMAIN Boot : i \in c * CELLS .. c * CELLS + CELLS - COLS - 1 => i + COLS \in DOMAIN Boot
    <2>1. PICK a \in Nat, n \in Nat : a = c * CELLS /\ n = CONSOLE_NR * CELLS /\ a + CELLS <= n
        BY Times1, Sizes DEF Consoles
    <2>. QED
        BY <2>1, Sizes
<1>7. erase_rows(v, ROWS - 1, ROWS - 1) = [con |-> s.con, disp |-> d]
    <2>1. f \in Displays
        BY <1>2, <1>4, <1>10 DEF Displays
    <2>2. IsState(c, v) /\ v.con = s.con /\ v.disp = f
        BY <1>6, <2>1, StateFields DEF IsState, States
    <2>3. PICK first, last : first = ROWS - 1 /\ last = ROWS - 1
        OBVIOUS
    <2>4. lo = v.con.base + COLS * first /\ hi = v.con.base + COLS * (last + 1) - 1
        BY <1>1, <1>4, <2>2, <2>3
    <2>5. erase_rows(v, first, last) = Drawn(v.con, Erased(v.disp, lo, hi))
        BY <2>2, <2>4, Erases
    <2>. QED
        BY <1>19, <2>2, <2>3, <2>5 DEF Drawn
<1>8. PICK t : t = [con |-> s.con, disp |-> d]
    OBVIOUS
<1>9. scroll_up(s) = [t EXCEPT !.con.row = s.con.row - 1]
    BY <1>5, <1>6, <1>7, <1>8 DEF scroll_up
<1>11. d \in Displays
    BY <1>2, <1>3, <1>4, <1>10, Blank1 DEF Displays
<1>12. \A i \in DOMAIN Boot : i \notin c * CELLS .. c * CELLS + CELLS - 1 => d[i] = s.disp[i]
    <2>1. PICK a \in Nat : a = c * CELLS
        BY Sizes DEF Consoles
    <2>2. lo = a + (CELLS - COLS) /\ hi = a + CELLS - 1
        BY <1>1, <2>1, Sizes
    <2>3. ASSUME NEW i \in DOMAIN Boot, i \notin a .. a + CELLS - 1
          PROVE  i \notin a + (CELLS - COLS) .. a + CELLS - 1 /\ i \notin a .. a + CELLS - COLS - 1
        BY <2>3, Sizes
    <2>. QED
        BY <1>2, <1>3, <2>1, <2>2, <2>3
<1>13. Window(c, d) = Scrolled(View(c, s))
    <2>1. ASSUME NEW r \in Rows, NEW k \in Cols
          PROVE  d[Place(c, r, k)] = IF r < ROWS - 1 THEN s.disp[Place(c, r + 1, k)] ELSE Space
        BY <1>1, <1>2, <1>3, PlaceRange, PlaceOfRow
    <2>2. PICK w : w = View(c, s)
        OBVIOUS
    <2>3. w = [r \in Rows |-> [k \in Cols |-> s.disp[Place(c, r, k)]]]
        BY <2>2, WindowAt DEF View
    <2>4. ASSUME NEW r \in Rows
          PROVE  [k \in Cols |-> d[Place(c, r, k)]] = IF r < ROWS - 1 THEN w[r + 1] ELSE BlankRow
        <3>1. CASE r < ROWS - 1
            <4>1. r + 1 \in Rows
                BY <3>1, Sizes DEF Rows
            <4>2. w[r + 1] = [k \in Cols |-> s.disp[Place(c, r + 1, k)]]
                BY <2>3, <4>1
            <4>. QED
                BY <2>1, <3>1, <4>2
        <3>2. CASE ~(r < ROWS - 1)
            BY <2>1, <3>2 DEF BlankRow
        <3>. QED
            BY <3>1, <3>2
    <2>. QED
        BY <2>2, <2>4, WindowAt DEF Scrolled
<1>14. Result(c, s, t, Scrolled(View(c, s)), s.con.row, s.con.col)
    BY <1>8, <1>11, <1>12, <1>13, Redrawn
<1>15. /\ IsState(c, t) /\ s.con.row - 1 \in Int /\ t.con.col = s.con.col
       /\ View(c, t) = Scrolled(View(c, s))
    BY <1>8, <1>14, StateFields DEF Result
<1>16. PICK v2 : v2 = [t EXCEPT !.con.row = s.con.row - 1]
    OBVIOUS
<1>17. Result(c, t, v2, View(c, t), s.con.row - 1, t.con.col)
    BY <1>15, <1>16, Moves
<1>18. Result(c, s, v2, View(c, t), s.con.row - 1, t.con.col)
    BY <1>14, <1>17, Then
<1>. QED
    BY <1>9, <1>15, <1>16, <1>18

LEMMA Forward ==
    ASSUME NEW c \in Consoles, NEW s, IsState(c, s), s.con.row \in Rows, s.con.col \in Cols,
           ~(s.con.row = ROWS - 1 /\ s.con.col = COLS - 1)
    PROVE  /\ s.con.col < COLS - 1 =>
                Result(c, s, move_forward(s), View(c, s), s.con.row, s.con.col + 1)
           /\ ~(s.con.col < COLS - 1) =>
                /\ s.con.row + 1 \in Rows
                /\ Result(c, s, move_forward(s), View(c, s), s.con.row + 1, 0)
<1>1. PICK r \in Rows, k \in Cols : r = s.con.row /\ k = s.con.col
    OBVIOUS
<1>2. r \in Nat /\ r < ROWS /\ k \in Nat /\ k < COLS
    BY Sizes DEF Rows, Cols
<1>3. CASE k < COLS - 1
    <2>1. k + 1 < COLS
        BY <1>2, <1>3, Sizes
    <2>2. PICK t : t = [s EXCEPT !.con.col = @ + 1]
        OBVIOUS
    <2>3. move_forward(s) = t
        BY <1>1, <2>1, <2>2 DEF move_forward
    <2>6. t = [s EXCEPT !.con.col = k + 1]
        BY <1>1, <2>2
    <2>4. k + 1 \in Int
        BY <1>2
    <2>5. Result(c, s, t, View(c, s), s.con.row, k + 1)
        BY <2>4, <2>6, MovesCol
    <2>. QED
        BY <1>1, <1>3, <2>3, <2>5
<1>4. CASE ~(k < COLS - 1)
    <2>1. ~(k + 1 < COLS) /\ k = COLS - 1 /\ r + 1 \in Rows /\ r + 1 \in Int
        BY <1>1, <1>2, <1>4, Sizes DEF Rows
    <2>2. ~(r + 1 >= COLS)
        <3>1. ROWS \in Nat /\ COLS \in Nat /\ ROWS < COLS
            BY Sizes, ConsoleAssumption, Zenon
        <3>. QED
            BY <1>2, <2>1, <3>1 DEF Rows
    <2>3. PICK t : t = [s EXCEPT !.con.col = 0, !.con.row = r + 1]
        OBVIOUS
    <2>4. Result(c, s, t, View(c, s), r + 1, 0)
        <3>1. 0 \in Int
            OBVIOUS
        <3>. QED
            BY <2>1, <2>3, <3>1, MovesTo
    <2>5. t.con.row = r + 1
        <3>1. 0 \in Int
            OBVIOUS
        <3>. QED
            BY <2>1, <2>4, <3>1, Lands
    <2>6. move_forward(s) = t
        BY <1>1, <2>1, <2>2, <2>3, <2>5 DEF move_forward
    <2>. QED
        BY <1>1, <1>4, <2>1, <2>4, <2>6
<1>. QED
    BY <1>1, <1>3, <1>4

\* The place before a place.
BeforeRow(r, k) == IF k > 0 THEN r ELSE r - 1
BeforeCol(k) == IF k > 0 THEN k - 1 ELSE COLS - 1

LEMMA Backward ==
    ASSUME NEW c \in Consoles, NEW s, IsState(c, s), s.con.row \in Rows, s.con.col \in Cols
    PROVE  /\ ~AtOrigin(s) <=> ~(s.con.row = 0 /\ s.con.col = 0)
           /\ ~AtOrigin(s) =>
                /\ BeforeRow(s.con.row, s.con.col) \in Rows /\ BeforeCol(s.con.col) \in Cols
                /\ ~(/\ BeforeRow(s.con.row, s.con.col) = ROWS - 1
                     /\ BeforeCol(s.con.col) = COLS - 1)
                /\ Result(c, s, move_backword(s), View(c, s),
                          BeforeRow(s.con.row, s.con.col), BeforeCol(s.con.col))
           /\ AtOrigin(s) => Result(c, s, move_backword(s), View(c, s), s.con.row, s.con.col)
<1>1. PICK r \in Rows, k \in Cols : r = s.con.row /\ k = s.con.col
    OBVIOUS
<1>2. r \in Nat /\ r < ROWS /\ k \in Nat /\ k < COLS
    BY Sizes DEF Rows, Cols
<1>3. AtOrigin(s) <=> r = 0 /\ k = 0
    BY <1>1, <1>2 DEF AtOrigin
<1>4. CASE k > 0
    <2>1. BeforeRow(r, k) = r /\ BeforeCol(k) = k - 1 /\ k - 1 \in Cols /\ k - 1 # COLS - 1
        BY <1>2, <1>4, Sizes DEF BeforeRow, BeforeCol, Cols
    <2>7. PICK t : t = [s EXCEPT !.con.col = @ - 1]
        OBVIOUS
    <2>2. move_backword(s) = t
        BY <1>1, <1>2, <1>4, <2>7 DEF move_backword
    <2>5. t = [s EXCEPT !.con.col = k - 1]
        BY <1>1, <2>7
    <2>6. k - 1 \in Int
        BY <1>2
    <2>3. Result(c, s, t, View(c, s), s.con.row, k - 1)
        BY <2>5, <2>6, MovesCol
    <2>4. ~AtOrigin(s)
        BY <1>2, <1>3, <1>4
    <2>. QED
        BY <1>1, <1>2, <1>3, <2>1, <2>2, <2>3, <2>4
<1>5. CASE ~(k > 0) /\ r > 0
    <2>1. /\ BeforeRow(r, k) = r - 1 /\ BeforeCol(k) = COLS - 1 /\ r - 1 \in Rows
          /\ COLS - 1 \in Cols /\ r - 1 # ROWS - 1 /\ r - 1 \in Int /\ COLS - 1 \in Int
        BY <1>2, <1>5, Sizes DEF BeforeRow, BeforeCol, Rows, Cols
    <2>2. move_backword(s) = [s EXCEPT !.con.row = r - 1, !.con.col = COLS - 1]
        BY <1>1, <1>2, <1>5 DEF move_backword
    <2>5. PICK t : t = [s EXCEPT !.con.row = r - 1, !.con.col = COLS - 1]
        OBVIOUS
    <2>3. Result(c, s, t, View(c, s), r - 1, COLS - 1)
        BY <2>1, <2>5, MovesTo
    <2>4. ~AtOrigin(s)
        BY <1>2, <1>3, <1>5
    <2>. QED
        BY <1>1, <1>2, <1>3, <2>1, <2>2, <2>3, <2>4, <2>5
<1>6. CASE ~(k > 0) /\ ~(r > 0)
    <2>1. AtOrigin(s)
        BY <1>2, <1>3, <1>6
    <2>2. move_backword(s) = s
        BY <1>1, <1>6, SMTT(30) DEF move_backword
    <2>3. Result(c, s, s, View(c, s), s.con.row, s.con.col)
        <3>1. 0 \in Int
            OBVIOUS
        <3>. QED
            BY <3>1, Moves
    <2>. QED
        BY <1>1, <1>3, <2>1, <2>2, <2>3
<1>. QED
    BY <1>4, <1>5, <1>6

\* A character is written where the cursor is.
LEMMA ShowsChar ==
    ASSUME NEW c \in Consoles, NEW s, IsState(c, s), s.con.row \in Rows, s.con.col \in Cols,
           ~(s.con.row = ROWS - 1 /\ s.con.col = COLS - 1), NEW ch \in Characters
    PROVE  /\ s.con.col < COLS - 1 =>
                Result(c, s, show_char(s, ch), Put(View(c, s), s.con.row, s.con.col, ch),
                       s.con.row, s.con.col + 1)
           /\ ~(s.con.col < COLS - 1) =>
                /\ s.con.row + 1 \in Rows
                /\ Result(c, s, show_char(s, ch), Put(View(c, s), s.con.row, s.con.col, ch),
                          s.con.row + 1, 0)
<1>1. PICK t : t = [s EXCEPT !.disp[Cursor(s)] = ch]
    OBVIOUS
<1>2. PICK w : w = Put(View(c, s), s.con.row, s.con.col, ch)
    OBVIOUS
<1>3. Result(c, s, t, w, s.con.row, s.con.col)
    BY <1>1, <1>2, PutsChar
<1>4. IsState(c, t) /\ t.con.row = s.con.row /\ t.con.col = s.con.col /\ View(c, t) = w
    BY <1>3, StateFields, Lands
<1>5. show_char(s, ch) = move_forward(t)
    BY <1>1 DEF show_char
<1>6. CASE s.con.col < COLS - 1
    <2>1. Result(c, t, move_forward(t), View(c, t), t.con.row, t.con.col + 1)
        BY <1>4, <1>6, Forward
    <2>. QED
        BY <1>2, <1>3, <1>4, <1>5, <1>6, <2>1, Then
<1>7. CASE ~(s.con.col < COLS - 1)
    <2>1. t.con.row + 1 \in Rows /\ Result(c, t, move_forward(t), View(c, t), t.con.row + 1, 0)
        BY <1>4, <1>7, Forward
    <2>. QED
        BY <1>2, <1>3, <1>4, <1>5, <1>7, <2>1, Then
<1>. QED
    BY <1>6, <1>7

LEMMA Deletes ==
    ASSUME NEW c \in Consoles, NEW s, IsState(c, s), s.con.row \in Rows, s.con.col \in Cols,
           ~AtOrigin(s), NEW r, NEW k, r = BeforeRow(s.con.row, s.con.col), k = BeforeCol(s.con.col)
    PROVE  Result(c, s, erase_backword(s), Put(View(c, s), r, k, Space), r, k)
<1>1. PICK t : t = move_backword(s)
    OBVIOUS
<1>2. r \in Rows /\ k \in Cols /\ ~(r = ROWS - 1 /\ k = COLS - 1) /\ Result(c, s, t, View(c, s), r, k)
    BY <1>1, Backward
<1>3. IsState(c, t) /\ t.con.row = r /\ t.con.col = k /\ View(c, t) = View(c, s)
    <2>1. r \in Int /\ k \in Int
        BY <1>2 DEF Rows, Cols
    <2>. QED
        BY <1>2, <2>1, Lands
<1>4. PICK v : v = show_char(t, Space)
    OBVIOUS
<1>5. PICK w : w = Put(View(c, s), r, k, Space)
    OBVIOUS
<1>6. r \in Nat /\ r < ROWS /\ k \in Nat /\ k < COLS
    BY <1>2, Sizes, SMTT(30) DEF Rows, Cols
<1>7. PICK q \in Rows, j \in Cols :
          /\ Result(c, t, v, w, q, j) /\ BeforeRow(q, j) = r /\ BeforeCol(j) = k
          /\ ~(q = 0 /\ j = 0)
    <2>1. CASE k < COLS - 1
        <3>1. Result(c, t, v, w, r, k + 1)
            BY <1>2, <1>3, <1>4, <1>5, <2>1, ShowsChar, Blank1
        <3>2. k + 1 \in Cols /\ BeforeRow(r, k + 1) = r /\ BeforeCol(k + 1) = k /\ k + 1 # 0
            <4>1. k + 1 > 0 /\ k + 1 - 1 = k /\ k + 1 \in 0 .. COLS - 1
                BY <1>6, <2>1, Sizes
            <4>. QED
                BY <1>6, <4>1 DEF Cols, BeforeRow, BeforeCol
        <3>. QED
            BY <1>2, <3>1, <3>2
    <2>2. CASE ~(k < COLS - 1)
        <3>1. r + 1 \in Rows /\ Result(c, t, v, w, r + 1, 0)
            BY <1>2, <1>3, <1>4, <1>5, <2>2, ShowsChar, Blank1
        <3>2. 0 \in Cols /\ BeforeRow(r + 1, 0) = r /\ BeforeCol(0) = k /\ r + 1 # 0
            <4>1. ~(0 > 0) /\ r + 1 - 1 = r /\ 0 \in 0 .. COLS - 1 /\ COLS - 1 = k /\ r + 1 # 0
                BY <1>6, <2>2, Sizes
            <4>. QED
                BY <1>6, <4>1 DEF Cols, BeforeRow, BeforeCol
        <3>. QED
            BY <3>1, <3>2
    <2>. QED
        BY <2>1, <2>2
<1>8. IsState(c, v) /\ v.con.row = q /\ v.con.col = j /\ View(c, v) = w
    <2>1. q \in Int /\ j \in Int
        BY DEF Rows, Cols
    <2>. QED
        BY <1>3, <1>7, <2>1, Lands
<1>9. ~AtOrigin(v)
    BY <1>7, <1>8, Backward
<1>10. Result(c, v, move_backword(v), w, r, k)
    BY <1>7, <1>8, <1>9, Backward
<1>11. erase_backword(s) = move_backword(v)
    BY <1>1, <1>4 DEF erase_backword
<1>12. Result(c, s, v, w, q, j)
    BY <1>2, <1>7, Then
<1>13. Result(c, s, move_backword(v), w, r, k)
    BY <1>10, <1>12, Then
<1>. QED
    BY <1>5, <1>11, <1>13

LEMMA NextLine ==
    ASSUME NEW c \in Consoles, NEW s, IsState(c, s), s.con.row \in Rows, s.con.col \in Cols
    PROVE  /\ s.con.row < ROWS - 1 =>
                /\ s.con.row + 1 \in Rows
                /\ Result(c, s, move_next_line(s), View(c, s), s.con.row + 1, s.con.col)
           /\ ~(s.con.row < ROWS - 1) =>
                Result(c, s, move_next_line(s), Scrolled(View(c, s)), s.con.row, s.con.col)
<1>1. PICK r \in Rows, k \in Cols : r = s.con.row /\ k = s.con.col
    OBVIOUS
<1>2. r \in Nat /\ r < ROWS /\ k \in Int /\ r + 1 \in Int
    BY Sizes, SMTT(30) DEF Rows, Cols
<1>3. PICK t : t = [s EXCEPT !.con.row = r + 1]
    OBVIOUS
<1>4. Result(c, s, t, View(c, s), r + 1, k)
    BY <1>1, <1>2, <1>3, MovesRow
<1>5. IsState(c, t) /\ t.con.row = r + 1 /\ t.con.col = k /\ View(c, t) = View(c, s)
    BY <1>2, <1>4, Lands
<1>6. CASE r < ROWS - 1
    <2>1. ~(r + 1 >= ROWS) /\ r + 1 \in Rows
        BY <1>2, <1>6, Sizes DEF Rows
    <2>2. move_next_line(s) = t
        BY <1>1, <1>3, <1>5, <2>1 DEF move_next_line
    <2>. QED
        BY <1>1, <1>4, <1>6, <2>1, <2>2
<1>7. CASE ~(r < ROWS - 1)
    <2>1. r + 1 >= ROWS /\ r + 1 - 1 = r
        BY <1>2, <1>7, Sizes
    <2>2. move_next_line(s) = scroll_up(t)
        BY <1>1, <1>3, <1>5, <2>1 DEF move_next_line
    <2>3. Result(c, t, scroll_up(t), Scrolled(View(c, t)), r, k)
        <3>1. Result(c, t, scroll_up(t), Scrolled(View(c, t)), t.con.row - 1, t.con.col)
            BY <1>5, Scrolls
        <3>2. t.con.row - 1 = r /\ t.con.col = k
            BY <1>5, <2>1, <1>2
        <3>. QED
            BY <3>1, <3>2
    <2>4. Result(c, s, scroll_up(t), Scrolled(View(c, s)), r, k)
        BY <1>4, <1>5, <2>3, Then
    <2>. QED
        BY <1>1, <1>7, <2>2, <2>4
<1>. QED
    BY <1>1, <1>6, <1>7

-----------------------------------------------------------------------------
(* What one byte does. *)

\* Behind the byte that leads from s to t, console c shows w and its cursor is at row
\* and col; the other windows are as they were.
Shown(c, s, t, w, row, col) ==
    /\ IsState(c, t) /\ Settled(t.con)
    /\ View(c, t) = w /\ t.con.row = row /\ t.con.col = col
    /\ \A e \in Consoles \ {c} : View(e, t) = View(e, s)

Keeps(s, t) == t.con.old_row = s.con.old_row /\ t.con.old_col = s.con.old_col

\* The state and the parameters may change, and nothing that shows.
SameShape(c, s, t) ==
    /\ IsState(c, t) /\ t.disp = s.disp
    /\ t.con.row = s.con.row /\ t.con.col = s.con.col /\ Keeps(s, t)

Moving(c, s, t) == Keeps(s, t) /\ \E q \in Rows, j \in Cols : Shown(c, s, t, View(c, s), q, j)

Writing(c, s, t) ==
    /\ Keeps(s, t)
    /\ \E ch \in Characters : \E w :
         /\ w = Put(View(c, s), s.con.row, s.con.col, ch)
         /\ \/ s.con.col < COLS - 1 /\ Shown(c, s, t, w, s.con.row, s.con.col + 1)
            \/ /\ ~(s.con.col < COLS - 1) /\ s.con.row < ROWS - 1
               /\ Shown(c, s, t, w, s.con.row + 1, 0)

Scrolling(c, s, t) ==
    /\ Keeps(s, t) /\ ~(s.con.row < ROWS - 1)
    /\ Shown(c, s, t, Scrolled(View(c, s)), s.con.row, s.con.col)

Deleting(c, s, t) ==
    /\ Keeps(s, t) /\ ~(s.con.row = 0 /\ s.con.col = 0)
    /\ \E q \in Rows, j \in Cols :
         /\ q = BeforeRow(s.con.row, s.con.col) /\ j = BeforeCol(s.con.col)
         /\ Shown(c, s, t, Put(View(c, s), q, j, Space), q, j)

Saving(c, s, t) ==
    /\ t.con.old_row = s.con.row /\ t.con.old_col = s.con.col
    /\ Shown(c, s, t, View(c, s), s.con.row, s.con.col)

Clearing(c, s, t) == Keeps(s, t) /\ Shown(c, s, t, Blanks, 0, 0)

Outcome(c, s, t) ==
    \/ Moving(c, s, t) \/ Writing(c, s, t) \/ Scrolling(c, s, t)
    \/ Deleting(c, s, t) \/ Saving(c, s, t) \/ Clearing(c, s, t)

LEMMA Ranges ==
    /\ \A r \in Rows : r \in Int /\ r \in 0 .. ROWS - 1
    /\ \A k \in Cols : k \in Int /\ k \in 0 .. COLS - 1
    /\ 0 \in Rows /\ 0 \in Cols /\ ROWS - 1 \in Rows /\ COLS - 1 \in Cols
    BY Sizes DEF Rows, Cols

LEMMA Params == ESC_PARAM_MAX \in Nat /\ 0 \in ParamRange /\ 1 \in ParamRange
<1>1. ESC_PARAM_MAX \in Nat \ {0, 1}
    BY ConsoleAssumption, Zenon
<1>. QED
    BY <1>1 DEF ParamRange

\* An operation that leaves the machine's state alone.
LEMMA ResultShown ==
    ASSUME NEW c \in Consoles, NEW s, IsState(c, s), Settled(s.con), NEW t, NEW w,
           NEW row \in Rows, NEW col \in Cols, Result(c, s, t, w, row, col)
    PROVE  Shown(c, s, t, w, row, col) /\ Keeps(s, t)
<1>1. row \in Int /\ col \in Int
    BY Ranges
<1>2. PICK x \in ConsoleRecords : x = s.con
    BY StateFields
<1>3. t.con = Moved(x, row, col)
    BY <1>2 DEF Result
<1>4. /\ t.con.old_row = x.old_row /\ t.con.old_col = x.old_col /\ t.con.row = row /\ t.con.col = col
      /\ t.con.curr_param_index = x.curr_param_index /\ t.con.write_state = x.write_state
    BY <1>1, <1>2, <1>3 DEF Moved, ConsoleRecords
<1>5. Settled(t.con)
    BY <1>2, <1>4 DEF Settled
<1>6. Keeps(s, t)
    BY <1>2, <1>4 DEF Keeps
<1>7. IsState(c, t) /\ View(c, t) = w /\ \A e \in Consoles \ {c} : View(e, t) = View(e, s)
    BY DEF Result
<1>. QED
    BY <1>4, <1>5, <1>6, <1>7 DEF Shown

\* A change that does not show.
LEMMA ShapeMoves ==
    ASSUME NEW c \in Consoles, NEW s, IsState(c, s), Settled(s.con), NEW t,
           SameShape(c, s, t), Settled(t.con)
    PROVE  Moving(c, s, t)
<1>1. s.con.row \in Rows /\ s.con.col \in Cols
    BY DEF Settled
<1>2. View(c, t) = View(c, s) /\ \A e \in Consoles \ {c} : View(e, t) = View(e, s)
    BY DEF SameShape, View
<1>3. Shown(c, s, t, View(c, s), s.con.row, s.con.col) /\ Keeps(s, t)
    BY <1>2 DEF SameShape, Shown
<1>. QED
    BY <1>1, <1>3 DEF Moving

\* The state of the machine behind an operation.
LEMMA Enters ==
    ASSUME NEW c, NEW s, IsState(c, s), NEW state \in {"NORMAL", "ESC", "SQUARE"}
    PROVE  /\ SameShape(c, s, State(s, state)) /\ State(s, state).con.write_state = state
           /\ State(s, state).con.curr_param_index = s.con.curr_param_index
<1>1. PICK x \in ConsoleRecords, d \in Displays :
          s = [con |-> x, disp |-> d] /\ s.con = x /\ s.disp = d /\ x.base = c * CELLS
    BY StateFields
<1>2. PICK y : y = [x EXCEPT !.write_state = state]
    OBVIOUS
<1>3. State(s, state) = [con |-> y, disp |-> d]
    BY <1>1, <1>2 DEF State
<1>4. y \in ConsoleRecords /\ y.base = x.base
    BY <1>2 DEF ConsoleRecords
<1>5. /\ y.row = x.row /\ y.col = x.col /\ y.old_row = x.old_row /\ y.old_col = x.old_col
      /\ y.curr_param_index = x.curr_param_index /\ y.write_state = state
    BY <1>2 DEF ConsoleRecords
<1>6. PICK t : t = State(s, state)
    OBVIOUS
<1>7. t = [con |-> y, disp |-> d] /\ t.con = y /\ t.disp = d
    BY <1>3, <1>6
<1>8. IsState(c, t)
    BY <1>1, <1>4, <1>7 DEF IsState, States
<1>9. SameShape(c, s, t)
    BY <1>1, <1>5, <1>7, <1>8 DEF SameShape, Keeps
<1>. QED
    BY <1>1, <1>5, <1>6, <1>7, <1>9

\* A shape, an operation, and NORMAL.
LEMMA ShapeResult ==
    ASSUME NEW c \in Consoles, NEW s, IsState(c, s), Settled(s.con), NEW u, SameShape(c, s, u),
           u.con.curr_param_index \in 0 .. ESC_PARAM_MAX + 1,
           NEW t, NEW w, NEW row \in Rows, NEW col \in Cols, Result(c, u, t, w, row, col)
    PROVE  Shown(c, s, State(t, "NORMAL"), w, row, col) /\ Keeps(s, State(t, "NORMAL"))
<1>1. row \in Int /\ col \in Int
    BY Ranges
<1>2. IsState(c, u)
    BY DEF SameShape
<1>3. PICK x \in ConsoleRecords : x = u.con
    BY <1>2, StateFields
<1>4. t.con = Moved(x, row, col) /\ IsState(c, t) /\ View(c, t) = w
    BY <1>3 DEF Result
<1>5. /\ t.con.old_row = x.old_row /\ t.con.old_col = x.old_col /\ t.con.row = row /\ t.con.col = col
      /\ t.con.curr_param_index = x.curr_param_index
    BY <1>1, <1>3, <1>4 DEF Moved, ConsoleRecords
<1>6. PICK v : v = State(t, "NORMAL")
    OBVIOUS
<1>7. /\ SameShape(c, t, v) /\ v.con.write_state = "NORMAL"
      /\ v.con.curr_param_index = t.con.curr_param_index
    BY <1>4, <1>6, Enters
<1>8. /\ v.con.row = row /\ v.con.col = col
      /\ v.con.old_row = s.con.old_row /\ v.con.old_col = s.con.old_col
    BY <1>3, <1>5, <1>7 DEF SameShape, Keeps
<1>9. Settled(v.con)
    BY <1>3, <1>5, <1>7, <1>8 DEF Settled
<1>10. View(c, v) = w /\ \A e \in Consoles \ {c} : View(e, v) = View(e, s)
    <2>1. v.disp = t.disp /\ u.disp = s.disp
        BY <1>7 DEF SameShape
    <2>2. \A e \in Consoles \ {c} : View(e, t) = View(e, u)
        BY DEF Result
    <2>. QED
        BY <1>4, <2>1, <2>2 DEF View
<1>. QED
    BY <1>6, <1>7, <1>8, <1>9, <1>10 DEF Shown, SameShape, Keeps

\* The ordinary bytes.
LEMMA WritesNormal ==
    ASSUME NEW c \in Consoles, NEW s, IsState(c, s), Settled(s.con), NEW ch,
           s.con.write_state = "NORMAL", Usual(s, ch), "wrap" \notin Habits
    PROVE  Outcome(c, s, write_normal(s, ch))
<1>1. s.con.row \in Rows /\ s.con.col \in Cols
    BY DEF Settled
<1>2. Glyphs \cap {"ESC", "DEL", "BS", "CR", "LF"} = {}
    BY ConsoleAssumption
<1>3. PICK t : t = write_normal(s, ch)
    OBVIOUS
<1>4. CASE ch = "ESC"
    <2>1. t = State(s, "ESC")
        BY <1>2, <1>3, <1>4 DEF write_normal
    <2>2. SameShape(c, s, t) /\ t.con.write_state = "ESC" /\ t.con.curr_param_index = s.con.curr_param_index
        BY <2>1, Enters
    <2>3. Settled(t.con)
        BY <2>2 DEF SameShape, Settled, Keeps
    <2>. QED
        BY <1>3, <2>2, <2>3, ShapeMoves DEF Outcome
<1>5. CASE ch = "DEL"
    <2>1. t = erase_backword(s)
        BY <1>2, <1>3, <1>5 DEF write_normal
    <2>2. CASE AtOrigin(s)
        <3>1. t = s
            BY <2>1, <2>2 DEF erase_backword
        <3>2. SameShape(c, s, s)
            BY DEF SameShape, Keeps
        <3>. QED
            BY <1>3, <3>1, <3>2, ShapeMoves DEF Outcome
    <2>3. CASE ~AtOrigin(s)
        <3>1. PICK r \in Rows, k \in Cols :
                  r = BeforeRow(s.con.row, s.con.col) /\ k = BeforeCol(s.con.col)
            BY <1>1, <2>3, Backward
        <3>2. Result(c, s, t, Put(View(c, s), r, k, Space), r, k)
            BY <1>1, <2>1, <2>3, <3>1, Deletes
        <3>3. Shown(c, s, t, Put(View(c, s), r, k, Space), r, k) /\ Keeps(s, t)
            BY <3>2, ResultShown
        <3>4. ~(s.con.row = 0 /\ s.con.col = 0)
            BY <1>1, <2>3, Backward
        <3>. QED
            BY <1>3, <3>1, <3>3, <3>4 DEF Outcome, Deleting
    <2>. QED
        BY <2>2, <2>3
<1>6. CASE ch = "BS"
    <2>1. t = move_backword(s)
        BY <1>2, <1>3, <1>6 DEF write_normal
    <2>2. PICK r \in Rows, k \in Cols : Result(c, s, t, View(c, s), r, k)
        BY <1>1, <2>1, Backward
    <2>3. Shown(c, s, t, View(c, s), r, k) /\ Keeps(s, t)
        BY <2>2, ResultShown
    <2>. QED
        BY <1>3, <2>3 DEF Outcome, Moving
<1>7. CASE ch = "CR"
    <2>1. t = [s EXCEPT !.con.col = 0]
        BY <1>2, <1>3, <1>7 DEF write_normal
    <2>2. Result(c, s, t, View(c, s), s.con.row, 0)
        BY <2>1, MovesCol, Ranges
    <2>3. Shown(c, s, t, View(c, s), s.con.row, 0) /\ Keeps(s, t)
        BY <1>1, <2>2, ResultShown, Ranges
    <2>. QED
        BY <1>1, <1>3, <2>3, Ranges DEF Outcome, Moving
<1>8. CASE ch = "LF"
    <2>1. t = move_next_line(s)
        BY <1>2, <1>3, <1>8 DEF write_normal
    <2>2. CASE s.con.row < ROWS - 1
        <3>1. s.con.row + 1 \in Rows /\ Result(c, s, t, View(c, s), s.con.row + 1, s.con.col)
            BY <1>1, <2>1, <2>2, NextLine
        <3>2. Shown(c, s, t, View(c, s), s.con.row + 1, s.con.col) /\ Keeps(s, t)
            BY <1>1, <3>1, ResultShown
        <3>. QED
            BY <1>1, <1>3, <3>1, <3>2 DEF Outcome, Moving
    <2>3. CASE ~(s.con.row < ROWS - 1)
        <3>1. Result(c, s, t, Scrolled(View(c, s)), s.con.row, s.con.col)
            BY <1>1, <2>1, <2>3, NextLine
        <3>2. Shown(c, s, t, Scrolled(View(c, s)), s.con.row, s.con.col) /\ Keeps(s, t)
            BY <1>1, <3>1, ResultShown
        <3>. QED
            BY <1>3, <2>3, <3>2 DEF Outcome, Scrolling
    <2>. QED
        BY <2>2, <2>3
<1>9. CASE ch \in Glyphs
    <2>1. t = show_char(s, ch)
        BY <1>2, <1>3, <1>9 DEF write_normal
    <2>2. ~(s.con.row = ROWS - 1 /\ s.con.col = COLS - 1) /\ ch \in Characters
        BY <1>9 DEF Usual, Characters
    <2>3. PICK w : w = Put(View(c, s), s.con.row, s.con.col, ch)
        OBVIOUS
    <2>4. CASE s.con.col < COLS - 1
        <3>1. Result(c, s, t, w, s.con.row, s.con.col + 1)
            BY <1>1, <2>1, <2>2, <2>3, <2>4, ShowsChar
        <3>2. s.con.col + 1 \in Cols
            BY <1>1, <2>4, Sizes, SMTT(30) DEF Cols
        <3>3. Shown(c, s, t, w, s.con.row, s.con.col + 1) /\ Keeps(s, t)
            BY <1>1, <3>1, <3>2, ResultShown
        <3>. QED
            BY <1>3, <2>2, <2>3, <2>4, <3>3 DEF Outcome, Writing
    <2>5. CASE ~(s.con.col < COLS - 1)
        <3>1. s.con.row + 1 \in Rows /\ Result(c, s, t, w, s.con.row + 1, 0)
            BY <1>1, <2>1, <2>2, <2>3, <2>5, ShowsChar
        <3>2. s.con.row < ROWS - 1
            BY <1>1, <3>1, Sizes DEF Rows
        <3>3. Shown(c, s, t, w, s.con.row + 1, 0) /\ Keeps(s, t)
            BY <3>1, ResultShown, Ranges
        <3>. QED
            BY <1>3, <2>2, <2>3, <2>5, <3>2, <3>3 DEF Outcome, Writing
    <2>. QED
        BY <2>4, <2>5
<1>10. CASE ch \notin Glyphs \cup {"ESC", "DEL", "BS", "CR", "LF"}
    <2>1. t = s
        BY <1>3, <1>10 DEF write_normal
    <2>2. SameShape(c, s, s)
        BY DEF SameShape, Keeps
    <2>. QED
        BY <1>3, <2>1, <2>2, ShapeMoves DEF Outcome
<1>. QED
    BY <1>4, <1>5, <1>6, <1>7, <1>8, <1>9, <1>10

\* The bytes behind an ESC.
LEMMA WritesEsc ==
    ASSUME NEW c \in Consoles, NEW s, IsState(c, s), Settled(s.con), NEW ch
    PROVE  Outcome(c, s, write_esc(s, ch))
<1>1. /\ s.con.row \in Rows /\ s.con.col \in Cols /\ s.con.old_row \in Rows /\ s.con.old_col \in Cols
      /\ s.con.curr_param_index \in 0 .. ESC_PARAM_MAX + 1
    BY DEF Settled
<1>2. PICK x \in ConsoleRecords, d \in Displays :
          s = [con |-> x, disp |-> d] /\ s.con = x /\ s.disp = d /\ x.base = c * CELLS
    BY StateFields
<1>3. PICK t : t = write_esc(s, ch)
    OBVIOUS
<1>4. CASE ch = "7"
    <2>11. PICK z : z = [x EXCEPT !.old_col = x.col]
        OBVIOUS
    <2>1. PICK y : y = [z EXCEPT !.old_row = x.row]
        OBVIOUS
    <2>2. PICK u : u = [con |-> y, disp |-> d]
        OBVIOUS
    <2>3. save_cursor(s) = u
        <3>1. PICK v : v = [con |-> z, disp |-> d]
            OBVIOUS
        <3>2. [s EXCEPT !.con.old_col = s.con.col] = v
            BY <1>2, <2>11, <3>1
        <3>3. save_cursor(s) = [v EXCEPT !.con.old_row = x.row]
            BY <1>2, <3>2 DEF save_cursor
        <3>. QED
            BY <2>1, <2>2, <3>1, <3>3
    <2>4. /\ y \in ConsoleRecords /\ y.base = x.base /\ y.row = x.row /\ y.col = x.col
          /\ y.old_row = x.row /\ y.old_col = x.col /\ y.curr_param_index = x.curr_param_index
        BY <2>1, <2>11 DEF ConsoleRecords
    <2>5. IsState(c, u) /\ u.con = y /\ u.disp = d
        BY <1>2, <2>2, <2>4 DEF IsState, States
    <2>6. t = State(u, "NORMAL")
        BY <1>3, <1>4, <2>3 DEF write_esc
    <2>7. SameShape(c, u, t) /\ t.con.write_state = "NORMAL" /\ t.con.curr_param_index = y.curr_param_index
        BY <2>5, <2>6, Enters
    <2>8. /\ t.con.row = x.row /\ t.con.col = x.col /\ t.con.old_row = x.row /\ t.con.old_col = x.col
          /\ t.disp = d /\ IsState(c, t)
        BY <2>4, <2>5, <2>7 DEF SameShape, Keeps
    <2>9. Settled(t.con)
        BY <1>1, <1>2, <2>4, <2>7, <2>8 DEF Settled
    <2>10. Saving(c, s, t)
        BY <1>2, <2>8, <2>9 DEF Saving, Shown, View
    <2>. QED
        BY <1>3, <2>10 DEF Outcome
<1>5. CASE ch = "8"
    <2>1. PICK u : u = [s EXCEPT !.con.col = s.con.old_col, !.con.row = s.con.old_row]
        OBVIOUS
    <2>2. restore_cursor(s) = u
        BY <2>1 DEF restore_cursor
    <2>3. Result(c, s, u, View(c, s), s.con.old_row, s.con.old_col)
        BY <1>1, <2>1, MovesTo, Ranges
    <2>4. t = State(u, "NORMAL")
        BY <1>3, <1>5, <2>2 DEF write_esc
    <2>5. SameShape(c, s, s)
        BY DEF SameShape, Keeps
    <2>6. Shown(c, s, t, View(c, s), s.con.old_row, s.con.old_col) /\ Keeps(s, t)
        BY <1>1, <2>3, <2>4, <2>5, ShapeResult
    <2>. QED
        BY <1>1, <1>3, <2>6 DEF Outcome, Moving
<1>6. CASE ch = "["
    <2>11. PICK z : z = [x EXCEPT !.esc_param = NoParams]
        OBVIOUS
    <2>1. PICK y : y = [z EXCEPT !.curr_param_index = 0]
        OBVIOUS
    <2>2. PICK u : u = [con |-> y, disp |-> d]
        OBVIOUS
    <2>3. clear_esc_param(s) = u
        <3>1. PICK v : v = [con |-> z, disp |-> d]
            OBVIOUS
        <3>2. [s EXCEPT !.con.esc_param = NoParams] = v
            BY <1>2, <2>11, <3>1
        <3>3. clear_esc_param(s) = [v EXCEPT !.con.curr_param_index = 0]
            BY <3>2 DEF clear_esc_param
        <3>. QED
            BY <2>1, <2>2, <3>1, <3>3
    <2>4. NoParams \in [ParamRange -> Nat]
        BY DEF NoParams, ParamRange
    <2>5. /\ y \in ConsoleRecords /\ y.base = x.base /\ y.row = x.row /\ y.col = x.col
          /\ y.old_row = x.old_row /\ y.old_col = x.old_col /\ y.curr_param_index = 0
        BY <2>1, <2>4, <2>11 DEF ConsoleRecords
    <2>6. IsState(c, u) /\ u.con = y /\ u.disp = d
        BY <1>2, <2>2, <2>5 DEF IsState, States
    <2>7. t = State(u, "SQUARE")
        BY <1>3, <1>6, <2>3 DEF write_esc
    <2>8. SameShape(c, u, t) /\ t.con.curr_param_index = 0
        BY <2>5, <2>6, <2>7, Enters
    <2>9. SameShape(c, s, t)
        BY <1>2, <2>5, <2>6, <2>8 DEF SameShape, Keeps
    <2>10. Settled(t.con)
        <3>1. 0 \in 0 .. ESC_PARAM_MAX + 1 /\ 0 <= ESC_PARAM_MAX
            BY Params
        <3>. QED
            BY <1>1, <2>8, <2>9, <3>1 DEF Settled, SameShape, Keeps
    <2>. QED
        BY <1>3, <2>9, <2>10, ShapeMoves DEF Outcome
<1>7. CASE ch \notin {"7", "8", "["}
    <2>1. t = State(s, "NORMAL")
        BY <1>3, <1>7 DEF write_esc
    <2>2. SameShape(c, s, t) /\ t.con.write_state = "NORMAL" /\ t.con.curr_param_index = s.con.curr_param_index
        BY <2>1, Enters
    <2>3. Settled(t.con)
        BY <1>1, <2>2 DEF SameShape, Settled, Keeps
    <2>. QED
        BY <1>3, <2>2, <2>3, ShapeMoves DEF Outcome
<1>. QED
    BY <1>4, <1>5, <1>6, <1>7

\* The next parameter.
LEMMA NextParam ==
    ASSUME NEW c, NEW s, IsState(c, s), NEW u, u = [s EXCEPT !.con.curr_param_index = @ + 1]
    PROVE  /\ SameShape(c, s, u) /\ u.con.curr_param_index = s.con.curr_param_index + 1
           /\ u.con.write_state = s.con.write_state /\ u.con.esc_param = s.con.esc_param
<1>1. PICK x \in ConsoleRecords, d \in Displays :
          s = [con |-> x, disp |-> d] /\ s.con = x /\ s.disp = d /\ x.base = c * CELLS
    BY StateFields
<1>2. PICK n \in Nat : n = x.curr_param_index + 1
    BY DEF ConsoleRecords
<1>3. PICK y : y = [x EXCEPT !.curr_param_index = n]
    OBVIOUS
<1>4. u = [con |-> y, disp |-> d]
    BY <1>1, <1>2, <1>3
<1>5. /\ y \in ConsoleRecords /\ y.base = x.base /\ y.row = x.row /\ y.col = x.col
      /\ y.old_row = x.old_row /\ y.old_col = x.old_col /\ y.curr_param_index = n
      /\ y.write_state = x.write_state /\ y.esc_param = x.esc_param
    BY <1>3 DEF ConsoleRecords
<1>6. u.con = y /\ u.disp = d /\ IsState(c, u)
    BY <1>1, <1>4, <1>5 DEF IsState, States
<1>. QED
    BY <1>1, <1>2, <1>5, <1>6 DEF SameShape, Keeps

\* A digit of a parameter.
LEMMA AddsDigit ==
    ASSUME NEW c, NEW s, IsState(c, s), Settled(s.con), s.con.curr_param_index < ESC_PARAM_MAX,
           NEW e \in Nat,
           NEW t, t = [s EXCEPT !.con.esc_param[s.con.curr_param_index] = @ * 10 + e]
    PROVE  SameShape(c, s, t) /\ Settled(t.con)
<1>1. PICK x \in ConsoleRecords, d \in Displays :
          s = [con |-> x, disp |-> d] /\ s.con = x /\ s.disp = d /\ x.base = c * CELLS
    BY StateFields
<1>2. PICK i \in ParamRange : i = x.curr_param_index
    BY <1>1, Params DEF ConsoleRecords, ParamRange
<1>3. PICK p \in [ParamRange -> Nat] : p = x.esc_param
    BY DEF ConsoleRecords
<1>4. PICK n \in Nat : n = p[i] * 10 + e
    OBVIOUS
<1>5. PICK q : q = [p EXCEPT ![i] = n]
    OBVIOUS
<1>6. q \in [ParamRange -> Nat]
    BY <1>5
<1>7. PICK y : y = [x EXCEPT !.esc_param = q]
    OBVIOUS
<1>8. t = [con |-> y, disp |-> d]
    BY <1>1, <1>2, <1>3, <1>4, <1>5, <1>7
<1>9. /\ y \in ConsoleRecords /\ y.base = x.base /\ y.row = x.row /\ y.col = x.col
      /\ y.old_row = x.old_row /\ y.old_col = x.old_col /\ y.curr_param_index = x.curr_param_index
      /\ y.write_state = x.write_state
    BY <1>6, <1>7 DEF ConsoleRecords
<1>10. t.con = y /\ t.disp = d /\ IsState(c, t)
    BY <1>1, <1>8, <1>9 DEF IsState, States
<1>11. SameShape(c, s, t)
    BY <1>1, <1>9, <1>10 DEF SameShape, Keeps
<1>12. Settled(y)
    BY <1>1, <1>9 DEF Settled
<1>. QED
    BY <1>10, <1>11, <1>12

\* The commands: the cursor moves in its window, or the window is cleared.
LEMMA Commands ==
    ASSUME NEW c \in Consoles, NEW u, IsState(c, u), u.con.row \in Rows, u.con.col \in Cols, NEW ch,
           ch \in {"H", "f"} => u.con.esc_param[0] < ROWS /\ u.con.esc_param[1] < COLS
    PROVE  \/ \E r \in Rows, k \in Cols : Result(c, u, Command(u, ch), View(c, u), r, k)
           \/ Result(c, u, Command(u, ch), Blanks, 0, 0)
<1>1. PICK t : t = Command(u, ch)
    OBVIOUS
<1>2. PICK r \in Rows, k \in Cols : r = u.con.row /\ k = u.con.col
    OBVIOUS
<1>3. r \in Nat /\ k \in Nat /\ k < COLS /\ COLS \in Nat
    BY Sizes DEF Rows, Cols
<1>4. PICK p0 \in Nat, p1 \in Nat : p0 = u.con.esc_param[0] /\ p1 = u.con.esc_param[1]
    <2>1. u.con.esc_param \in [ParamRange -> Nat]
        BY StateFields DEF ConsoleRecords
    <2>. QED
        BY <2>1, Params
<1>5. PICK n \in Nat : n = Times(p0)
    BY SMTT(30) DEF Times
<1>6. Result(c, u, u, View(c, u), r, k)
    <2>1. 0 \in Int
        OBVIOUS
    <2>. QED
        BY <1>2, <2>1, Moves
<1>7. CASE ch = "D"
    <2>1. PICK j \in Cols : j = IF k - n >= 0 THEN k - n ELSE 0
        <3>1. k - n >= 0 => k - n \in 0 .. COLS - 1
            BY <1>3
        <3>. QED
            BY <3>1, Ranges DEF Cols
    <2>2. PICK v : v = [u EXCEPT !.con.col = j]
        OBVIOUS
    <2>3. t = v
        BY <1>1, <1>2, <1>4, <1>5, <1>7, <2>1, <2>2 DEF Command, move_left
    <2>4. Result(c, u, v, View(c, u), r, j)
        BY <1>2, <2>2, MovesCol, Ranges
    <2>. QED
        BY <1>1, <2>3, <2>4
<1>8. CASE ch = "C"
    <2>1. PICK j \in Cols : j = IF k + n >= COLS THEN COLS - 1 ELSE k + n
        BY <1>3 DEF Cols
    <2>2. PICK v : v = [u EXCEPT !.con.col = j]
        OBVIOUS
    <2>3. t = v
        BY <1>1, <1>2, <1>4, <1>5, <1>8, <2>1, <2>2 DEF Command, move_right
    <2>4. Result(c, u, v, View(c, u), r, j)
        BY <1>2, <2>2, MovesCol, Ranges
    <2>. QED
        BY <1>1, <2>3, <2>4
<1>9. CASE ch \in {"H", "f"}
    <2>1. PICK v : v = [u EXCEPT !.con.row = p0, !.con.col = p1]
        OBVIOUS
    <2>2. t = v
        BY <1>1, <1>4, <1>9, <2>1 DEF Command, move_cursor
    <2>3. p0 \in Rows /\ p1 \in Cols
        BY <1>4, <1>9, Sizes DEF Rows, Cols
    <2>4. Result(c, u, v, View(c, u), p0, p1)
        BY <2>1, <2>3, MovesTo, Ranges
    <2>. QED
        BY <1>1, <2>2, <2>3, <2>4
<1>10. CASE ch = "J" /\ p0 = 2
    <2>1. PICK v : v = clear_display(u)
        OBVIOUS
    <2>2. PICK z : z = [v EXCEPT !.con.row = 0, !.con.col = 0]
        OBVIOUS
    <2>3. t = z
        BY <1>1, <1>4, <1>10, <2>1, <2>2 DEF Command, erase_in_display
    <2>4. Result(c, u, v, Blanks, u.con.row, u.con.col)
        BY <2>1, Clears
    <2>5. IsState(c, v) /\ View(c, v) = Blanks
        BY <2>4 DEF Result
    <2>6. Result(c, v, z, View(c, v), 0, 0)
        BY <2>2, <2>5, MovesTo, Ranges
    <2>7. Result(c, u, z, Blanks, 0, 0)
        BY <2>4, <2>5, <2>6, Then
    <2>. QED
        BY <1>1, <2>3, <2>7
<1>11. CASE ch \notin {"D", "C", "H", "f"} /\ ~(ch = "J" /\ p0 = 2)
    <2>1. t = u
        BY <1>1, <1>4, <1>11 DEF Command, erase_in_display
    <2>. QED
        BY <1>1, <1>6, <2>1
<1>. QED
    BY <1>7, <1>8, <1>9, <1>10, <1>11

LEMMA WritesSquare ==
    ASSUME NEW c \in Consoles, NEW s, IsState(c, s), Settled(s.con), NEW ch,
           s.con.write_state = "SQUARE", Usual(s, ch), {"outside", "params"} \cap Habits = {}
    PROVE  Outcome(c, s, write_esc_square(s, ch))
<1>1. PICK t : t = write_esc_square(s, ch)
    OBVIOUS
<1>2. /\ s.con.row \in Rows /\ s.con.col \in Cols /\ s.con.curr_param_index \in Nat
      /\ s.con.curr_param_index <= ESC_PARAM_MAX /\ ESC_PARAM_MAX \in Nat
    BY Params DEF Settled
<1>3. DOMAIN Digit = {"0", "1", "2"} /\ \A e \in DOMAIN Digit : Digit[e] \in Nat
    BY DEF Digit
<1>4. CASE ch \in DOMAIN Digit
    <2>1. s.con.curr_param_index < ESC_PARAM_MAX
        <3>1. ~(s.con.curr_param_index >= ESC_PARAM_MAX)
            BY <1>4 DEF Usual
        <3>. QED
            BY <1>2, <3>1
    <2>2. PICK e \in Nat : e = Digit[ch]
        BY <1>3, <1>4
    <2>3. t = [s EXCEPT !.con.esc_param[s.con.curr_param_index] = @ * 10 + e]
        BY <1>1, <1>3, <1>4, <2>2 DEF write_esc_square
    <2>4. SameShape(c, s, t) /\ Settled(t.con)
        BY <2>1, <2>3, AddsDigit
    <2>. QED
        BY <1>1, <2>4, ShapeMoves DEF Outcome
<1>5. PICK u : u = [s EXCEPT !.con.curr_param_index = @ + 1]
    OBVIOUS
<1>6. /\ SameShape(c, s, u) /\ u.con.curr_param_index = s.con.curr_param_index + 1
      /\ u.con.write_state = s.con.write_state /\ u.con.esc_param = s.con.esc_param
    BY <1>5, NextParam
<1>7. IsState(c, u) /\ u.con.row \in Rows /\ u.con.col \in Cols /\ View(c, u) = View(c, s)
    BY <1>2, <1>6 DEF SameShape, View
<1>8. CASE ch = ";" /\ s.con.curr_param_index < ESC_PARAM_MAX
    <2>1. t = u
        BY <1>1, <1>3, <1>5, <1>8 DEF write_esc_square
    <2>2. Settled(u.con)
        <3>1. u.con.curr_param_index \in 0 .. ESC_PARAM_MAX + 1 /\ u.con.curr_param_index <= ESC_PARAM_MAX
            <4>1. PICK i \in Nat, m \in Nat :
                      i = s.con.curr_param_index /\ m = ESC_PARAM_MAX /\ i < m
                BY <1>2, <1>8
            <4>2. i + 1 \in 0 .. m + 1 /\ i + 1 <= m
                BY <4>1
            <4>. QED
                BY <1>6, <4>1, <4>2
        <3>. QED
            BY <1>6, <3>1 DEF Settled, SameShape, Keeps
    <2>. QED
        BY <1>1, <1>6, <2>1, <2>2, ShapeMoves DEF Outcome
<1>9. CASE ch \notin DOMAIN Digit /\ ~(ch = ";" /\ s.con.curr_param_index < ESC_PARAM_MAX)
    <2>1. PICK v : v = Command(u, ch)
        OBVIOUS
    <2>2. t = State(v, "NORMAL")
        BY <1>1, <1>5, <1>9, <2>1 DEF write_esc_square
    <2>3. u.con.curr_param_index \in 0 .. ESC_PARAM_MAX + 1
        BY <1>2, <1>6
    <2>4. ch \in {"H", "f"} => u.con.esc_param[0] < ROWS /\ u.con.esc_param[1] < COLS
        BY <1>6 DEF Usual
    <2>5. CASE Result(c, u, v, Blanks, 0, 0)
        <3>1. Shown(c, s, t, Blanks, 0, 0) /\ Keeps(s, t)
            BY <1>6, <2>2, <2>3, <2>5, ShapeResult, Ranges
        <3>. QED
            BY <1>1, <3>1 DEF Outcome, Clearing
    <2>6. ASSUME NEW r \in Rows, NEW k \in Cols, Result(c, u, v, View(c, u), r, k)
          PROVE  Moving(c, s, t)
        <3>1. Shown(c, s, t, View(c, s), r, k) /\ Keeps(s, t)
            BY <1>6, <1>7, <2>2, <2>3, <2>6, ShapeResult
        <3>. QED
            BY <3>1 DEF Moving
    <2>. QED
        BY <1>1, <1>7, <2>1, <2>4, <2>5, <2>6, Commands DEF Outcome
<1>. QED
    BY <1>4, <1>8, <1>9

LEMMA Writes ==
    ASSUME NEW c \in Consoles, NEW s, IsState(c, s), Settled(s.con), NEW ch, Usual(s, ch),
           {"wrap", "outside", "params"} \cap Habits = {}
    PROVE  Outcome(c, s, write_char(s, ch))
<1>1. s.con.write_state \in {"NORMAL", "ESC", "SQUARE"}
    BY StateFields DEF ConsoleRecords
<1>2. CASE s.con.write_state = "NORMAL"
    BY <1>2, WritesNormal DEF write_char
<1>3. CASE s.con.write_state = "ESC"
    BY <1>3, WritesEsc DEF write_char
<1>4. CASE s.con.write_state = "SQUARE"
    BY <1>4, WritesSquare DEF write_char
<1>. QED
    BY <1>1, <1>2, <1>3, <1>4

-----------------------------------------------------------------------------
(* The consoles together. *)

LEMMA OfState ==
    ASSUME ConsoleInv, NEW c \in Consoles, console[c].base # -1
    PROVE  IsState(c, Of(c)) /\ Settled(Of(c).con)
<1>1. console[c] \in ConsoleRecords /\ disp \in Displays /\ console[c].base = c * CELLS /\ Settled(console[c])
    BY DEF ConsoleInv
<1>2. Of(c) = [con |-> console[c], disp |-> disp]
    BY DEF Of
<1>3. Of(c).con = console[c] /\ Of(c).disp = disp
    BY <1>2
<1>. QED
    BY <1>1, <1>2, <1>3 DEF IsState, States

\* A step that leaves the consoles what they are.
ConsolesKept ==
    /\ console' \in [Consoles -> ConsoleRecords] /\ disp' \in Displays
    /\ \A e \in Consoles : console'[e].base \in {-1, e * CELLS} /\ Settled(console'[e])
    /\ \A e \in Consoles : console'[e].base = -1 => console[e].base = -1

TextKept ==
    /\ ofifo' = [e \in Consoles |-> ofifo'[e]] /\ curr_console_index' \in Consoles
    /\ \A e \in Consoles : console[e].base = -1 => ofifo'[e] = <<>>

LEMMA ConsoleInvNext ==
    ASSUME ConsoleInv, ConsolesKept, TextKept
    PROVE  ConsoleInv'
    BY DEF ConsoleInv, ConsolesKept, TextKept

\* One console has changed, and the others show what they showed.
LEMMA OneConsole ==
    ASSUME ConsoleInv, NEW c \in Consoles, NEW t, IsState(c, t), Settled(t.con), Becomes(c, t),
           \A e \in Consoles \ {c} : View(e, t) = View(e, Of(c))
    PROVE  /\ ConsolesKept
           /\ Windows' = [Windows EXCEPT ![c] = View(c, t)]
           /\ Cursors' = [Cursors EXCEPT ![c] = <<t.con.row, t.con.col>>]
           /\ SavedCursors' = [SavedCursors EXCEPT ![c] = <<t.con.old_row, t.con.old_col>>]
<1>1. /\ console \in [Consoles -> ConsoleRecords]
      /\ \A e \in Consoles : console[e].base \in {-1, e * CELLS} /\ Settled(console[e])
    BY DEF ConsoleInv
<1>2. PICK x \in ConsoleRecords, d \in Displays : x = t.con /\ d = t.disp /\ x.base = c * CELLS
    BY StateFields
<1>3. console' = [console EXCEPT ![c] = x] /\ disp' = d
    BY <1>2 DEF Becomes
<1>4. console' \in [Consoles -> ConsoleRecords]
    BY <1>1, <1>2, <1>3
<1>5. \A e \in Consoles : console'[e] = IF e = c THEN x ELSE console[e]
    BY <1>1, <1>3
<1>6. x.base # -1
    <2>1. c * CELLS \in Nat
        BY Sizes DEF Consoles
    <2>. QED
        BY <1>2, <2>1
<1>7. ASSUME NEW e \in Consoles
      PROVE  /\ console'[e].base \in {-1, e * CELLS} /\ Settled(console'[e])
             /\ console'[e].base = -1 => console[e].base = -1
    <2>1. CASE e = c
        BY <1>2, <1>5, <1>6, <2>1
    <2>2. CASE e # c
        BY <1>1, <1>5, <2>2
    <2>. QED
        BY <2>1, <2>2
<1>11. ConsolesKept
    BY <1>2, <1>3, <1>4, <1>7 DEF ConsolesKept
<1>8. Windows' = [Windows EXCEPT ![c] = View(c, t)]
    <2>1. Of(c).disp = disp
        BY DEF Of
    <2>2. \A e \in Consoles : Window(e, disp') = IF e = c THEN View(c, t) ELSE Window(e, disp)
        BY <1>2, <1>3, <2>1 DEF View
    <2>3. Windows' = [e \in Consoles |-> Window(e, disp')]
        BY DEF Windows
    <2>4. Windows' = [e \in Consoles |-> IF e = c THEN View(c, t) ELSE Window(e, disp)]
        BY <2>2, <2>3
    <2>. QED
        BY <2>4 DEF Windows
<1>9. Cursors' = [Cursors EXCEPT ![c] = <<t.con.row, t.con.col>>]
    BY <1>2, <1>5 DEF Cursors
<1>10. SavedCursors' = [SavedCursors EXCEPT ![c] = <<t.con.old_row, t.con.old_col>>]
    BY <1>2, <1>5 DEF SavedCursors
<1>. QED
    BY <1>8, <1>9, <1>10, <1>11

\* What a console shows, as the screens have it.
LEMMA OfScreen ==
    ASSUME ConsoleInv, NEW c \in Consoles
    PROVE  /\ Windows[c] = View(c, Of(c)) /\ Cursors[c] = <<Of(c).con.row, Of(c).con.col>>
           /\ TheScreens!Row(c) = Of(c).con.row /\ TheScreens!Col(c) = Of(c).con.col
           /\ SavedCursors[c] = <<Of(c).con.old_row, Of(c).con.old_col>>
           /\ SavedCursors = [SavedCursors EXCEPT ![c] = SavedCursors[c]]
           /\ Cursors = [Cursors EXCEPT ![c] = Cursors[c]]
           /\ Windows = [Windows EXCEPT ![c] = Windows[c]]
<1>1. Of(c).con = console[c] /\ Of(c).disp = disp
    BY DEF Of
<1>2. Windows[c] = View(c, Of(c))
    BY <1>1 DEF Windows, View
<1>3. Cursors[c] = <<Of(c).con.row, Of(c).con.col>>
    BY <1>1 DEF Cursors
<1>4. SavedCursors[c] = <<Of(c).con.old_row, Of(c).con.old_col>>
    BY <1>1 DEF SavedCursors
<1>5. SavedCursors = [SavedCursors EXCEPT ![c] = SavedCursors[c]]
    BY DEF SavedCursors
<1>6. Cursors = [Cursors EXCEPT ![c] = Cursors[c]]
    BY DEF Cursors
<1>7. Windows = [Windows EXCEPT ![c] = Windows[c]]
    BY DEF Windows
<1>. QED
    BY <1>2, <1>3, <1>4, <1>5, <1>6, <1>7 DEF TheScreens!Row, TheScreens!Col

LEMMA ScreenWords ==
    /\ TheScreens!Rows = Rows /\ TheScreens!Cols = Cols
    /\ TheScreens!BlankWindow = Blanks /\ TheScreens!BlankLine = BlankRow
    /\ (Characters \ {Space}) \cup {Space} = Characters
    BY Blank1 DEF TheScreens!Rows, TheScreens!Cols, TheScreens!BlankWindow, TheScreens!BlankLine,
        Rows, Cols, Blanks, BlankRow

\* A byte is a step of the screen.
LEMMA ByteIsStep ==
    ASSUME ConsoleInv, NEW c \in Consoles, NEW t, console[c].base # -1, Outcome(c, Of(c), t),
           Becomes(c, t), UNCHANGED curr_console_index
    PROVE  /\ IsState(c, t) /\ Settled(t.con)
           /\ \A e \in Consoles \ {c} : View(e, t) = View(e, Of(c))
           /\ TheScreens!Next
<1>1. PICK s : s = Of(c)
    OBVIOUS
<1>2. /\ IsState(c, t) /\ Settled(t.con)
      /\ \A e \in Consoles \ {c} : View(e, t) = View(e, s)
    BY <1>1 DEF Outcome, Moving, Writing, Scrolling, Deleting, Saving, Clearing, Shown
<1>3. /\ Windows' = [Windows EXCEPT ![c] = View(c, t)]
      /\ Cursors' = [Cursors EXCEPT ![c] = <<t.con.row, t.con.col>>]
      /\ SavedCursors' = [SavedCursors EXCEPT ![c] = <<t.con.old_row, t.con.old_col>>]
    BY <1>1, <1>2, OneConsole
<1>4. /\ Windows[c] = View(c, s) /\ Cursors[c] = <<s.con.row, s.con.col>>
      /\ TheScreens!Row(c) = s.con.row /\ TheScreens!Col(c) = s.con.col
      /\ SavedCursors[c] = <<s.con.old_row, s.con.old_col>>
      /\ SavedCursors = [SavedCursors EXCEPT ![c] = SavedCursors[c]]
      /\ Cursors = [Cursors EXCEPT ![c] = Cursors[c]]
      /\ Windows = [Windows EXCEPT ![c] = Windows[c]]
    BY <1>1, OfScreen
<1>5. s.con.row \in Rows /\ s.con.col \in Cols
    BY <1>1, OfState DEF Settled
<1>6. ASSUME NEW w, NEW row, NEW col, Keeps(s, t), Shown(c, s, t, w, row, col)
      PROVE  TheScreens!Becomes(c, w, <<row, col>>)
    <2>1. SavedCursors' = SavedCursors
        BY <1>3, <1>4, <1>6 DEF Keeps
    <2>2. Windows' = [Windows EXCEPT ![c] = w] /\ Cursors' = [Cursors EXCEPT ![c] = <<row, col>>]
        BY <1>3, <1>6 DEF Shown
    <2>. QED
        BY <2>1, <2>2 DEF TheScreens!Becomes
<1>7. ASSUME Moving(c, s, t) PROVE TheScreens!Next
    <2>1. PICK q \in Rows, j \in Cols : Shown(c, s, t, View(c, s), q, j)
        BY <1>7 DEF Moving
    <2>2. TheScreens!Becomes(c, Windows[c], <<q, j>>)
        BY <1>4, <1>6, <1>7, <2>1 DEF Moving
    <2>3. TheScreens!GoTo(c)
        BY <2>2, ScreenWords DEF TheScreens!GoTo, TheScreens!MovesTo
    <2>. QED
        BY <2>3 DEF TheScreens!Next
<1>8. ASSUME Writing(c, s, t) PROVE TheScreens!Next
    <2>6. PICK ch \in Characters : \E w :
              /\ w = Put(View(c, s), s.con.row, s.con.col, ch)
              /\ \/ s.con.col < COLS - 1 /\ Shown(c, s, t, w, s.con.row, s.con.col + 1)
                 \/ /\ ~(s.con.col < COLS - 1) /\ s.con.row < ROWS - 1
                    /\ Shown(c, s, t, w, s.con.row + 1, 0)
        BY <1>8 DEF Writing
    <2>1. PICK w :
              /\ w = Put(View(c, s), s.con.row, s.con.col, ch)
              /\ \/ s.con.col < COLS - 1 /\ Shown(c, s, t, w, s.con.row, s.con.col + 1)
                 \/ /\ ~(s.con.col < COLS - 1) /\ s.con.row < ROWS - 1
                    /\ Shown(c, s, t, w, s.con.row + 1, 0)
        BY <2>6
    <2>2. w = [Windows[c] EXCEPT ![TheScreens!Row(c)][TheScreens!Col(c)] = ch]
        BY <1>4, <2>1 DEF Put
    <2>3. ASSUME s.con.col < COLS - 1 /\ Shown(c, s, t, w, s.con.row, s.con.col + 1)
          PROVE  TheScreens!Write(c, ch)
        <3>1. TheScreens!Becomes(c, w, <<TheScreens!Row(c), TheScreens!Col(c) + 1>>)
            BY <1>4, <1>6, <1>8, <2>3 DEF Writing
        <3>. QED
            BY <1>4, <2>2, <2>3, <3>1 DEF TheScreens!Write
    <2>4. ASSUME /\ ~(s.con.col < COLS - 1) /\ s.con.row < ROWS - 1
                 /\ Shown(c, s, t, w, s.con.row + 1, 0)
          PROVE  TheScreens!Write(c, ch)
        <3>1. TheScreens!Becomes(c, w, <<TheScreens!Row(c) + 1, 0>>)
            BY <1>4, <1>6, <1>8, <2>4 DEF Writing
        <3>2. TheScreens!Down(c, w, 0)
            BY <1>4, <2>4, <3>1 DEF TheScreens!Down
        <3>. QED
            BY <1>4, <2>2, <2>4, <3>2 DEF TheScreens!Write
    <2>5. TheScreens!Write(c, ch)
        BY <2>1, <2>3, <2>4
    <2>. QED
        BY <2>5, ScreenWords DEF TheScreens!Next
<1>9. ASSUME Scrolling(c, s, t) PROVE TheScreens!Next
    <2>1. TheScreens!Becomes(c, Scrolled(Windows[c]), <<TheScreens!Row(c), TheScreens!Col(c)>>)
        BY <1>4, <1>6, <1>9 DEF Scrolling
    <2>2. Scrolled(Windows[c]) = [r \in TheScreens!Rows |->
              IF r < ROWS - 1 THEN Windows[c][r + 1] ELSE TheScreens!BlankLine]
        BY ScreenWords DEF Scrolled
    <2>3. TheScreens!Newline(c)
        BY <1>4, <1>9, <2>1, <2>2 DEF TheScreens!Newline, TheScreens!Down, Scrolling
    <2>. QED
        BY <2>3 DEF TheScreens!Next
<1>10. ASSUME Deleting(c, s, t) PROVE TheScreens!Next
    <2>1. PICK q \in Rows, j \in Cols :
              /\ q = BeforeRow(s.con.row, s.con.col) /\ j = BeforeCol(s.con.col)
              /\ Shown(c, s, t, Put(View(c, s), q, j, Space), q, j)
        BY <1>10 DEF Deleting
    <2>2. TheScreens!Before(c) = <<q, j>>
        BY <1>4, <2>1 DEF TheScreens!Before, BeforeRow, BeforeCol
    <2>3. Cursors[c] # <<0, 0>>
        BY <1>4, <1>10 DEF Deleting
    <2>4. TheScreens!Becomes(c, Put(Windows[c], q, j, Space), <<q, j>>)
        BY <1>4, <1>6, <1>10, <2>1 DEF Deleting
    <2>5. TheScreens!Delete(c)
        BY <2>2, <2>3, <2>4 DEF TheScreens!Delete, Put
    <2>. QED
        BY <2>5 DEF TheScreens!Next
<1>11. ASSUME Saving(c, s, t) PROVE TheScreens!Next
    <2>1. /\ t.con.old_row = s.con.row /\ t.con.old_col = s.con.col /\ View(c, t) = View(c, s)
          /\ t.con.row = s.con.row /\ t.con.col = s.con.col
        BY <1>11 DEF Saving, Shown
    <2>2. Windows' = Windows /\ Cursors' = Cursors
        BY <1>3, <1>4, <2>1
    <2>3. SavedCursors' = [SavedCursors EXCEPT ![c] = Cursors[c]]
        BY <1>3, <1>4, <2>1
    <2>4. TheScreens!Save(c)
        BY <2>2, <2>3 DEF TheScreens!Save
    <2>. QED
        BY <2>4 DEF TheScreens!Next
<1>12. ASSUME Clearing(c, s, t) PROVE TheScreens!Next
    <2>1. TheScreens!Becomes(c, Blanks, <<0, 0>>)
        BY <1>6, <1>12 DEF Clearing
    <2>2. TheScreens!Clear(c)
        BY <2>1, ScreenWords DEF TheScreens!Clear
    <2>. QED
        BY <2>2 DEF TheScreens!Next
<1>13. TheScreens!Next
    BY <1>1, <1>7, <1>8, <1>9, <1>10, <1>11, <1>12 DEF Outcome
<1>. QED
    BY <1>1, <1>2, <1>13

\* A console is opened: its window is cleared and its cursor is in the first place.
LEMMA Opens ==
    ASSUME ConsoleInv, NEW c \in Consoles, NEW t, t = console_init(Of(c), c)
    PROVE  /\ IsState(c, t) /\ Settled(t.con) /\ View(c, t) = Blanks
           /\ t.con.row = 0 /\ t.con.col = 0 /\ t.con.old_row = 0 /\ t.con.old_col = 0
           /\ \A e \in Consoles \ {c} : View(e, t) = View(e, Of(c))
<1>1. PICK x \in ConsoleRecords, d \in Displays : x = console[c] /\ d = disp /\ Settled(x)
    BY DEF ConsoleInv
<1>2. Of(c) = [con |-> x, disp |-> d]
    BY <1>1 DEF Of
<1>3. PICK b \in Int : b = c * CELLS
    BY Sizes DEF Consoles
<1>4. PICK x1 : x1 = [x EXCEPT !.base = b]
    OBVIOUS
<1>5. PICK x2 : x2 = [x1 EXCEPT !.row = 0]
    OBVIOUS
<1>6. PICK x3 : x3 = [x2 EXCEPT !.col = 0]
    OBVIOUS
<1>7. PICK x4 : x4 = [x3 EXCEPT !.old_row = 0]
    OBVIOUS
<1>13. PICK y : y = [x4 EXCEPT !.old_col = 0]
    OBVIOUS
<1>14. /\ x1 \in ConsoleRecords /\ x1.base = b
       /\ x1.curr_param_index = x.curr_param_index /\ x1.write_state = x.write_state
    BY <1>4 DEF ConsoleRecords
<1>15. /\ x2 \in ConsoleRecords /\ x2.base = b /\ x2.row = 0
       /\ x2.curr_param_index = x.curr_param_index /\ x2.write_state = x.write_state
    BY <1>5, <1>14 DEF ConsoleRecords
<1>16. /\ x3 \in ConsoleRecords /\ x3.base = b /\ x3.row = 0 /\ x3.col = 0
       /\ x3.curr_param_index = x.curr_param_index /\ x3.write_state = x.write_state
    BY <1>6, <1>15 DEF ConsoleRecords
<1>17. /\ x4 \in ConsoleRecords /\ x4.base = b /\ x4.row = 0 /\ x4.col = 0 /\ x4.old_row = 0
       /\ x4.curr_param_index = x.curr_param_index /\ x4.write_state = x.write_state
    BY <1>7, <1>16 DEF ConsoleRecords
<1>18. /\ y \in ConsoleRecords /\ y.base = b /\ y.row = 0 /\ y.col = 0 /\ y.old_row = 0 /\ y.old_col = 0
       /\ y.curr_param_index = x.curr_param_index /\ y.write_state = x.write_state
    BY <1>13, <1>17 DEF ConsoleRecords
<1>19. PICK u : u = [con |-> y, disp |-> d]
    OBVIOUS
<1>20. t = clear_display(u)
    <2>1. PICK u1 : u1 = [con |-> x1, disp |-> d]
        OBVIOUS
    <2>2. PICK u2 : u2 = [con |-> x2, disp |-> d]
        OBVIOUS
    <2>3. PICK u3 : u3 = [con |-> x3, disp |-> d]
        OBVIOUS
    <2>4. PICK u4 : u4 = [con |-> x4, disp |-> d]
        OBVIOUS
    <2>5. PICK v : v = Of(c)
        OBVIOUS
    <2>6. [v EXCEPT !.con.base = b] = u1
        BY <1>2, <1>4, <2>1, <2>5
    <2>7. [u1 EXCEPT !.con.row = 0] = u2
        BY <1>5, <2>1, <2>2
    <2>8. [u2 EXCEPT !.con.col = 0] = u3
        BY <1>6, <2>2, <2>3
    <2>9. [u3 EXCEPT !.con.old_row = 0] = u4
        BY <1>7, <2>3, <2>4
    <2>10. [u4 EXCEPT !.con.old_col = 0] = u
        BY <1>13, <1>19, <2>4
    <2>11. [v EXCEPT !.con.base = b, !.con.row = 0] = [u1 EXCEPT !.con.row = 0]
        BY <2>6, Zenon
    <2>12. [v EXCEPT !.con.base = b, !.con.row = 0, !.con.col = 0] = [u2 EXCEPT !.con.col = 0]
        BY <2>7, <2>11, Zenon
    <2>13. [v EXCEPT !.con.base = b, !.con.row = 0, !.con.col = 0, !.con.old_row = 0]
               = [u3 EXCEPT !.con.old_row = 0]
        BY <2>8, <2>12, Zenon
    <2>14. [v EXCEPT !.con.base = b, !.con.row = 0, !.con.col = 0, !.con.old_row = 0, !.con.old_col = 0]
               = [u4 EXCEPT !.con.old_col = 0]
        BY <2>9, <2>13, Zenon
    <2>. QED
        BY <1>3, <2>5, <2>10, <2>14 DEF console_init
<1>8. u.con = y /\ u.disp = d /\ IsState(c, u)
    BY <1>1, <1>3, <1>18, <1>19 DEF IsState, States
<1>9. Settled(u.con)
    BY <1>1, <1>8, <1>18, Ranges DEF Settled
<1>10. Result(c, u, t, Blanks, 0, 0)
    <2>1. Result(c, u, t, Blanks, u.con.row, u.con.col)
        BY <1>8, <1>20, Clears
    <2>. QED
        BY <1>8, <1>18, <2>1
<1>11. Shown(c, u, t, Blanks, 0, 0) /\ Keeps(u, t)
    BY <1>8, <1>9, <1>10, ResultShown, Ranges
<1>12. \A e \in Consoles \ {c} : View(e, t) = View(e, Of(c))
    <2>1. Of(c).disp = d
        BY <1>2
    <2>. QED
        BY <1>8, <1>11, <2>1 DEF Shown, View
<1>. QED
    BY <1>8, <1>11, <1>12, <1>18 DEF Shown, Keeps

LEMMA OpenBlanks ==
    ASSUME ConsoleInv, NEW c \in Consoles, Becomes(c, console_init(Of(c), c))
    PROVE  /\ ConsolesKept
           /\ TheScreens!Blanked(c)
<1>1. PICK t : t = console_init(Of(c), c)
    OBVIOUS
<1>2. /\ IsState(c, t) /\ Settled(t.con) /\ View(c, t) = Blanks
      /\ t.con.row = 0 /\ t.con.col = 0 /\ t.con.old_row = 0 /\ t.con.old_col = 0
      /\ \A e \in Consoles \ {c} : View(e, t) = View(e, Of(c))
    BY <1>1, Opens
<1>3. Becomes(c, t)
    BY <1>1
<1>4. /\ ConsolesKept
      /\ Windows' = [Windows EXCEPT ![c] = View(c, t)]
      /\ Cursors' = [Cursors EXCEPT ![c] = <<t.con.row, t.con.col>>]
      /\ SavedCursors' = [SavedCursors EXCEPT ![c] = <<t.con.old_row, t.con.old_col>>]
    BY <1>2, <1>3, OneConsole
<1>5. TheScreens!Blanked(c)
    BY <1>2, <1>4, ScreenWords DEF TheScreens!Blanked
<1>. QED
    BY <1>4, <1>5

\* Nothing shows when the consoles and the display stay.
LEMMA NothingShows ==
    ASSUME UNCHANGED <<disp, console>>
    PROVE  Windows' = Windows /\ Cursors' = Cursors /\ SavedCursors' = SavedCursors
    BY DEF Windows, Cursors, SavedCursors

LEMMA SelectIsStep ==
    ASSUME ConsoleInv, NEW c \in Consoles, console_select(c)
    PROVE  ConsoleInv' /\ TheScreens!Next
<1>1. curr_console_index' = c /\ ofifo' = ofifo
    BY DEF console_select
<1>2. CASE console[c].base = -1
    <2>1. Becomes(c, console_init(Of(c), c))
        BY <1>2 DEF console_select
    <2>2. /\ ConsolesKept
          /\ TheScreens!Blanked(c)
        BY <2>1, OpenBlanks
    <2>5. TextKept
        BY <1>1 DEF ConsoleInv, TextKept
    <2>3. ConsoleInv'
        BY <1>1, <2>2, <2>5, ConsoleInvNext
    <2>4. TheScreens!Select(c)
        BY <1>1, <2>2 DEF TheScreens!Select
    <2>. QED
        BY <2>3, <2>4 DEF TheScreens!Next
<1>3. CASE console[c].base # -1
    <2>1. UNCHANGED <<disp, console>>
        BY <1>3 DEF console_select
    <2>2. ConsoleInv'
        BY <1>1, <2>1 DEF ConsoleInv
    <2>3. TheScreens!Select(c)
        BY <1>1, <2>1, NothingShows DEF TheScreens!Select
    <2>. QED
        BY <2>2, <2>3 DEF TheScreens!Next
<1>. QED
    BY <1>2, <1>3

LEMMA OpenIsStep ==
    ASSUME ConsoleInv, NEW c \in Consoles, tty_open(c)
    PROVE  ConsoleInv' /\ TheScreens!Next
<1>1. curr_console_index' = curr_console_index /\ ofifo' = ofifo /\ Becomes(c, console_init(Of(c), c))
    BY DEF tty_open
<1>2. /\ ConsolesKept
      /\ TheScreens!Blanked(c)
    BY <1>1, OpenBlanks
<1>5. TextKept
    BY <1>1 DEF ConsoleInv, TextKept
<1>3. ConsoleInv'
    BY <1>1, <1>2, <1>5, ConsoleInvNext
<1>4. TheScreens!Open(c)
    BY <1>1, <1>2 DEF TheScreens!Open
<1>. QED
    BY <1>3, <1>4 DEF TheScreens!Next

LEMMA WriteIsStep ==
    ASSUME ConsoleInv, NEW c \in Consoles, console_write(c),
           {"wrap", "outside", "params"} \cap Habits = {}
    PROVE  ConsoleInv' /\ TheScreens!Next
<1>1. PICK ch : ch = Head(ofifo[c])
    OBVIOUS
<1>2. PICK t : t = write_char(Of(c), ch)
    OBVIOUS
<1>3. /\ ofifo[c] # <<>> /\ Usual(Of(c), ch) /\ Becomes(c, t)
      /\ ofifo' = [ofifo EXCEPT ![c] = Tail(@)] /\ UNCHANGED curr_console_index
    BY <1>1, <1>2 DEF console_write
<1>4. console[c].base # -1
    BY <1>3 DEF ConsoleInv
<1>5. IsState(c, Of(c)) /\ Settled(Of(c).con)
    BY <1>4, OfState
<1>6. Outcome(c, Of(c), t)
    BY <1>2, <1>3, <1>5, Writes
<1>7. /\ IsState(c, t) /\ Settled(t.con) /\ TheScreens!Next
      /\ \A e \in Consoles \ {c} : View(e, t) = View(e, Of(c))
    BY <1>3, <1>4, <1>6, ByteIsStep
<1>8. /\ ConsolesKept
    BY <1>3, <1>7, OneConsole
<1>9. /\ ofifo' = [e \in Consoles |-> ofifo'[e]]
      /\ \A e \in Consoles : e # c => ofifo'[e] = ofifo[e]
    BY <1>3 DEF ConsoleInv
<1>10. TextKept
    BY <1>3, <1>4, <1>9 DEF ConsoleInv, TextKept
<1>11. ConsoleInv'
    BY <1>8, <1>10, ConsoleInvNext
<1>. QED
    BY <1>7, <1>11

LEMMA TextStays ==
    ASSUME ConsoleInv, NEW c \in Consoles, Stops(c) \/ \E m \in Messages : tty_write(c, m)
    PROVE  ConsoleInv' /\ UNCHANGED TheScreens!vars
<1>1. PICK m : /\ ofifo' = [ofifo EXCEPT ![c] = m] /\ UNCHANGED <<disp, console, curr_console_index>>
               /\ console[c].base # -1
    BY DEF Stops, tty_write, ConsoleInv
<1>2. /\ ofifo' = [e \in Consoles |-> ofifo'[e]]
      /\ \A e \in Consoles : e # c => ofifo'[e] = ofifo[e]
    BY <1>1 DEF ConsoleInv
<1>3. ConsoleInv'
    BY <1>1, <1>2 DEF ConsoleInv
<1>. QED
    BY <1>1, <1>3, NothingShows DEF TheScreens!vars

LEMMA ConsolesStay ==
    ASSUME ConsoleInv, UNCHANGED consoleVars
    PROVE  ConsoleInv' /\ UNCHANGED TheScreens!vars
    BY NothingShows DEF ConsoleInv, TheScreens!vars, consoleVars

\* The terminal that the handler leaves selected is one of the terminals.
LEMMA HandledTty ==
    ASSUME NEW b, cur_tty \in Consoles
    PROVE  Handled(Kbd, b).tty \in Consoles
<1>1. PICK k : k = Kbd
    OBVIOUS
<1>2. k = [flags |-> kbd_state, recv |-> recv_state, tty |-> cur_tty, inputs |-> inputs]
    BY <1>1 DEF Kbd
<1>3. \A f \in DOMAIN Fx : Fx[f] \in Consoles
    BY KeyboardAssumption
<1>4. ASSUME NEW j, j = k \/ j = [k EXCEPT !.recv = "NORMAL"]
      PROVE  do_normal_key(j, b).tty \in Consoles /\ do_e0_key(j, b).tty \in Consoles
    <2>1. j.tty = cur_tty /\ "tty" \in DOMAIN j
        BY <1>2, <1>4
    <2>2. \A f, v : Sets(j, f, v).tty = j.tty
        BY <1>2, <1>4 DEF Sets
    <2>3. \A ch : tty_in(j, ch).tty = j.tty
        BY <1>2, <1>4 DEF tty_in
    <2>4. \A f \in DOMAIN Fx : do_fx_key(j, f).tty \in Consoles
        <3>1. \A f \in DOMAIN Fx : tty_select(j, Fx[f]).tty = Fx[f]
            BY <1>2, <1>4 DEF tty_select
        <3>. QED
            BY <1>3, <2>1, <3>1 DEF do_fx_key
    <2>5. do_normal_key(j, b).tty \in Consoles
        BY <2>1, <2>2, <2>3, <2>4 DEF do_normal_key
    <2>6. do_e0_key(j, b).tty \in Consoles
        BY <2>1, <2>2 DEF do_e0_key
    <2>. QED
        BY <2>5, <2>6
<1>5. /\ k.tty = cur_tty
      /\ \A v : [k EXCEPT !.recv = v].tty = cur_tty
    BY <1>2
<1>. QED
    BY <1>1, <1>4, <1>5 DEF Handled

-----------------------------------------------------------------------------
TerminalInv == ConsoleInv /\ cur_tty = curr_console_index

LEMMA TerminalInit == Init => TerminalInv /\ TheScreens!Init
<1> SUFFICES ASSUME Init PROVE TerminalInv /\ TheScreens!Init
    OBVIOUS
<1>1. PICK corner \in BootCursor : console = [c \in Consoles |->
            [base |-> IF c = 0 THEN 0 ELSE -1, esc_param |-> NoParams, curr_param_index |-> 0,
             row |-> IF c = 0 THEN corner[1] ELSE 0, col |-> IF c = 0 THEN corner[2] ELSE 0,
             old_row |-> IF c = 0 THEN corner[1] ELSE 0, old_col |-> IF c = 0 THEN corner[2] ELSE 0,
             write_state |-> "NORMAL"]]
    BY DEF Init, ConsoleInit
<1>2. PICK r \in Rows, k \in Cols : r = corner[1] /\ k = corner[2]
    BY ConsoleAssumption DEF Rows, Cols
<1>3. /\ 0 \in Rows /\ 0 \in Cols /\ r \in Int /\ k \in Int /\ NoParams \in [ParamRange -> Nat]
      /\ 0 \in 0 .. ESC_PARAM_MAX + 1 /\ 0 <= ESC_PARAM_MAX
    BY Ranges, Params DEF NoParams, ParamRange
<1>4. 0 * CELLS = 0 /\ 0 \in Consoles
    <2>1. 0 * CELLS = 0
        BY Sizes
    <2>2. 0 \in Consoles
        BY ConsoleAssumption DEF Consoles
    <2>. QED
        BY <2>1, <2>2
<1>5. ASSUME NEW c \in Consoles
      PROVE  /\ console[c] \in ConsoleRecords /\ console[c].base \in {-1, c * CELLS} /\ Settled(console[c])
             /\ console[c].row = console[c].old_row /\ console[c].col = console[c].old_col
    <2>1. PICK q \in Rows, j \in Cols, b \in {-1, c * CELLS} :
              console[c] = [base |-> b, esc_param |-> NoParams, curr_param_index |-> 0,
                            row |-> q, col |-> j, old_row |-> q, old_col |-> j, write_state |-> "NORMAL"]
        <3>1. CASE c = 0
            BY <1>1, <1>2, <1>4, <3>1
        <3>2. CASE c # 0
            BY <1>1, <1>3, <3>2
        <3>. QED
            BY <3>1, <3>2
    <2>2. q \in Int /\ j \in Int /\ b \in Int
        BY Ranges, Sizes DEF Consoles
    <2>3. console[c] \in ConsoleRecords
        BY <1>3, <2>1, <2>2 DEF ConsoleRecords
    <2>4. Settled(console[c])
        BY <1>3, <2>1 DEF Settled
    <2>. QED
        BY <2>1, <2>3, <2>4
<1>6. disp = Boot /\ curr_console_index = 0 /\ ofifo = [c \in Consoles |-> <<>>] /\ cur_tty = 0
    BY DEF Init, ConsoleInit, KeyboardInit
<1>7. disp \in Displays
    <2>1. Boot = [i \in DOMAIN Boot |-> Boot[i]]
        <3>1. PICK N : N = 0 .. CONSOLE_NR * ROWS * COLS - 1
            OBVIOUS
        <3>2. Boot = [i \in N |-> Boot[i]]
            BY <3>1, ConsoleAssumption
        <3>. QED
            BY <3>2
    <2>2. \A i \in DOMAIN Boot : Boot[i] \in Characters
        BY DEF Characters
    <2>. QED
        BY <1>6, <2>1, <2>2 DEF Displays
<1>8. console \in [Consoles -> ConsoleRecords]
    BY <1>1, <1>5
<1>9. TerminalInv
    BY <1>4, <1>5, <1>6, <1>7, <1>8 DEF TerminalInv, ConsoleInv
<1>10. Windows \in [Consoles -> [Rows -> [Cols -> Characters]]]
    <2>1. \A c \in Consoles, r1 \in Rows, k1 \in Cols : disp[Place(c, r1, k1)] \in Characters
        BY <1>7, PlaceRange DEF Displays
    <2>2. \A c \in Consoles : Window(c, disp) \in [Rows -> [Cols -> Characters]]
        BY <2>1, WindowAt
    <2>. QED
        BY <2>2 DEF Windows
<1>11. Cursors \in [Consoles -> Rows \X Cols] /\ SavedCursors = Cursors
    BY <1>5 DEF Cursors, SavedCursors, Settled
<1>12. TheScreens!Init
    BY <1>4, <1>6, <1>10, <1>11, ScreenWords DEF TheScreens!Init
<1>. QED
    BY <1>9, <1>12

\* Every step of the terminals is a step of the screens, or does not show.
LEMMA TerminalStep ==
    ASSUME {"wrap", "outside", "params"} \cap Habits = {}, TerminalInv, [Next]_vars
    PROVE  TerminalInv' /\ [TheScreens!Next]_TheScreens!vars
<1>1. ConsoleInv /\ cur_tty = curr_console_index /\ cur_tty \in Consoles
    BY DEF TerminalInv, ConsoleInv
<1>2. CASE do_handler_kbd
    <2>1. PICK k : k = Handled(Kbd, Head(wire)).tty
        OBVIOUS
    <2>2. cur_tty' = k /\ (IF k = cur_tty THEN UNCHANGED consoleVars ELSE console_select(k))
        BY <1>2, <2>1 DEF do_handler_kbd
    <2>3. k \in Consoles
        BY <1>1, <2>1, HandledTty
    <2>4. CASE k = cur_tty
        BY <1>1, <2>2, <2>4, ConsolesStay DEF TerminalInv, consoleVars
    <2>5. CASE k # cur_tty
        <3>1. console_select(k)
            BY <2>2, <2>5
        <3>2. ConsoleInv' /\ TheScreens!Next
            BY <1>1, <2>3, <3>1, SelectIsStep
        <3>. QED
            BY <2>2, <3>1, <3>2 DEF TerminalInv, console_select
    <2>. QED
        BY <2>4, <2>5
<1>3. CASE \E key \in Keys : Press(key) \/ Repeat(key) \/ Release(key)
    <2>1. UNCHANGED consoleVars /\ cur_tty' = cur_tty
        BY <1>3 DEF Press, Repeat, Release, Sends
    <2>. QED
        BY <1>1, <2>1, ConsolesStay DEF TerminalInv, consoleVars
<1>4. CASE Output
    <2>1. PICK idx \in Consoles :
              \/ console_write(idx) /\ UNCHANGED keyboardVars
              \/ Stops(idx) /\ UNCHANGED keyboardVars
              \/ /\ tty_open(idx) \/ \E m \in Messages : tty_write(idx, m)
                 /\ Takes(TextCost)
                 /\ UNCHANGED <<kbd_state, recv_state, cur_tty, inputs, wire, held, wanted>>
        BY <1>4 DEF Output
    <2>2. cur_tty' = cur_tty /\ curr_console_index' = curr_console_index
        BY <2>1 DEF keyboardVars, console_write, Stops, tty_open, tty_write
    <2>3. CASE console_write(idx)
        BY <1>1, <2>2, <2>3, WriteIsStep DEF TerminalInv
    <2>4. CASE Stops(idx) \/ \E m \in Messages : tty_write(idx, m)
        BY <1>1, <2>2, <2>4, TextStays DEF TerminalInv
    <2>5. CASE tty_open(idx)
        BY <1>1, <2>2, <2>5, OpenIsStep DEF TerminalInv
    <2>. QED
        BY <2>1, <2>3, <2>4, <2>5
<1>5. CASE Rest \/ UNCHANGED vars
    <2>1. UNCHANGED consoleVars /\ cur_tty' = cur_tty
        BY <1>5 DEF Rest, vars, keyboardVars
    <2>. QED
        BY <1>1, <2>1, ConsolesStay DEF TerminalInv, consoleVars
<1>. QED
    BY <1>2, <1>3, <1>4, <1>5 DEF Next, Keyboard

\* The consoles share one display memory, and every byte of every program works on it;
\* yet each terminal's window, cursor and saved cursor are those of a screen of its own,
\* for every number and size of windows, all texts and all keys, as long as no program
\* writes in the last place, moves the cursor out of the window, or gives more
\* parameters than there is room for.
THEOREM TerminalsAreScreens ==
    ASSUME {"wrap", "outside", "params"} \cap Habits = {}
    PROVE  TermSpec => ScreensSpec
<1>1. TerminalInv /\ [Next]_vars => TerminalInv' /\ [TheScreens!Next]_TheScreens!vars
    BY TerminalStep
<1>. QED
    BY <1>1, TerminalInit, PTL DEF TermSpec, ScreensSpec, TheScreens!Spec

(***************************************************************************)
(* The keyboard.  The bytes that are still on the way lead the handler to  *)
(* where the user wants it: that is what every key keeps true, in whatever *)
(* state the handler is when the key is pressed.                           *)
(***************************************************************************)
ScanKeys == Keys \cup {E0Keys[k] : k \in DOMAIN E0Keys} \cup {"E0", "E1", "NUM"}
Codes == [key : ScanKeys, make : BOOLEAN]

IsKbd(k) ==
    /\ k = [flags |-> k.flags, recv |-> k.recv, tty |-> k.tty, inputs |-> k.inputs]
    /\ k.flags \in [Flags -> BOOLEAN] /\ k.recv \in {"NORMAL", "BEGIN_E0", "BEGIN_E1"}

\* The bytes w lead the handler from a to b.
Leads(w, a, b) == \E run :
    /\ DOMAIN run = 1 .. Len(w) + 1 /\ run[1] = a /\ run[Len(w) + 1] = b
    /\ \A i \in 1 .. Len(w) : run[i + 1] = Handled(run[i], w[i])

\* What the user wants, w, when the keys in down are down.
MeantOf(w, down) ==
    [flags |-> FlagsOf(w.caps, down), recv |-> "NORMAL", tty |-> w.tty, inputs |-> w.inputs]

IsWish(w) == w = [caps |-> w.caps, tty |-> w.tty, inputs |-> w.inputs] /\ w.caps \in BOOLEAN

\* Without "release" a function key that is down is the only one, and it has been obeyed.
OneFunctionKey == \A f \in held \cap DOMAIN Fx :
    /\ held \cap DOMAIN Fx = {f}
    /\ held \cap {"CTRL", "RCTRL"} # {} => wanted.tty = Fx[f]

KeyboardInv ==
    /\ TerminalInv
    /\ IsKbd(Kbd) /\ IsWish(wanted)
    /\ wire \in Seq(Codes) /\ held \subseteq Keys
    /\ Leads(wire, Kbd, MeantOf(wanted, held))
    /\ OneFunctionKey

-----------------------------------------------------------------------------
(* Bytes one after another. *)

LEMMA NoBytes ==
    ASSUME NEW a, NEW b
    PROVE  /\ Leads(<<>>, a, a)
           /\ Leads(<<>>, a, b) => a = b
<1>1. Len(<<>>) = 0
    OBVIOUS
<1>2. Leads(<<>>, a, a)
    <2>1. PICK run : run = [i \in 1 .. 1 |-> a]
        OBVIOUS
    <2>2. DOMAIN run = 1 .. Len(<<>>) + 1 /\ run[1] = a /\ run[Len(<<>>) + 1] = a
        BY <1>1, <2>1
    <2>3. \A i \in 1 .. Len(<<>>) : run[i + 1] = Handled(run[i], <<>>[i])
        BY <1>1
    <2>. QED
        BY <2>2, <2>3 DEF Leads
<1>3. Leads(<<>>, a, b) => a = b
    BY <1>1 DEF Leads
<1>. QED
    BY <1>2, <1>3

LEMMA OneByte ==
    ASSUME NEW x, NEW a
    PROVE  Leads(<<x>>, a, Handled(a, x))
<1>1. PICK h : h = Handled(a, x)
    OBVIOUS
<1>2. PICK run : run = [i \in 1 .. 2 |-> IF i = 1 THEN a ELSE h]
    OBVIOUS
<1>3. Len(<<x>>) = 1 /\ <<x>>[1] = x
    OBVIOUS
<1>4. DOMAIN run = 1 .. Len(<<x>>) + 1 /\ run[1] = a /\ run[Len(<<x>>) + 1] = h
    BY <1>2, <1>3
<1>5. ASSUME NEW i \in 1 .. Len(<<x>>) PROVE run[i + 1] = Handled(run[i], <<x>>[i])
    <2>1. i = 1 /\ i + 1 = 2
        BY <1>3
    <2>2. run[1] = a /\ run[2] = h
        BY <1>2
    <2>. QED
        BY <1>1, <1>3, <2>1, <2>2
<1>. QED
    BY <1>1, <1>4, <1>5 DEF Leads

LEMMA BytesJoin ==
    ASSUME NEW v \in Seq(Codes), NEW w \in Seq(Codes), NEW a, NEW b, NEW c,
           Leads(v, a, b), Leads(w, b, c)
    PROVE  Leads(v \o w, a, c)
<1>1. PICK f : /\ DOMAIN f = 1 .. Len(v) + 1 /\ f[1] = a /\ f[Len(v) + 1] = b
               /\ \A i \in 1 .. Len(v) : f[i + 1] = Handled(f[i], v[i])
    BY DEF Leads
<1>2. PICK g : /\ DOMAIN g = 1 .. Len(w) + 1 /\ g[1] = b /\ g[Len(w) + 1] = c
               /\ \A i \in 1 .. Len(w) : g[i + 1] = Handled(g[i], w[i])
    BY DEF Leads
<1>3. PICK m \in Nat, n \in Nat : m = Len(v) /\ n = Len(w)
    OBVIOUS
<1>9. v \o w \in Seq(Codes)
    OBVIOUS
<1>4. PICK u \in Seq(Codes) : u = v \o w
    BY <1>9, Zenon
<1>5. /\ Len(u) = m + n
      /\ \A i \in 1 .. m : u[i] = v[i]
      /\ \A i \in 1 .. n : u[m + i] = w[i]
    BY <1>3, <1>4
<1>6. PICK run : run = [i \in 1 .. m + n + 1 |-> IF i <= m THEN f[i] ELSE g[i - m]]
    OBVIOUS
<1>7. DOMAIN run = 1 .. Len(u) + 1 /\ run[1] = a /\ run[Len(u) + 1] = c
    <2>1. DOMAIN run = 1 .. Len(u) + 1
        BY <1>5, <1>6
    <2>2. run[1] = a
        <3>1. 1 \in 1 .. m + n + 1
            OBVIOUS
        <3>2. CASE 1 <= m
            BY <1>1, <1>6, <3>1, <3>2
        <3>3. CASE ~(1 <= m)
            <4>1. m = 0
                BY <3>3
            <4>. QED
                BY <1>1, <1>2, <1>3, <1>6, <3>1, <3>3, <4>1
        <3>. QED
            BY <3>2, <3>3
    <2>3. run[Len(u) + 1] = c
        <3>1. m + n + 1 \in 1 .. m + n + 1 /\ ~(m + n + 1 <= m) /\ m + n + 1 - m = n + 1
            OBVIOUS
        <3>. QED
            BY <1>2, <1>3, <1>5, <1>6, <3>1
    <2>. QED
        BY <2>1, <2>2, <2>3
<1>8. ASSUME NEW i \in 1 .. Len(u) PROVE run[i + 1] = Handled(run[i], u[i])
    <2>1. i \in 1 .. m + n /\ i \in 1 .. m + n + 1 /\ i + 1 \in 1 .. m + n + 1
        BY <1>5
    <2>2. CASE i < m
        <3>1. i <= m /\ i + 1 <= m /\ i \in 1 .. m
            BY <2>1, <2>2
        <3>2. run[i] = f[i] /\ run[i + 1] = f[i + 1] /\ u[i] = v[i]
            BY <1>5, <1>6, <2>1, <3>1
        <3>. QED
            BY <1>1, <1>3, <3>1, <3>2
    <2>3. CASE i = m
        <3>1. i <= m /\ ~(i + 1 <= m) /\ i + 1 - m = 1 /\ i \in 1 .. m
            BY <2>1, <2>3
        <3>2. run[i] = f[i] /\ run[i + 1] = g[1] /\ u[i] = v[i]
            BY <1>5, <1>6, <2>1, <3>1
        <3>3. g[1] = f[i + 1]
            BY <1>1, <1>2, <1>3, <2>3
        <3>. QED
            BY <1>1, <1>3, <3>1, <3>2, <3>3
    <2>4. CASE i > m
        <3>1. PICK j \in 1 .. n : i = m + j
            <4>1. i - m \in 1 .. n /\ i = m + (i - m)
                BY <2>1, <2>4
            <4>. QED
                BY <4>1
        <3>2. ~(i <= m) /\ ~(i + 1 <= m) /\ i - m = j /\ i + 1 - m = j + 1
            BY <2>1, <2>4, <3>1
        <3>3. run[i] = g[j] /\ run[i + 1] = g[j + 1] /\ u[i] = w[j]
            BY <1>5, <1>6, <2>1, <3>1, <3>2
        <3>. QED
            BY <1>2, <1>3, <3>1, <3>3
    <2>. QED
        BY <2>1, <2>2, <2>3, <2>4
<1>. QED
    BY <1>4, <1>7, <1>8 DEF Leads

LEMMA FirstByte ==
    ASSUME NEW w \in Seq(Codes), w # <<>>, NEW a, NEW b, Leads(w, a, b)
    PROVE  Leads(Tail(w), Handled(a, Head(w)), b)
<1>1. PICK f : /\ DOMAIN f = 1 .. Len(w) + 1 /\ f[1] = a /\ f[Len(w) + 1] = b
               /\ \A i \in 1 .. Len(w) : f[i + 1] = Handled(f[i], w[i])
    BY DEF Leads
<1>2. PICK n \in Nat : Len(w) = n + 1
    <2>1. Len(w) - 1 \in Nat
        OBVIOUS
    <2>. QED
        BY <2>1
<1>9. Tail(w) \in Seq(Codes)
    OBVIOUS
<1>3. PICK u \in Seq(Codes) : u = Tail(w)
    BY <1>9, Zenon
<1>4. Len(u) = n /\ Head(w) = w[1] /\ \A i \in 1 .. n : u[i] = w[i + 1]
    BY <1>2, <1>3
<1>5. PICK run : run = [i \in 1 .. n + 1 |-> f[i + 1]]
    OBVIOUS
<1>6. DOMAIN run = 1 .. Len(u) + 1 /\ run[1] = f[2] /\ run[Len(u) + 1] = b
    <2>1. 1 \in 1 .. n + 1 /\ n + 1 \in 1 .. n + 1
        OBVIOUS
    <2>. QED
        BY <1>1, <1>2, <1>4, <1>5, <2>1
<1>7. f[2] = Handled(a, Head(w))
    <2>1. 1 \in 1 .. Len(w)
        BY <1>2
    <2>. QED
        BY <1>1, <1>4, <2>1
<1>8. ASSUME NEW i \in 1 .. Len(u) PROVE run[i + 1] = Handled(run[i], u[i])
    <2>1. i \in 1 .. n /\ i \in 1 .. n + 1 /\ i + 1 \in 1 .. n + 1 /\ i + 1 \in 1 .. Len(w)
        BY <1>2, <1>4
    <2>2. run[i] = f[i + 1] /\ run[i + 1] = f[i + 1 + 1]
        BY <1>5, <2>1
    <2>. QED
        BY <1>1, <1>4, <2>1, <2>2
<1>. QED
    BY <1>3, <1>6, <1>7, <1>8, ZenonT(40) DEF Leads

-----------------------------------------------------------------------------
(* What the handler does with a byte. *)

LEMMA KeyNames ==
    /\ \A k \in DOMAIN E0Keys :
         /\ E0Keys[k] \notin {"E0", "E1"} /\ k \notin DOMAIN Fx /\ k \notin DOMAIN map_table
         /\ k \notin NotInTheMap
         /\ (E0Keys[k] = "CTRL") <=> (k = "RCTRL")
         /\ (E0Keys[k] = "ALT") <=> (k = "RALT")
    /\ \A k \in DOMAIN Fx : k \notin DOMAIN map_table /\ k \notin NotInTheMap /\ Fx[k] \in Consoles
    /\ \A k \in DOMAIN map_table : k \notin NotInTheMap
    /\ "RCTRL" \in DOMAIN E0Keys /\ "RALT" \in DOMAIN E0Keys
    BY KeyboardAssumption

LEMMA MapKeys ==
    ASSUME NEW k \in Keys
    PROVE  k \notin {"E0", "E1", "NUM"} /\ k \in ScanKeys
<1>1. k \in DOMAIN map_table \cup DOMAIN E0Keys \cup DOMAIN Fx => k \notin NotInTheMap
    BY KeyNames
<1>. QED
    BY <1>1 DEF Keys, ScanKeys, NotInTheMap, Modifiers

\* The handler keeps the types of its record.
LEMMA HandledIsKbd ==
    ASSUME NEW k, IsKbd(k), NEW b \in Codes
    PROVE  IsKbd(Handled(k, b))
<1>1. PICK fl \in [Flags -> BOOLEAN], rv \in {"NORMAL", "BEGIN_E0", "BEGIN_E1"} :
          fl = k.flags /\ rv = k.recv
    BY DEF IsKbd
<1>2. PICK ty, inp : k = [flags |-> fl, recv |-> rv, tty |-> ty, inputs |-> inp]
    BY <1>1 DEF IsKbd
<1>3. PICK mk \in BOOLEAN : mk = b.make
    BY DEF Codes
<1>4. \A v \in {"NORMAL", "BEGIN_E0", "BEGIN_E1"} : IsKbd([k EXCEPT !.recv = v])
    BY <1>2 DEF IsKbd
<1>5. ASSUME NEW j, IsKbd(j)
      PROVE  IsKbd(do_normal_key(j, b)) /\ IsKbd(do_e0_key(j, b))
    <2>1. PICK jf \in [Flags -> BOOLEAN], jr \in {"NORMAL", "BEGIN_E0", "BEGIN_E1"} :
              jf = j.flags /\ jr = j.recv
        BY <1>5 DEF IsKbd
    <2>2. PICK jt, ji : j = [flags |-> jf, recv |-> jr, tty |-> jt, inputs |-> ji]
        BY <1>5, <2>1 DEF IsKbd
    <2>3. ASSUME NEW f \in Flags, NEW v \in BOOLEAN PROVE IsKbd(Sets(j, f, v))
        <3>1. PICK g : g = [jf EXCEPT ![f] = v]
            OBVIOUS
        <3>2. g \in [Flags -> BOOLEAN]
            BY <3>1
        <3>3. Sets(j, f, v) = [flags |-> g, recv |-> jr, tty |-> jt, inputs |-> ji]
            BY <2>2, <3>1 DEF Sets
        <3>. QED
            BY <3>2, <3>3 DEF IsKbd
    <2>4. ASSUME NEW ch PROVE IsKbd(tty_in(j, ch))
        <3>1. PICK v : v = Append(j.inputs, <<j.tty, ch>>)
            OBVIOUS
        <3>2. tty_in(j, ch) = [j EXCEPT !.inputs = v]
            BY <3>1 DEF tty_in
        <3>3. tty_in(j, ch) = [flags |-> jf, recv |-> jr, tty |-> jt, inputs |-> v]
            BY <2>2, <3>2
        <3>. QED
            BY <3>3 DEF IsKbd
    <2>5. \A f \in DOMAIN Fx : IsKbd(do_fx_key(j, f))
        <3>1. \A f \in DOMAIN Fx : IsKbd(tty_select(j, Fx[f]))
            BY <2>2 DEF IsKbd, tty_select
        <3>. QED
            BY <1>5, <3>1 DEF do_fx_key
    <2>6. {"rshift_press", "lshift_press", "caps_lock", "lalt_press", "lctrl_press", "rctrl_press",
           "ralt_press"} \subseteq Flags /\ (j.flags.caps_lock # b.make) \in BOOLEAN
        BY DEF Flags
    <2>7. IsKbd(do_normal_key(j, b))
        BY <1>3, <1>5, <2>3, <2>4, <2>5, <2>6, Zenon DEF do_normal_key
    <2>8. IsKbd(do_e0_key(j, b))
        BY <1>3, <1>5, <2>3, <2>6, Zenon DEF do_e0_key
    <2>. QED
        BY <2>7, <2>8
<1>. QED
    BY <1>4, <1>5 DEF Handled

LEMMA ByteKey ==
    ASSUME NEW key, key \notin {"E0", "E1"}, NEW make
    PROVE  /\ Byte(key, make).key = key /\ Byte(key, make).make = make
           /\ Byte(key, make) \notin {KEY_E0, KEY_E1}
    BY DEF Byte, KEY_E0, KEY_E1

LEMMA E0E1 == KEY_E0 # KEY_E1
    BY DEF Byte, KEY_E0, KEY_E1

\* Between keys, an ordinary byte, and a byte behind an E0.
LEMMA NormalByte ==
    ASSUME NEW k, IsKbd(k), k.recv = "NORMAL", NEW key, key \notin {"E0", "E1"}, NEW make
    PROVE  Leads(<<Byte(key, make)>>, k, do_normal_key(k, Byte(key, make)))
<1>1. PICK b : b = Byte(key, make)
    OBVIOUS
<1>2. Handled(k, b) = do_normal_key(k, b)
    BY <1>1, ByteKey DEF Handled
<1>. QED
    BY <1>1, <1>2, OneByte

LEMMA ByteCodes ==
    ASSUME NEW key \in ScanKeys, NEW make \in BOOLEAN
    PROVE  Byte(key, make) \in Codes
    BY DEF Byte, Codes

LEMMA E0Codes == KEY_E0 \in Codes /\ KEY_E1 \in Codes
<1>1. "E0" \in ScanKeys /\ "E1" \in ScanKeys
    BY DEF ScanKeys
<1>. QED
    BY <1>1, ByteCodes DEF KEY_E0, KEY_E1

LEMMA TwoBytes ==
    ASSUME NEW x \in Codes, NEW y \in Codes
    PROVE  /\ <<x, y>> = <<x>> \o <<y>> /\ <<x, y>> \in Seq(Codes)
           /\ <<x>> \in Seq(Codes) /\ <<y>> \in Seq(Codes)
<1>1. <<x>> \in Seq(Codes) /\ <<y>> \in Seq(Codes)
    OBVIOUS
<1>2. <<x, y>> \in Seq(Codes)
    OBVIOUS
<1>3. <<x>> \o <<y>> \in Seq(Codes) /\ Len(<<x>>) = 1 /\ Len(<<y>>) = 1
    BY <1>1
<1>4. Len(<<x>> \o <<y>>) = 2 /\ (<<x>> \o <<y>>)[1] = x /\ (<<x>> \o <<y>>)[2] = y
    BY <1>1, <1>3
<1>5. PICK u \in Seq(Codes) : u = <<x>> \o <<y>>
    BY <1>3, Zenon
<1>6. u = <<x, y>>
    <2>1. Len(u) = 2 /\ u[1] = x /\ u[2] = y
        BY <1>4, <1>5
    <2>2. PICK v \in Seq(Codes) : v = <<x, y>>
        BY <1>2, Zenon
    <2>3. Len(v) = 2 /\ v[1] = x /\ v[2] = y
        BY <2>2
    <2>4. \A i \in 1 .. 2 : u[i] = v[i]
        <3>1. \A i \in 1 .. 2 : i = 1 \/ i = 2
            OBVIOUS
        <3>. QED
            BY <2>1, <2>3, <3>1
    <2>5. u = v
        BY <2>1, <2>3, <2>4, SeqEqual
    <2>. QED
        BY <2>2, <2>5
<1>. QED
    BY <1>1, <1>2, <1>5, <1>6

LEMMA E0Byte ==
    ASSUME NEW k, IsKbd(k), k.recv = "NORMAL", NEW key \in ScanKeys, key \notin {"E0", "E1"},
           NEW make \in BOOLEAN
    PROVE  Leads(<<KEY_E0, Byte(key, make)>>, k, do_e0_key(k, Byte(key, make)))
<1>1. PICK b \in Codes : b = Byte(key, make)
    BY ByteCodes
<1>2. PICK j : j = [k EXCEPT !.recv = "BEGIN_E0"]
    OBVIOUS
<1>3. Handled(k, KEY_E0) = j
    BY <1>2, E0E1 DEF Handled
<1>4. j.recv = "BEGIN_E0" /\ [j EXCEPT !.recv = "NORMAL"] = k
    <2>1. PICK fl, ty, inp : k = [flags |-> fl, recv |-> "NORMAL", tty |-> ty, inputs |-> inp]
        BY DEF IsKbd
    <2>. QED
        BY <1>2, <2>1
<1>5. Handled(j, b) = do_e0_key(k, b)
    <2>1. b \notin {KEY_E0, KEY_E1}
        BY <1>1, ByteKey
    <2>. QED
        BY <1>4, <2>1 DEF Handled
<1>6. Leads(<<KEY_E0>>, k, j) /\ Leads(<<b>>, j, do_e0_key(k, b))
    BY <1>3, <1>5, OneByte
<1>7. Leads(<<KEY_E0>> \o <<b>>, k, do_e0_key(k, b))
    BY <1>6, BytesJoin, TwoBytes, E0Codes
<1>. QED
    BY <1>1, <1>7, TwoBytes, E0Codes

-----------------------------------------------------------------------------
(* The flags and the keys that are down. *)

FlagKeys == {"LSHIFT", "RSHIFT", "CTRL", "RCTRL", "ALT", "RALT"}
FlagFor(x) ==
    CASE x = "LSHIFT" -> "lshift_press" [] x = "RSHIFT" -> "rshift_press"
      [] x = "CTRL" -> "lctrl_press" [] x = "RCTRL" -> "rctrl_press"
      [] x = "ALT" -> "lalt_press" [] x = "RALT" -> "ralt_press"

Flagged(fl, flag, value) == [fl EXCEPT ![flag] = value]

LEMMA FlagsAt ==
    ASSUME NEW caps, NEW down
    PROVE  /\ FlagsOf(caps, down).caps_lock = caps
           /\ FlagsOf(caps, down).lshift_press = ("LSHIFT" \in down)
           /\ FlagsOf(caps, down).rshift_press = ("RSHIFT" \in down)
           /\ FlagsOf(caps, down).lctrl_press = ("CTRL" \in down)
           /\ FlagsOf(caps, down).rctrl_press = ("RCTRL" \in down)
           /\ FlagsOf(caps, down).lalt_press = ("ALT" \in down)
           /\ FlagsOf(caps, down).ralt_press = ("RALT" \in down)
    BY DEF FlagsOf, Flags

\* Other keys have no flag.
LEMMA FlagsSame ==
    ASSUME NEW caps, NEW down, NEW now, \A x \in FlagKeys : (x \in now) <=> (x \in down)
    PROVE  FlagsOf(caps, now) = FlagsOf(caps, down)
<1>1. /\ ("LSHIFT" \in now) = ("LSHIFT" \in down) /\ ("RSHIFT" \in now) = ("RSHIFT" \in down)
      /\ ("CTRL" \in now) = ("CTRL" \in down) /\ ("RCTRL" \in now) = ("RCTRL" \in down)
      /\ ("ALT" \in now) = ("ALT" \in down) /\ ("RALT" \in now) = ("RALT" \in down)
    BY DEF FlagKeys
<1>. QED
    BY <1>1 DEF FlagsOf

\* A flag follows its key.
LEMMA FlagsFollow ==
    ASSUME NEW caps, NEW down, NEW now, NEW x \in FlagKeys, NEW make \in BOOLEAN,
           now = IF make THEN down \cup {x} ELSE down \ {x}
    PROVE  Flagged(FlagsOf(caps, down), FlagFor(x), make) = FlagsOf(caps, now)
<1>1. (x \in now) = make /\ \A y \in FlagKeys \ {x} : (y \in now) = (y \in down)
    OBVIOUS
<1>2. ASSUME NEW f \in Flags
      PROVE  FlagsOf(caps, now)[f] = IF f = FlagFor(x) THEN make ELSE FlagsOf(caps, down)[f]
    BY <1>1, FlagsAt DEF Flags, FlagKeys, FlagFor
<1>3. DOMAIN FlagsOf(caps, now) = Flags /\ DOMAIN FlagsOf(caps, down) = Flags
    BY DEF FlagsOf
<1>4. FlagsOf(caps, now) = [f \in Flags |-> FlagsOf(caps, now)[f]]
    BY DEF FlagsOf
<1>5. [FlagsOf(caps, down) EXCEPT ![FlagFor(x)] = make]
        = [f \in Flags |-> IF f = FlagFor(x) THEN make ELSE FlagsOf(caps, down)[f]]
    BY <1>3
<1>. QED
    BY <1>2, <1>4, <1>5 DEF Flagged

LEMMA MeantIsKbd ==
    ASSUME NEW w, IsWish(w), NEW down
    PROVE  IsKbd(MeantOf(w, down)) /\ MeantOf(w, down).recv = "NORMAL"
<1>1. PICK caps \in BOOLEAN, fl \in {FlagsOf(w.caps, down)} : caps = w.caps
    BY DEF IsWish
<1>2. fl \in [Flags -> BOOLEAN]
    <2>1. DOMAIN fl = Flags /\ fl = [f \in Flags |-> fl[f]]
        BY <1>1 DEF FlagsOf
    <2>2. /\ fl.caps_lock = caps /\ fl.lshift_press = ("LSHIFT" \in down)
          /\ fl.rshift_press = ("RSHIFT" \in down) /\ fl.lctrl_press = ("CTRL" \in down)
          /\ fl.rctrl_press = ("RCTRL" \in down) /\ fl.lalt_press = ("ALT" \in down)
          /\ fl.ralt_press = ("RALT" \in down)
        BY <1>1, FlagsAt
    <2>4. \A x : (x \in down) \in BOOLEAN
        OBVIOUS
    <2>5. /\ fl.caps_lock \in BOOLEAN /\ fl.lshift_press \in BOOLEAN /\ fl.rshift_press \in BOOLEAN
          /\ fl.lctrl_press \in BOOLEAN /\ fl.rctrl_press \in BOOLEAN /\ fl.lalt_press \in BOOLEAN
          /\ fl.ralt_press \in BOOLEAN
        BY <2>2, <2>4, Zenon
    <2>3. ASSUME NEW f \in Flags PROVE fl[f] \in BOOLEAN
        BY <2>5, Zenon DEF Flags
    <2>. QED
        BY <2>1, <2>3
<1>3. MeantOf(w, down) = [flags |-> fl, recv |-> "NORMAL", tty |-> w.tty, inputs |-> w.inputs]
    BY <1>1 DEF MeantOf
<1>. QED
    BY <1>2, <1>3 DEF IsKbd

LEMMA MeantSame ==
    ASSUME NEW w, NEW down, NEW now, \A x \in FlagKeys : (x \in now) <=> (x \in down)
    PROVE  MeantOf(w, now) = MeantOf(w, down)
<1>1. FlagsOf(w.caps, now) = FlagsOf(w.caps, down)
    BY FlagsSame
<1>. QED
    BY <1>1 DEF MeantOf

LEMMA OtherKey ==
    ASSUME NEW w, NEW down, NEW k, k \notin FlagKeys
    PROVE  MeantOf(w, down \cup {k}) = MeantOf(w, down) /\ MeantOf(w, down \ {k}) = MeantOf(w, down)
<1>1. \A x \in FlagKeys : (x \in down \cup {k}) <=> (x \in down)
    OBVIOUS
<1>2. \A x \in FlagKeys : (x \in down \ {k}) <=> (x \in down)
    OBVIOUS
<1>. QED
    BY <1>1, <1>2, MeantSame

LEMMA SetsFlag ==
    ASSUME NEW w, NEW down, NEW now, NEW x \in FlagKeys, NEW make \in BOOLEAN,
           now = IF make THEN down \cup {x} ELSE down \ {x}
    PROVE  Sets(MeantOf(w, down), FlagFor(x), make) = MeantOf(w, now)
<1>1. PICK fl, gl : fl = FlagsOf(w.caps, down) /\ gl = FlagsOf(w.caps, now)
    OBVIOUS
<1>2. [fl EXCEPT ![FlagFor(x)] = make] = gl
    <2>1. PICK caps : caps = w.caps
        OBVIOUS
    <2>2. Flagged(FlagsOf(caps, down), FlagFor(x), make) = FlagsOf(caps, now)
        BY FlagsFollow
    <2>. QED
        BY <1>1, <2>1, <2>2 DEF Flagged
<1>3. PICK m : m = MeantOf(w, down)
    OBVIOUS
<1>4. m = [flags |-> fl, recv |-> "NORMAL", tty |-> w.tty, inputs |-> w.inputs]
    BY <1>1, <1>3 DEF MeantOf
<1>5. Sets(m, FlagFor(x), make) = [flags |-> gl, recv |-> "NORMAL", tty |-> w.tty, inputs |-> w.inputs]
    BY <1>2, <1>4 DEF Sets
<1>. QED
    BY <1>1, <1>3, <1>5 DEF MeantOf

\* The modifiers.
LEMMA ModifierKey ==
    ASSUME NEW w, NEW down, NEW now, NEW x \in {"LSHIFT", "RSHIFT", "CTRL", "ALT"},
           NEW make \in BOOLEAN, now = IF make THEN down \cup {x} ELSE down \ {x}
    PROVE  do_normal_key(MeantOf(w, down), Byte(x, make)) = MeantOf(w, now)
<1>1. PICK m, b : m = MeantOf(w, down) /\ b = Byte(x, make)
    OBVIOUS
<1>2. b.key = x /\ b.make = make
    BY <1>1, ByteKey
<1>3. x \notin DOMAIN Fx
    BY KeyNames DEF NotInTheMap, Modifiers
<1>4. do_normal_key(m, b) = Sets(m, FlagFor(x), make)
    <2>1. CASE x = "LSHIFT"
        BY <1>2, <1>3, <2>1 DEF do_normal_key, FlagFor
    <2>2. CASE x = "RSHIFT"
        BY <1>2, <1>3, <2>2 DEF do_normal_key, FlagFor
    <2>3. CASE x = "CTRL"
        BY <1>2, <1>3, <2>3 DEF do_normal_key, FlagFor
    <2>4. CASE x = "ALT"
        BY <1>2, <1>3, <2>4 DEF do_normal_key, FlagFor
    <2>. QED
        BY <2>1, <2>2, <2>3, <2>4
<1>5. x \in FlagKeys
    BY DEF FlagKeys
<1>6. Sets(m, FlagFor(x), make) = MeantOf(w, now)
    BY <1>1, <1>5, SetsFlag
<1>. QED
    BY <1>1, <1>4, <1>6

\* The byte of a key that has an E0.
LEMMA E0Key ==
    ASSUME NEW w, NEW down, NEW now, NEW k \in DOMAIN E0Keys,
           NEW make \in BOOLEAN, now = IF make THEN down \cup {k} ELSE down \ {k}
    PROVE  do_e0_key(MeantOf(w, down), Byte(E0Keys[k], make)) = MeantOf(w, now)
<1>1. PICK m, b : m = MeantOf(w, down) /\ b = Byte(E0Keys[k], make)
    OBVIOUS
<1>2. b.key = E0Keys[k] /\ b.make = make
    BY <1>1, ByteKey, KeyNames
<1>3. CASE k = "RCTRL"
    <2>1. do_e0_key(m, b) = Sets(m, FlagFor(k), make)
        BY <1>2, <1>3, KeyNames DEF do_e0_key, FlagFor
    <2>2. Sets(m, FlagFor(k), make) = MeantOf(w, now)
        <3>1. k \in FlagKeys
            BY <1>3 DEF FlagKeys
        <3>. QED
            BY <1>1, <3>1, SetsFlag
    <2>. QED
        BY <1>1, <2>1, <2>2
<1>4. CASE k = "RALT"
    <2>1. E0Keys[k] = "ALT"
        BY <1>4, KeyNames
    <2>2. do_e0_key(m, b) = Sets(m, FlagFor(k), make)
        BY <1>2, <1>4, <2>1 DEF do_e0_key, FlagFor
    <2>3. Sets(m, FlagFor(k), make) = MeantOf(w, now)
        <3>1. k \in FlagKeys
            BY <1>4 DEF FlagKeys
        <3>. QED
            BY <1>1, <3>1, SetsFlag
    <2>. QED
        BY <1>1, <2>2, <2>3
<1>5. CASE k \notin {"RCTRL", "RALT"}
    <2>1. E0Keys[k] \notin {"CTRL", "ALT"}
        BY <1>5, KeyNames
    <2>2. do_e0_key(m, b) = m
        BY <1>2, <2>1 DEF do_e0_key
    <2>3. k \notin FlagKeys
        BY <1>5, KeyNames DEF FlagKeys, NotInTheMap, Modifiers
    <2>4. MeantOf(w, now) = m
        BY <1>1, <2>3, OtherKey
    <2>. QED
        BY <1>1, <2>2, <2>4
<1>. QED
    BY <1>3, <1>4, <1>5

\* Caps lock: the flag changes when the key goes down.
Toggled(w) == [w EXCEPT !.caps = ~@]

LEMMA CapsKey ==
    ASSUME NEW w, IsWish(w), NEW down
    PROVE  /\ do_normal_key(MeantOf(w, down), Byte("CAPS", TRUE)) = MeantOf(Toggled(w), down)
           /\ do_normal_key(MeantOf(w, down), Byte("CAPS", FALSE)) = MeantOf(w, down)
<1>1. PICK caps \in BOOLEAN, ty \in {w.tty}, inp \in {w.inputs} : w = [caps |-> caps, tty |-> ty, inputs |-> inp] /\ w.caps = caps
    BY DEF IsWish
<1>2. PICK m : m = MeantOf(w, down)
    OBVIOUS
<1>3. m = [flags |-> FlagsOf(caps, down), recv |-> "NORMAL", tty |-> ty, inputs |-> inp]
    BY <1>1, <1>2 DEF MeantOf
<1>4. "CAPS" \notin DOMAIN Fx
    BY KeyNames DEF NotInTheMap, Modifiers
<1>5. \A make \in BOOLEAN :
          do_normal_key(m, Byte("CAPS", make)) = Sets(m, "caps_lock", m.flags.caps_lock # make)
    BY <1>4, ByteKey DEF do_normal_key
<1>6. m.flags.caps_lock = caps
    BY <1>3, FlagsAt
<1>7. (caps # TRUE) = ~caps /\ (caps # FALSE) = caps
    OBVIOUS
<1>8. ASSUME NEW v \in BOOLEAN
      PROVE  Sets(m, "caps_lock", v) = [flags |-> FlagsOf(v, down), recv |-> "NORMAL", tty |-> ty, inputs |-> inp]
    <2>1. [FlagsOf(caps, down) EXCEPT !["caps_lock"] = v] = FlagsOf(v, down)
        BY DEF FlagsOf, Flags
    <2>. QED
        BY <1>3, <2>1 DEF Sets
<1>9. [w EXCEPT !.caps = ~@] = [caps |-> ~caps, tty |-> ty, inputs |-> inp]
    BY <1>1
<1>10. MeantOf([w EXCEPT !.caps = ~@], down)
         = [flags |-> FlagsOf(~caps, down), recv |-> "NORMAL", tty |-> ty, inputs |-> inp]
    <2>1. PICK v \in BOOLEAN : v = ~caps
        OBVIOUS
    <2>2. PICK u : u = [w EXCEPT !.caps = ~@]
        OBVIOUS
    <2>3. u.caps = v /\ u.tty = ty /\ u.inputs = inp
        BY <1>9, <2>1, <2>2
    <2>. QED
        BY <2>1, <2>2, <2>3 DEF MeantOf
<1>11. do_normal_key(m, Byte("CAPS", TRUE)) = MeantOf([w EXCEPT !.caps = ~@], down)
    <2>1. do_normal_key(m, Byte("CAPS", TRUE)) = Sets(m, "caps_lock", ~caps)
        BY <1>5, <1>6, <1>7, Zenon
    <2>2. (~caps) \in BOOLEAN
        OBVIOUS
    <2>. QED
        BY <1>8, <1>10, <2>1, <2>2, Zenon
<1>12. do_normal_key(m, Byte("CAPS", FALSE)) = m
    <2>1. do_normal_key(m, Byte("CAPS", FALSE)) = Sets(m, "caps_lock", caps)
        BY <1>5, <1>6, <1>7, Zenon
    <2>. QED
        BY <1>3, <1>8, <2>1, Zenon
<1>. QED
    BY <1>2, <1>11, <1>12 DEF Toggled

\* A function key, down or up.
LEMMA FxKey ==
    ASSUME NEW w, IsWish(w), NEW down, NEW f \in DOMAIN Fx, NEW make
    PROVE  /\ down \cap {"CTRL", "RCTRL"} # {} =>
                do_normal_key(MeantOf(w, down), Byte(f, make)) = MeantOf([w EXCEPT !.tty = Fx[f]], down)
           /\ down \cap {"CTRL", "RCTRL"} = {} =>
                do_normal_key(MeantOf(w, down), Byte(f, make)) = MeantOf(w, down)
<1>1. PICK caps \in BOOLEAN, ty \in {w.tty}, inp \in {w.inputs} : w = [caps |-> caps, tty |-> ty, inputs |-> inp] /\ w.caps = caps
    BY DEF IsWish
<1>2. PICK m : m = MeantOf(w, down)
    OBVIOUS
<1>3. m = [flags |-> FlagsOf(caps, down), recv |-> "NORMAL", tty |-> ty, inputs |-> inp]
    BY <1>1, <1>2 DEF MeantOf
<1>4. f \notin NotInTheMap
    BY KeyNames
<1>5. do_normal_key(m, Byte(f, make)) = do_fx_key(m, f)
    <2>1. f \notin {"RSHIFT", "LSHIFT", "CAPS", "ALT", "CTRL", "E0", "E1"}
        BY <1>4 DEF NotInTheMap, Modifiers
    <2>2. PICK b : b = Byte(f, make)
        OBVIOUS
    <2>3. b.key = f
        BY <2>1, <2>2, ByteKey
    <2>4. do_normal_key(m, b) = do_fx_key(m, f)
        BY <2>1, <2>3 DEF do_normal_key
    <2>. QED
        BY <2>2, <2>4
<1>6. /\ m.flags.lctrl_press = ("CTRL" \in down) /\ m.flags.rctrl_press = ("RCTRL" \in down)
    BY <1>3, FlagsAt
<1>7. (m.flags.lctrl_press \/ m.flags.rctrl_press) <=> (down \cap {"CTRL", "RCTRL"} # {})
    BY <1>6
<1>8. tty_select(m, Fx[f]) = MeantOf([w EXCEPT !.tty = Fx[f]], down)
    BY <1>1, <1>3 DEF tty_select, MeantOf
<1>. QED
    BY <1>2, <1>5, <1>7, <1>8 DEF do_fx_key

\* A key that is a character.
Typed(w, down, k) == [w EXCEPT !.inputs = Append(@, <<w.tty,
    Char(k, down \cap {"LSHIFT", "RSHIFT"} # {}, w.caps)>>)]

LEMMA CharKey ==
    ASSUME NEW w, IsWish(w), NEW down, NEW k, k \notin DOMAIN Fx \cup Modifiers \cup {"E0", "E1"}
    PROVE  /\ do_normal_key(MeantOf(w, down), Byte(k, TRUE)) = MeantOf(Typed(w, down, k), down)
           /\ do_normal_key(MeantOf(w, down), Byte(k, FALSE)) = MeantOf(w, down)
<1>1. PICK caps \in BOOLEAN, ty \in {w.tty}, inp \in {w.inputs} : w = [caps |-> caps, tty |-> ty, inputs |-> inp] /\ w.caps = caps
    BY DEF IsWish
<1>2. PICK m : m = MeantOf(w, down)
    OBVIOUS
<1>3. m = [flags |-> FlagsOf(caps, down), recv |-> "NORMAL", tty |-> ty, inputs |-> inp]
    BY <1>1, <1>2 DEF MeantOf
<1>4. k \notin {"RSHIFT", "LSHIFT", "CAPS", "ALT", "CTRL", "E0", "E1"} /\ k \notin DOMAIN Fx
    BY DEF Modifiers
<1>5. \A make \in BOOLEAN : do_normal_key(m, Byte(k, make)) =
          IF make THEN tty_in(m, Char(k, m.flags.rshift_press \/ m.flags.lshift_press, m.flags.caps_lock)) ELSE m
    BY <1>4, ByteKey DEF do_normal_key
<1>6. m.flags.caps_lock = caps
      /\ (m.flags.rshift_press \/ m.flags.lshift_press) = (down \cap {"LSHIFT", "RSHIFT"} # {})
    <2>1. /\ m.flags.caps_lock = caps /\ m.flags.rshift_press = ("RSHIFT" \in down)
          /\ m.flags.lshift_press = ("LSHIFT" \in down)
        BY <1>3, FlagsAt
    <2>. QED
        BY <2>1
<1>7. PICK ch : ch = Char(k, down \cap {"LSHIFT", "RSHIFT"} # {}, caps)
    OBVIOUS
<1>8. do_normal_key(m, Byte(k, TRUE)) = tty_in(m, ch)
    BY <1>5, <1>6, <1>7, Zenon
<1>9. PICK v : v = Append(inp, <<ty, ch>>)
    OBVIOUS
<1>10. tty_in(m, ch) = [flags |-> FlagsOf(caps, down), recv |-> "NORMAL", tty |-> ty, inputs |-> v]
    <2>1. m.tty = ty /\ m.inputs = inp
        BY <1>3
    <2>2. tty_in(m, ch) = [m EXCEPT !.inputs = v]
        BY <1>9, <2>1 DEF tty_in
    <2>. QED
        BY <1>3, <2>2
<1>11. Typed(w, down, k) = [caps |-> caps, tty |-> ty, inputs |-> v]
    <2>1. w.tty = ty /\ w.inputs = inp
        BY <1>1
    <2>2. Typed(w, down, k) = [w EXCEPT !.inputs = v]
        BY <1>1, <1>7, <1>9, <2>1, Zenon DEF Typed
    <2>. QED
        BY <1>1, <2>2
<1>12. MeantOf(Typed(w, down, k), down) = tty_in(m, ch)
    BY <1>10, <1>11 DEF MeantOf
<1>13. do_normal_key(m, Byte(k, FALSE)) = m
    BY <1>5
<1>. QED
    BY <1>2, <1>8, <1>12, <1>13

-----------------------------------------------------------------------------
(* The keys. *)

\* What the bytes of a key are to do.
LEMMA OneKeyByte ==
    ASSUME NEW w, IsWish(w), NEW down, NEW key \in ScanKeys, key \notin {"E0", "E1"},
           NEW make \in BOOLEAN, NEW m, m = do_normal_key(MeantOf(w, down), Byte(key, make))
    PROVE  Leads(<<Byte(key, make)>>, MeantOf(w, down), m)
    BY NormalByte, MeantIsKbd

LEMMA BytesTyped ==
    ASSUME NEW k \in Keys
    PROVE  /\ \A make \in BOOLEAN : FakeShift(k, make) \in Seq(Codes)
           /\ PressBytes(k) \in Seq(Codes) /\ ReleaseBytes(k) \in Seq(Codes)
<1>1. KEY_E0 \in Codes /\ KEY_E1 \in Codes
    BY E0Codes
<1>2. \A key \in ScanKeys, make \in BOOLEAN : Byte(key, make) \in Codes
    BY ByteCodes
<1>3. /\ {"LSHIFT", "RSHIFT", "CTRL", "NUM"} \subseteq ScanKeys /\ k \in ScanKeys
      /\ k \in DOMAIN E0Keys => E0Keys[k] \in ScanKeys
    BY DEF ScanKeys, Keys, Modifiers
<1>4. ASSUME NEW make \in BOOLEAN PROVE FakeShift(k, make) \in Seq(Codes)
    <2>1. <<>> \in Seq(Codes)
        OBVIOUS
    <2>2. \A x \in {"LSHIFT", "RSHIFT"} : <<KEY_E0, Byte(x, make)>> \in Seq(Codes)
        BY <1>1, <1>2, <1>3, TwoBytes
    <2>. QED
        BY <2>1, <2>2 DEF FakeShift
<1>5. CASE k = "PAUSE"
    <2>1. \A make \in BOOLEAN : Byte("CTRL", make) \in Codes /\ Byte("NUM", make) \in Codes
        BY <1>2, <1>3
    <2>2. <<KEY_E1, Byte("CTRL", TRUE), Byte("NUM", TRUE), KEY_E1, Byte("CTRL", FALSE), Byte("NUM", FALSE)>>
              \in Seq(Codes)
        <3>1. \A e \in Codes, x \in Codes, y \in Codes, x1 \in Codes, y1 \in Codes :
                  <<e, x, y, e, x1, y1>> \in Seq(Codes)
            OBVIOUS
        <3>. QED
            BY <1>1, <2>1, <3>1, Zenon
    <2>3. <<>> \in Seq(Codes)
        OBVIOUS
    <2>4. k \notin DOMAIN E0Keys
        BY <1>5, KeyNames DEF NotInTheMap
    <2>. QED
        BY <1>4, <1>5, <2>2, <2>3, <2>4 DEF PressBytes, ReleaseBytes
<1>6. CASE k \in DOMAIN E0Keys
    <2>1. k # "PAUSE"
        BY <1>6, KeyNames DEF NotInTheMap
    <2>2. \A make \in BOOLEAN : <<KEY_E0, Byte(E0Keys[k], make)>> \in Seq(Codes)
        BY <1>1, <1>2, <1>3, <1>6, TwoBytes
    <2>3. PressBytes(k) = FakeShift(k, FALSE) \o <<KEY_E0, Byte(E0Keys[k], TRUE)>>
        BY <1>6, <2>1 DEF PressBytes
    <2>4. ReleaseBytes(k) = <<KEY_E0, Byte(E0Keys[k], FALSE)>> \o FakeShift(k, TRUE)
        BY <1>6, <2>1 DEF ReleaseBytes
    <2>5. \A u \in Seq(Codes), v \in Seq(Codes) : u \o v \in Seq(Codes)
        OBVIOUS
    <2>. QED
        BY <1>4, <2>2, <2>3, <2>4, <2>5
<1>7. CASE k # "PAUSE" /\ k \notin DOMAIN E0Keys
    <2>1. \A make \in BOOLEAN : <<Byte(k, make)>> \in Seq(Codes)
        BY <1>2, <1>3, TwoBytes
    <2>. QED
        BY <1>4, <1>7, <2>1 DEF PressBytes, ReleaseBytes
<1>. QED
    BY <1>5, <1>6, <1>7

\* The shifts between E0s do nothing.
LEMMA FakeShiftNothing ==
    ASSUME NEW m, IsKbd(m), m.recv = "NORMAL", NEW k, NEW make \in BOOLEAN
    PROVE  Leads(FakeShift(k, make), m, m)
<1>1. ASSUME NEW x \in {"LSHIFT", "RSHIFT"}
      PROVE  Leads(<<KEY_E0, Byte(x, make)>>, m, m)
    <2>1. x \in ScanKeys /\ x \notin {"E0", "E1", "CTRL", "ALT"}
        BY DEF ScanKeys, Keys, Modifiers
    <2>2. PICK b : b = Byte(x, make)
        OBVIOUS
    <2>3. b.key = x
        BY <2>1, <2>2, ByteKey
    <2>4. do_e0_key(m, b) = m
        BY <2>1, <2>3 DEF do_e0_key
    <2>5. Leads(<<KEY_E0, Byte(x, make)>>, m, do_e0_key(m, Byte(x, make)))
        BY <2>1, E0Byte
    <2>. QED
        BY <2>2, <2>4, <2>5
<1>2. Leads(<<>>, m, m)
    BY NoBytes
<1>. QED
    BY <1>1, <1>2 DEF FakeShift

LEMMA E0Press ==
    ASSUME NEW w, IsWish(w), NEW down, NEW k \in DOMAIN E0Keys
    PROVE  /\ Leads(PressBytes(k), MeantOf(w, down), MeantOf(w, down \cup {k}))
           /\ Leads(ReleaseBytes(k), MeantOf(w, down), MeantOf(w, down \ {k}))
<1>1. k \in Keys /\ E0Keys[k] \in ScanKeys /\ E0Keys[k] \notin {"E0", "E1"} /\ k # "PAUSE"
    BY KeyNames DEF Keys, ScanKeys, NotInTheMap
<1>2. ASSUME NEW make \in BOOLEAN, NEW now, now = IF make THEN down \cup {k} ELSE down \ {k}
      PROVE  /\ Leads(<<KEY_E0, Byte(E0Keys[k], make)>>, MeantOf(w, down), MeantOf(w, now))
             /\ <<KEY_E0, Byte(E0Keys[k], make)>> \in Seq(Codes)
    <2>1. do_e0_key(MeantOf(w, down), Byte(E0Keys[k], make)) = MeantOf(w, now)
        BY <1>2, E0Key
    <2>2. Leads(<<KEY_E0, Byte(E0Keys[k], make)>>, MeantOf(w, down),
                do_e0_key(MeantOf(w, down), Byte(E0Keys[k], make)))
        BY <1>1, E0Byte, MeantIsKbd
    <2>. QED
        BY <1>1, <2>1, <2>2, ByteCodes, E0Codes, TwoBytes
<1>3. \A make \in BOOLEAN : FakeShift(k, make) \in Seq(Codes)
    BY <1>1, BytesTyped
<1>4. Leads(PressBytes(k), MeantOf(w, down), MeantOf(w, down \cup {k}))
    <2>1. PressBytes(k) = FakeShift(k, FALSE) \o <<KEY_E0, Byte(E0Keys[k], TRUE)>>
        BY <1>1 DEF PressBytes
    <2>2. Leads(FakeShift(k, FALSE), MeantOf(w, down), MeantOf(w, down))
        BY FakeShiftNothing, MeantIsKbd
    <2>3. /\ Leads(<<KEY_E0, Byte(E0Keys[k], TRUE)>>, MeantOf(w, down), MeantOf(w, down \cup {k}))
          /\ <<KEY_E0, Byte(E0Keys[k], TRUE)>> \in Seq(Codes)
        BY <1>2
    <2>. QED
        BY <1>3, <2>1, <2>2, <2>3, BytesJoin
<1>5. Leads(ReleaseBytes(k), MeantOf(w, down), MeantOf(w, down \ {k}))
    <2>1. ReleaseBytes(k) = <<KEY_E0, Byte(E0Keys[k], FALSE)>> \o FakeShift(k, TRUE)
        BY <1>1 DEF ReleaseBytes
    <2>2. Leads(FakeShift(k, TRUE), MeantOf(w, down \ {k}), MeantOf(w, down \ {k}))
        BY FakeShiftNothing, MeantIsKbd
    <2>3. /\ Leads(<<KEY_E0, Byte(E0Keys[k], FALSE)>>, MeantOf(w, down), MeantOf(w, down \ {k}))
          /\ <<KEY_E0, Byte(E0Keys[k], FALSE)>> \in Seq(Codes)
        BY <1>2
    <2>. QED
        BY <1>3, <2>1, <2>2, <2>3, BytesJoin
<1>. QED
    BY <1>4, <1>5

\* Pause: the byte behind each E1 is dropped, and a NUM comes through.
LEMMA PausePress ==
    ASSUME NEW w, IsWish(w), NEW down
    PROVE  Leads(PressBytes("PAUSE"), MeantOf(w, down), MeantOf(Typed(w, down, "NUM"), down))
<1>1. PICK m : m = MeantOf(w, down)
    OBVIOUS
<1>2. PICK n : n = MeantOf(Typed(w, down, "NUM"), down)
    OBVIOUS
<1>3. "NUM" \notin DOMAIN Fx \cup Modifiers \cup {"E0", "E1"}
    BY KeyNames DEF NotInTheMap, Modifiers
<1>4. IsWish(Typed(w, down, "NUM"))
    BY DEF IsWish, Typed
<1>5. IsKbd(m) /\ m.recv = "NORMAL" /\ IsKbd(n) /\ n.recv = "NORMAL"
    BY <1>1, <1>2, <1>4, MeantIsKbd
<1>6. ASSUME NEW j, IsKbd(j), j.recv = "NORMAL"
      PROVE  /\ Handled(j, KEY_E1) = [j EXCEPT !.recv = "BEGIN_E1"]
             /\ \A make : Handled([j EXCEPT !.recv = "BEGIN_E1"], Byte("CTRL", make)) = j
    <2>1. PICK fl, ty, inp : j = [flags |-> fl, recv |-> "NORMAL", tty |-> ty, inputs |-> inp]
        BY <1>6 DEF IsKbd
    <2>2. PICK i : i = [j EXCEPT !.recv = "BEGIN_E1"]
        OBVIOUS
    <2>3. i.recv = "BEGIN_E1" /\ [i EXCEPT !.recv = "NORMAL"] = j
        <3>1. i = [flags |-> fl, recv |-> "BEGIN_E1", tty |-> ty, inputs |-> inp]
            BY <2>1, <2>2
        <3>2. i.recv = "BEGIN_E1"
            BY <3>1
        <3>3. [i EXCEPT !.recv = "NORMAL"] = [flags |-> fl, recv |-> "NORMAL", tty |-> ty, inputs |-> inp]
            BY <3>1
        <3>. QED
            BY <2>1, <3>2, <3>3
    <2>4. Handled(j, KEY_E1) = i
        BY <2>2, E0E1 DEF Handled
    <2>5. ASSUME NEW make PROVE Handled(i, Byte("CTRL", make)) = j
        <3>1. Byte("CTRL", make) \notin {KEY_E0, KEY_E1}
            BY ByteKey
        <3>. QED
            BY <2>3, <3>1 DEF Handled
    <2>. QED
        BY <2>2, <2>4, <2>5
<1>7. PICK m1, n1 : m1 = [m EXCEPT !.recv = "BEGIN_E1"] /\ n1 = [n EXCEPT !.recv = "BEGIN_E1"]
    OBVIOUS
<1>8. /\ Handled(m, KEY_E1) = m1 /\ Handled(m1, Byte("CTRL", TRUE)) = m
      /\ Handled(n, KEY_E1) = n1 /\ Handled(n1, Byte("CTRL", FALSE)) = n
    BY <1>5, <1>6, <1>7
<1>9. Handled(m, Byte("NUM", TRUE)) = n
    <2>1. do_normal_key(m, Byte("NUM", TRUE)) = n
        BY <1>1, <1>2, <1>3, CharKey, ZenonT(40)
    <2>2. Byte("NUM", TRUE) \notin {KEY_E0, KEY_E1}
        BY ByteKey
    <2>. QED
        BY <1>5, <2>1, <2>2 DEF Handled
<1>10. Handled(n, Byte("NUM", FALSE)) = n
    <2>1. do_normal_key(n, Byte("NUM", FALSE)) = n
        BY <1>2, <1>3, <1>4, CharKey
    <2>2. Byte("NUM", FALSE) \notin {KEY_E0, KEY_E1}
        BY ByteKey
    <2>. QED
        BY <1>5, <2>1, <2>2 DEF Handled
<1>11. PICK c1, n2, c2, n3 : /\ c1 = Byte("CTRL", TRUE) /\ n2 = Byte("NUM", TRUE)
                             /\ c2 = Byte("CTRL", FALSE) /\ n3 = Byte("NUM", FALSE)
    OBVIOUS
<1>12. PICK u : u = <<KEY_E1, c1, n2, KEY_E1, c2, n3>>
    OBVIOUS
<1>13. PICK run : run = <<m, m1, m, n, n1, n, n>>
    OBVIOUS
<1>14. Len(u) = 6 /\ DOMAIN run = 1 .. 7 /\ run[1] = m /\ run[7] = n
    BY <1>12, <1>13
<1>15. /\ run[2] = Handled(run[1], u[1]) /\ run[3] = Handled(run[2], u[2]) /\ run[4] = Handled(run[3], u[3])
       /\ run[5] = Handled(run[4], u[4]) /\ run[6] = Handled(run[5], u[5]) /\ run[7] = Handled(run[6], u[6])
    BY <1>8, <1>9, <1>10, <1>11, <1>12, <1>13
<1>16. \A i \in 1 .. Len(u) : run[i + 1] = Handled(run[i], u[i])
    <2>1. \A i \in 1 .. Len(u) : i = 1 \/ i = 2 \/ i = 3 \/ i = 4 \/ i = 5 \/ i = 6
        BY <1>14
    <2>. QED
        BY <1>15, <2>1
<1>17. Leads(u, m, n)
    BY <1>14, <1>16 DEF Leads
<1>18. PressBytes("PAUSE") = u
    <2>1. "PAUSE" \notin DOMAIN E0Keys
        BY KeyNames DEF NotInTheMap
    <2>. QED
        BY <1>11, <1>12, <2>1 DEF PressBytes
<1>. QED
    BY <1>1, <1>2, <1>17, <1>18

\* A character that the user typed, and what the user means by a key.
LEMMA TypedWish ==
    ASSUME NEW w, IsWish(w), NEW down, NEW k
    PROVE  IsWish(Typed(w, down, k)) /\ Typed(w, down, k).tty = w.tty
<1>1. PICK caps \in BOOLEAN, ty \in {w.tty}, inp \in {w.inputs} : w = [caps |-> caps, tty |-> ty, inputs |-> inp]
    BY DEF IsWish
<1>2. PICK v : v = Append(w.inputs, <<w.tty, Char(k, down \cap {"LSHIFT", "RSHIFT"} # {}, w.caps)>>)
    OBVIOUS
<1>3. PICK u : u = Typed(w, down, k)
    OBVIOUS
<1>4. u = [w EXCEPT !.inputs = v]
    BY <1>2, <1>3 DEF Typed
<1>5. u = [caps |-> caps, tty |-> ty, inputs |-> v]
    BY <1>1, <1>4
<1>6. IsWish(u) /\ u.tty = ty
    BY <1>5 DEF IsWish
<1>. QED
    BY <1>3, <1>6

LEMMA MeansWhat ==
    ASSUME NEW k \in Keys
    PROVE  /\ k \in DOMAIN map_table \cup {"ESC"} => Means(k) = Typed(wanted, held, k)
           /\ k = "PAUSE" => Means(k) = Typed(wanted, held, "NUM")
           /\ k = "CAPS" => Means(k) = [wanted EXCEPT !.caps = ~@]
           /\ k \in DOMAIN E0Keys \cup {"LSHIFT", "RSHIFT", "CTRL", "ALT"} => Means(k) = wanted
           /\ k \in DOMAIN Fx => Means(k) = IF held \cap {"CTRL", "RCTRL"} # {}
                                            THEN [wanted EXCEPT !.tty = Fx[k]] ELSE wanted
<1>1. k \in DOMAIN map_table \cup {"ESC", "PAUSE"} => Means(k) = Typed(wanted, held, k)
    <2>1. k \in DOMAIN map_table \cup {"ESC", "PAUSE"} => k # "CAPS" /\ k \notin DOMAIN Fx
        BY KeyNames DEF NotInTheMap, Modifiers
    <2>. QED
        BY <2>1, Zenon DEF Means, Typed
<1>2. k = "PAUSE" => Typed(wanted, held, k) = Typed(wanted, held, "NUM")
    <2>1. "PAUSE" \notin DOMAIN map_table /\ "NUM" \notin DOMAIN map_table
        BY KeyNames DEF NotInTheMap
    <2>2. \A shift, caps : Char("PAUSE", shift, caps) = Char("NUM", shift, caps)
        BY <2>1 DEF Char
    <2>. QED
        BY <2>2, Zenon DEF Typed
<1>3. k = "CAPS" => Means(k) = [wanted EXCEPT !.caps = ~@]
    <2>1. k = "CAPS" => k \notin DOMAIN Fx /\ k \notin DOMAIN map_table \cup {"PAUSE", "ESC"}
        BY KeyNames DEF NotInTheMap, Modifiers
    <2>. QED
        BY <2>1, Zenon DEF Means
<1>4. k \in DOMAIN E0Keys \cup {"LSHIFT", "RSHIFT", "CTRL", "ALT"} => Means(k) = wanted
    <2>1. k \in DOMAIN E0Keys \cup {"LSHIFT", "RSHIFT", "CTRL", "ALT"} =>
              k \notin {"CAPS", "PAUSE", "ESC"} /\ k \notin DOMAIN Fx /\ k \notin DOMAIN map_table
        BY KeyNames DEF NotInTheMap, Modifiers
    <2>. QED
        BY <2>1 DEF Means
<1>5. k \in DOMAIN Fx => Means(k) = IF held \cap {"CTRL", "RCTRL"} # {}
                                    THEN [wanted EXCEPT !.tty = Fx[k]] ELSE wanted
    <2>1. k \in DOMAIN Fx => k \notin {"CAPS", "PAUSE", "ESC"} /\ k \notin DOMAIN map_table
        BY KeyNames DEF NotInTheMap, Modifiers
    <2>. QED
        BY <2>1 DEF Means
<1>. QED
    BY <1>1, <1>2, <1>3, <1>4, <1>5

LEMMA KeyKinds ==
    ASSUME NEW k \in Keys
    PROVE  \/ k \in DOMAIN map_table \cup {"ESC"}
           \/ k = "PAUSE"
           \/ k = "CAPS"
           \/ k \in DOMAIN E0Keys
           \/ k \in {"LSHIFT", "RSHIFT", "CTRL", "ALT"}
           \/ k \in DOMAIN Fx
    BY DEF Keys, Modifiers

\* One byte for each direction: neither Pause nor an E0.
LEMMA PlainBytes ==
    ASSUME NEW k \in Keys, k # "PAUSE", k \notin DOMAIN E0Keys
    PROVE  PressBytes(k) = <<Byte(k, TRUE)>> /\ ReleaseBytes(k) = <<Byte(k, FALSE)>>
    BY DEF PressBytes, ReleaseBytes

LEMMA PlainLeads ==
    ASSUME NEW w, IsWish(w), NEW down, NEW k \in Keys, k # "PAUSE", k \notin DOMAIN E0Keys, NEW m
    PROVE  /\ do_normal_key(MeantOf(w, down), Byte(k, TRUE)) = m => Leads(PressBytes(k), MeantOf(w, down), m)
           /\ do_normal_key(MeantOf(w, down), Byte(k, FALSE)) = m => Leads(ReleaseBytes(k), MeantOf(w, down), m)
<1>1. k \in ScanKeys /\ k \notin {"E0", "E1"}
    BY MapKeys
<1>2. ASSUME NEW make \in BOOLEAN, do_normal_key(MeantOf(w, down), Byte(k, make)) = m
      PROVE  Leads(<<Byte(k, make)>>, MeantOf(w, down), m)
    BY <1>1, <1>2, OneKeyByte
<1>. QED
    BY <1>2, PlainBytes

\* A key that goes down, or is down and sent again.
LEMMA PressLeads ==
    ASSUME IsWish(wanted), NEW k \in Keys
    PROVE  /\ Leads(PressBytes(k), MeantOf(wanted, held), MeantOf(Means(k), held \cup {k}))
           /\ IsWish(Means(k))
<1>1. PICK w : w = wanted
    OBVIOUS
<1>2. PICK down : down = held
    OBVIOUS
<1>3. CASE k \in DOMAIN map_table \cup {"ESC"}
    <2>1. Means(k) = Typed(w, down, k)
        BY <1>1, <1>2, <1>3, MeansWhat
    <2>2. k \notin DOMAIN Fx \cup Modifiers \cup {"E0", "E1"} /\ k # "PAUSE" /\ k \notin DOMAIN E0Keys
        <3>1. k \notin DOMAIN Fx /\ k \notin DOMAIN E0Keys
            BY <1>3, KeyNames DEF NotInTheMap
        <3>2. k \notin Modifiers \cup {"E0", "E1"} /\ k # "PAUSE"
            BY <1>3, KeyNames DEF NotInTheMap, Modifiers
        <3>. QED
            BY <3>1, <3>2
    <2>3. Leads(PressBytes(k), MeantOf(w, down), MeantOf(Typed(w, down, k), down))
        <3>1. do_normal_key(MeantOf(w, down), Byte(k, TRUE)) = MeantOf(Typed(w, down, k), down)
            <4>1. IsWish(w)
                BY <1>1
            <4>2. k \notin DOMAIN Fx \cup Modifiers \cup {"E0", "E1"}
                BY <2>2
            <4>. QED
                BY <4>1, <4>2, CharKey, Zenon
        <3>. QED
            BY <1>1, <2>2, <3>1, PlainLeads
    <2>4. k \notin FlagKeys
        <3>1. k # "RCTRL" /\ k # "RALT"
            BY <2>2, KeyNames
        <3>2. k \notin {"LSHIFT", "RSHIFT", "CTRL", "ALT"}
            BY <2>2 DEF Modifiers
        <3>. QED
            BY <3>1, <3>2 DEF FlagKeys
    <2>5. MeantOf(Typed(w, down, k), down \cup {k}) = MeantOf(Typed(w, down, k), down)
        BY <2>4, OtherKey
    <2>. QED
        BY <1>1, <1>2, <2>1, <2>3, <2>5, TypedWish
<1>4. CASE k = "PAUSE"
    <2>1. Means(k) = Typed(w, down, "NUM")
        BY <1>1, <1>2, <1>4, MeansWhat
    <2>2. Leads(PressBytes(k), MeantOf(w, down), MeantOf(Typed(w, down, "NUM"), down))
        BY <1>1, <1>4, PausePress
    <2>3. k \notin FlagKeys
        BY <1>4 DEF FlagKeys
    <2>4. MeantOf(Typed(w, down, "NUM"), down \cup {k}) = MeantOf(Typed(w, down, "NUM"), down)
        BY <2>3, OtherKey
    <2>. QED
        BY <1>1, <1>2, <2>1, <2>2, <2>4, TypedWish
<1>5. CASE k = "CAPS"
    <2>1. PICK v : v = Toggled(w)
        OBVIOUS
    <2>2. Means(k) = v
        BY <1>1, <1>5, <2>1, MeansWhat DEF Toggled
    <2>3. k # "PAUSE" /\ k \notin DOMAIN E0Keys /\ k \notin FlagKeys
        BY <1>5, KeyNames DEF NotInTheMap, Modifiers, FlagKeys
    <2>4. do_normal_key(MeantOf(w, down), Byte(k, TRUE)) = MeantOf(v, down)
        <3>1. do_normal_key(MeantOf(w, down), Byte("CAPS", TRUE)) = MeantOf(Toggled(w), down)
            BY <1>1, CapsKey
        <3>. QED
            BY <1>5, <2>1, <3>1
    <2>5. Leads(PressBytes(k), MeantOf(w, down), MeantOf(v, down))
        BY <1>1, <2>3, <2>4, PlainLeads
    <2>6. MeantOf(v, down \cup {k}) = MeantOf(v, down)
        BY <2>3, OtherKey
    <2>7. IsWish(v)
        BY <1>1, <2>1 DEF IsWish, Toggled
    <2>. QED
        BY <1>1, <1>2, <2>2, <2>5, <2>6, <2>7
<1>6. CASE k \in DOMAIN E0Keys
    <2>1. Means(k) = w
        BY <1>1, <1>6, MeansWhat
    <2>2. Leads(PressBytes(k), MeantOf(w, down), MeantOf(w, down \cup {k}))
        BY <1>1, <1>6, E0Press
    <2>. QED
        BY <1>1, <1>2, <2>1, <2>2
<1>7. CASE k \in {"LSHIFT", "RSHIFT", "CTRL", "ALT"}
    <2>1. Means(k) = w
        BY <1>1, <1>7, MeansWhat
    <2>2. k # "PAUSE" /\ k \notin DOMAIN E0Keys
        BY <1>7, KeyNames DEF NotInTheMap, Modifiers
    <2>3. do_normal_key(MeantOf(w, down), Byte(k, TRUE)) = MeantOf(w, down \cup {k})
        <3>1. PICK now \in {down \cup {k}}, make \in BOOLEAN : now = down \cup {k} /\ make = TRUE
            OBVIOUS
        <3>2. now = IF make THEN down \cup {k} ELSE down \ {k}
            BY <3>1
        <3>3. do_normal_key(MeantOf(w, down), Byte(k, make)) = MeantOf(w, now)
            BY <1>7, <3>2, ModifierKey
        <3>. QED
            BY <3>1, <3>3
    <2>4. Leads(PressBytes(k), MeantOf(w, down), MeantOf(w, down \cup {k}))
        BY <1>1, <2>2, <2>3, PlainLeads
    <2>. QED
        BY <1>1, <1>2, <2>1, <2>4
<1>8. CASE k \in DOMAIN Fx
    <2>1. PICK v : v = [w EXCEPT !.tty = Fx[k]]
        OBVIOUS
    <2>2. PICK u : u = IF down \cap {"CTRL", "RCTRL"} # {} THEN v ELSE w
        OBVIOUS
    <2>3. Means(k) = u
        BY <1>1, <1>2, <1>8, <2>1, <2>2, MeansWhat
    <2>4. k # "PAUSE" /\ k \notin DOMAIN E0Keys /\ k \notin FlagKeys
        BY <1>8, KeyNames DEF NotInTheMap, Modifiers, FlagKeys
    <2>5. do_normal_key(MeantOf(w, down), Byte(k, TRUE)) = MeantOf(u, down)
        <3>1. CASE down \cap {"CTRL", "RCTRL"} # {}
            <4>1. do_normal_key(MeantOf(w, down), Byte(k, TRUE)) = MeantOf([w EXCEPT !.tty = Fx[k]], down)
                BY <1>1, <1>8, <3>1, FxKey, Zenon
            <4>2. u = v
                BY <2>2, <3>1
            <4>. QED
                BY <2>1, <4>1, <4>2, Zenon
        <3>2. CASE down \cap {"CTRL", "RCTRL"} = {}
            <4>1. do_normal_key(MeantOf(w, down), Byte(k, TRUE)) = MeantOf(w, down)
                BY <1>1, <1>8, <3>2, FxKey, Zenon
            <4>. QED
                BY <2>2, <3>2, <4>1
        <3>. QED
            BY <3>1, <3>2
    <2>6. Leads(PressBytes(k), MeantOf(w, down), MeantOf(u, down))
        BY <1>1, <2>4, <2>5, PlainLeads
    <2>7. MeantOf(u, down \cup {k}) = MeantOf(u, down)
        BY <2>4, OtherKey
    <2>8. IsWish(u)
        BY <1>1, <2>1, <2>2 DEF IsWish
    <2>. QED
        BY <1>1, <1>2, <2>3, <2>6, <2>7, <2>8
<1>. QED
    BY <1>3, <1>4, <1>5, <1>6, <1>7, <1>8, KeyKinds

\* A key that goes up: a function key is obeyed once more, which is why nothing else
\* may have been pressed meanwhile.
LEMMA ReleaseLeads ==
    ASSUME IsWish(wanted), OneFunctionKey, NEW k \in Keys, k \in held
    PROVE  Leads(ReleaseBytes(k), MeantOf(wanted, held), MeantOf(wanted, held \ {k}))
<1>1. PICK w : w = wanted
    OBVIOUS
<1>2. PICK down : down = held
    OBVIOUS
<1>3. CASE k \in DOMAIN map_table \cup {"ESC", "CAPS"}
    <2>1. k # "PAUSE" /\ k \notin DOMAIN E0Keys /\ k \notin FlagKeys
        BY <1>3, KeyNames DEF NotInTheMap, Modifiers, FlagKeys
    <2>2. do_normal_key(MeantOf(w, down), Byte(k, FALSE)) = MeantOf(w, down)
        <3>1. CASE k = "CAPS"
            <4>1. do_normal_key(MeantOf(w, down), Byte("CAPS", FALSE)) = MeantOf(w, down)
                BY <1>1, CapsKey
            <4>. QED
                BY <3>1, <4>1
        <3>2. CASE k # "CAPS"
            <4>1. k \notin DOMAIN Fx \cup Modifiers \cup {"E0", "E1"}
                BY <1>3, <3>2, KeyNames DEF NotInTheMap, Modifiers
            <4>. QED
                BY <1>1, <4>1, CharKey
        <3>. QED
            BY <3>1, <3>2
    <2>3. Leads(ReleaseBytes(k), MeantOf(w, down), MeantOf(w, down))
        BY <1>1, <2>1, <2>2, PlainLeads
    <2>4. MeantOf(w, down \ {k}) = MeantOf(w, down)
        BY <2>1, OtherKey
    <2>. QED
        BY <1>1, <1>2, <2>3, <2>4
<1>4. CASE k = "PAUSE"
    <2>1. ReleaseBytes(k) = <<>>
        <3>1. k \notin DOMAIN E0Keys
            BY <1>4, KeyNames DEF NotInTheMap
        <3>. QED
            BY <1>4, <3>1 DEF ReleaseBytes
    <2>2. Leads(<<>>, MeantOf(w, down), MeantOf(w, down))
        BY NoBytes
    <2>3. k \notin FlagKeys
        BY <1>4 DEF FlagKeys
    <2>4. MeantOf(w, down \ {k}) = MeantOf(w, down)
        BY <2>3, OtherKey
    <2>. QED
        BY <1>1, <1>2, <2>1, <2>2, <2>4
<1>5. CASE k \in DOMAIN E0Keys
    BY <1>1, <1>2, <1>5, E0Press
<1>6. CASE k \in {"LSHIFT", "RSHIFT", "CTRL", "ALT"}
    <2>1. k # "PAUSE" /\ k \notin DOMAIN E0Keys
        BY <1>6, KeyNames DEF NotInTheMap, Modifiers
    <2>2. do_normal_key(MeantOf(w, down), Byte(k, FALSE)) = MeantOf(w, down \ {k})
        <3>1. PICK now \in {down \ {k}}, make \in BOOLEAN : now = down \ {k} /\ make = FALSE
            OBVIOUS
        <3>2. now = IF make THEN down \cup {k} ELSE down \ {k}
            BY <3>1
        <3>3. do_normal_key(MeantOf(w, down), Byte(k, make)) = MeantOf(w, now)
            BY <1>6, <3>2, ModifierKey
        <3>. QED
            BY <3>1, <3>3
    <2>. QED
        BY <1>1, <1>2, <2>1, <2>2, PlainLeads
<1>7. CASE k \in DOMAIN Fx
    <2>1. k # "PAUSE" /\ k \notin DOMAIN E0Keys /\ k \notin FlagKeys
        BY <1>7, KeyNames DEF NotInTheMap, Modifiers, FlagKeys
    <2>2. do_normal_key(MeantOf(w, down), Byte(k, FALSE)) = MeantOf(w, down)
        <3>1. CASE down \cap {"CTRL", "RCTRL"} # {}
            <4>1. w.tty = Fx[k]
                BY <1>1, <1>2, <1>7, <3>1 DEF OneFunctionKey
            <4>2. [w EXCEPT !.tty = Fx[k]] = w
                <5>1. PICK caps, ty, inp : w = [caps |-> caps, tty |-> ty, inputs |-> inp]
                    BY <1>1 DEF IsWish
                <5>. QED
                    BY <4>1, <5>1
            <4>3. do_normal_key(MeantOf(w, down), Byte(k, FALSE)) = MeantOf([w EXCEPT !.tty = Fx[k]], down)
                BY <1>1, <1>7, <3>1, FxKey, ZenonT(40)
            <4>. QED
                BY <4>2, <4>3
        <3>2. CASE down \cap {"CTRL", "RCTRL"} = {}
            BY <1>1, <1>7, <3>2, FxKey, Zenon
        <3>. QED
            BY <3>1, <3>2
    <2>3. Leads(ReleaseBytes(k), MeantOf(w, down), MeantOf(w, down))
        BY <1>1, <2>1, <2>2, PlainLeads
    <2>4. MeantOf(w, down \ {k}) = MeantOf(w, down)
        BY <2>1, OtherKey
    <2>. QED
        BY <1>1, <1>2, <2>3, <2>4
<1>. QED
    BY <1>3, <1>4, <1>5, <1>6, <1>7, KeyKinds

-----------------------------------------------------------------------------
(* The steps. *)

\* A key adds its bytes behind those on the way.
LEMMA BytesSent ==
    ASSUME KeyboardInv, NEW bytes \in Seq(Codes), Sends(bytes), NEW m,
           Leads(bytes, MeantOf(wanted, held), m)
    PROVE  /\ Kbd' = Kbd /\ IsKbd(Kbd)'
           /\ wire' \in Seq(Codes) /\ Leads(wire', Kbd', m)
<1>1. /\ IsKbd(Kbd) /\ wire \in Seq(Codes) /\ Leads(wire, Kbd, MeantOf(wanted, held))
      /\ wire' = wire \o bytes
    BY DEF KeyboardInv, Sends
<1>2. Kbd' = Kbd
    BY DEF Kbd, Sends
<1>3. Leads(wire \o bytes, Kbd, m)
    BY <1>1, BytesJoin
<1>4. IsKbd(Kbd)' = IsKbd(Kbd)
    BY <1>2 DEF IsKbd
<1>5. \A u \in Seq(Codes), v \in Seq(Codes) : u \o v \in Seq(Codes)
    OBVIOUS
<1>6. wire \o bytes \in Seq(Codes)
    BY <1>1, <1>5
<1>. QED
    BY <1>1, <1>2, <1>3, <1>4, <1>6

\* The function keys.
LEMMA MeansTty ==
    ASSUME IsWish(wanted), NEW k \in Keys
    PROVE  /\ k \notin DOMAIN Fx => Means(k).tty = wanted.tty
           /\ k \in DOMAIN Fx /\ held \cap {"CTRL", "RCTRL"} # {} => Means(k).tty = Fx[k]
<1>1. PICK caps, ty, inp : wanted = [caps |-> caps, tty |-> ty, inputs |-> inp]
    BY DEF IsWish
<1>2. PICK w : w = wanted
    OBVIOUS
<1>3. CASE k \in DOMAIN Fx
    <2>1. [w EXCEPT !.tty = Fx[k]].tty = Fx[k]
        BY <1>1, <1>2
    <2>2. held \cap {"CTRL", "RCTRL"} # {} => Means(k) = [w EXCEPT !.tty = Fx[k]]
        BY <1>2, <1>3, MeansWhat
    <2>. QED
        BY <1>3, <2>1, <2>2
<1>4. CASE k \notin DOMAIN Fx
    <2>1. \/ \E x : Means(k) = Typed(wanted, held, x)
          \/ Means(k) = Toggled(w)
          \/ Means(k) = wanted
        BY <1>2, <1>4, KeyKinds, MeansWhat DEF Toggled
    <2>2. Toggled(w).tty = w.tty
        BY <1>1, <1>2 DEF Toggled
    <2>. QED
        BY <1>2, <1>4, <2>1, <2>2, TypedWish
<1>. QED
    BY <1>3, <1>4

LEMMA FunctionKeys ==
    ASSUME KeyboardInv, "release" \notin Habits, NEW k \in Keys, Press(k) \/ Repeat(k) \/ Release(k)
    PROVE  OneFunctionKey'
<1>1. OneFunctionKey /\ IsWish(wanted)
    BY DEF KeyboardInv
<1>2. {"CTRL", "RCTRL"} \cap DOMAIN Fx = {}
    BY KeyNames DEF NotInTheMap, Modifiers
<1>3. CASE Press(k)
    <2>1. held \cap DOMAIN Fx = {} /\ held' = held \cup {k} /\ wanted' = Means(k)
        BY <1>3 DEF Press, Alone
    <2>2. ASSUME NEW f \in (held \cap DOMAIN Fx)'
          PROVE  (/\ held \cap DOMAIN Fx = {f}
                  /\ held \cap {"CTRL", "RCTRL"} # {} => wanted.tty = Fx[f])'
        <3>1. f = k /\ held' \cap DOMAIN Fx = {f} /\ k \in DOMAIN Fx
            BY <2>1, <2>2
        <3>2. held' \cap {"CTRL", "RCTRL"} = held \cap {"CTRL", "RCTRL"}
            BY <1>2, <2>1, <3>1
        <3>. QED
            BY <1>1, <2>1, <3>1, <3>2, MeansTty
    <2>. QED
        BY <2>2 DEF OneFunctionKey
<1>4. CASE Repeat(k)
    <2>1. k \in held /\ held' = held /\ wanted' = Means(k)
        BY <1>4 DEF Repeat
    <2>2. ASSUME NEW f \in (held \cap DOMAIN Fx)'
          PROVE  (/\ held \cap DOMAIN Fx = {f}
                  /\ held \cap {"CTRL", "RCTRL"} # {} => wanted.tty = Fx[f])'
        <3>1. /\ held \cap DOMAIN Fx = {f}
              /\ held \cap {"CTRL", "RCTRL"} # {} => wanted.tty = Fx[f]
            BY <1>1, <2>1, <2>2 DEF OneFunctionKey
        <3>2. k \in DOMAIN Fx => k = f
            BY <2>1, <3>1
        <3>. QED
            BY <1>1, <2>1, <3>1, <3>2, MeansTty
    <2>. QED
        BY <2>2 DEF OneFunctionKey
<1>5. CASE Release(k)
    <2>1. held \cap DOMAIN Fx \subseteq {k} /\ held' = held \ {k}
        BY <1>5 DEF Release, Alone
    <2>2. held' \cap DOMAIN Fx = {}
        BY <2>1
    <2>. QED
        BY <2>2 DEF OneFunctionKey
<1>. QED
    BY <1>3, <1>4, <1>5

LEMMA KeyKeeps ==
    ASSUME KeyboardInv, "release" \notin Habits, NEW k \in Keys, Press(k) \/ Repeat(k) \/ Release(k),
           TerminalInv'
    PROVE  KeyboardInv'
<1>1. /\ IsKbd(Kbd) /\ IsWish(wanted) /\ held \subseteq Keys /\ OneFunctionKey
    BY DEF KeyboardInv
<1>2. OneFunctionKey'
    BY FunctionKeys
<1>3. PressBytes(k) \in Seq(Codes) /\ ReleaseBytes(k) \in Seq(Codes)
    BY BytesTyped
<1>4. CASE Press(k) \/ Repeat(k)
    <2>1. Sends(PressBytes(k)) /\ wanted' = Means(k)
        BY <1>4 DEF Press, Repeat
    <2>2. held' = held \cup {k}
        BY <1>4 DEF Press, Repeat
    <2>3. /\ Leads(PressBytes(k), MeantOf(wanted, held), MeantOf(Means(k), held \cup {k}))
          /\ IsWish(Means(k))
        BY <1>1, PressLeads
    <2>4. PICK m : m = MeantOf(Means(k), held \cup {k})
        OBVIOUS
    <2>5. IsKbd(Kbd)' /\ wire' \in Seq(Codes) /\ Leads(wire', Kbd', m)
        BY <1>3, <2>1, <2>3, <2>4, BytesSent
    <2>6. MeantOf(wanted', held') = m
        BY <2>1, <2>2, <2>4
    <2>7. IsWish(wanted')
        BY <2>1, <2>3
    <2>8. held' \subseteq Keys
        BY <1>1, <2>2
    <2>9. Leads(wire', Kbd', MeantOf(wanted', held'))
        BY <2>5, <2>6
    <2>. QED
        BY <1>2, <2>5, <2>7, <2>8, <2>9 DEF KeyboardInv
<1>5. CASE Release(k)
    <2>1. k \in held /\ Sends(ReleaseBytes(k)) /\ wanted' = wanted /\ held' = held \ {k}
        BY <1>5 DEF Release
    <2>2. Leads(ReleaseBytes(k), MeantOf(wanted, held), MeantOf(wanted, held \ {k}))
        BY <1>1, <2>1, ReleaseLeads
    <2>3. PICK m : m = MeantOf(wanted, held \ {k})
        OBVIOUS
    <2>4. IsKbd(Kbd)' /\ wire' \in Seq(Codes) /\ Leads(wire', Kbd', m)
        BY <1>3, <2>1, <2>2, <2>3, BytesSent
    <2>5. MeantOf(wanted', held') = m
        BY <2>1, <2>3
    <2>6. IsWish(wanted') /\ held' \subseteq Keys
        BY <1>1, <2>1
    <2>7. Leads(wire', Kbd', MeantOf(wanted', held'))
        BY <2>4, <2>5
    <2>. QED
        BY <1>2, <2>4, <2>6, <2>7 DEF KeyboardInv
<1>. QED
    BY <1>4, <1>5

\* The handler takes the first byte.
LEMMA HandlerKeeps ==
    ASSUME KeyboardInv, do_handler_kbd, TerminalInv'
    PROVE  KeyboardInv'
<1>1. /\ IsKbd(Kbd) /\ IsWish(wanted) /\ wire \in Seq(Codes) /\ held \subseteq Keys
      /\ Leads(wire, Kbd, MeantOf(wanted, held)) /\ OneFunctionKey
    BY DEF KeyboardInv
<1>2. PICK k : k = Handled(Kbd, Head(wire))
    OBVIOUS
<1>3. /\ wire # <<>> /\ wire' = Tail(wire) /\ held' = held /\ wanted' = wanted
      /\ kbd_state' = k.flags /\ recv_state' = k.recv /\ cur_tty' = k.tty /\ inputs' = k.inputs
    BY <1>2 DEF do_handler_kbd
<1>4. Head(wire) \in Codes /\ Tail(wire) \in Seq(Codes)
    BY <1>1, <1>3
<1>5. IsKbd(k)
    BY <1>1, <1>2, <1>4, HandledIsKbd
<1>6. Kbd' = k
    <2>1. k = [flags |-> k.flags, recv |-> k.recv, tty |-> k.tty, inputs |-> k.inputs]
        BY <1>5 DEF IsKbd
    <2>. QED
        BY <1>3, <2>1 DEF Kbd
<1>7. Leads(Tail(wire), k, MeantOf(wanted, held))
    BY <1>1, <1>2, <1>3, FirstByte
<1>8. Leads(wire', Kbd', MeantOf(wanted', held'))
    BY <1>3, <1>6, <1>7
<1>9. IsKbd(Kbd')
    BY <1>5, <1>6
<1>10. OneFunctionKey'
    BY <1>1, <1>3 DEF OneFunctionKey
<1>11. IsWish(wanted') /\ wire' \in Seq(Codes) /\ held' \subseteq Keys
    BY <1>1, <1>3, <1>4
<1>. QED
    BY <1>8, <1>9, <1>10, <1>11 DEF KeyboardInv

LEMMA KeyboardRests ==
    ASSUME KeyboardInv, UNCHANGED <<kbd_state, recv_state, cur_tty, inputs, wire, held, wanted>>,
           TerminalInv'
    PROVE  KeyboardInv'
<1>1. /\ IsKbd(Kbd) /\ IsWish(wanted) /\ wire \in Seq(Codes) /\ held \subseteq Keys
      /\ Leads(wire, Kbd, MeantOf(wanted, held)) /\ OneFunctionKey
    BY DEF KeyboardInv
<1>2. Kbd' = Kbd
    BY DEF Kbd
<1>3. Leads(wire', Kbd', MeantOf(wanted', held')) /\ IsKbd(Kbd')
    BY <1>1, <1>2
<1>4. OneFunctionKey'
    BY <1>1 DEF OneFunctionKey
<1>5. IsWish(wanted') /\ wire' \in Seq(Codes) /\ held' \subseteq Keys
    BY <1>1
<1>. QED
    BY <1>3, <1>4, <1>5 DEF KeyboardInv

LEMMA KeyboardNext ==
    ASSUME {"wrap", "outside", "params", "release"} \cap Habits = {}, KeyboardInv, [Next]_vars
    PROVE  KeyboardInv'
<1>1. TerminalInv'
    <2>1. TerminalInv
        BY DEF KeyboardInv
    <2>2. {"wrap", "outside", "params"} \cap Habits = {}
        OBVIOUS
    <2>. QED
        BY <2>1, <2>2, TerminalStep
<1>2. CASE do_handler_kbd
    BY <1>1, <1>2, HandlerKeeps
<1>3. CASE \E key \in Keys : Press(key) \/ Repeat(key) \/ Release(key)
    <2>1. PICK key \in Keys : Press(key) \/ Repeat(key) \/ Release(key)
        BY <1>3
    <2>2. "release" \notin Habits
        OBVIOUS
    <2>. QED
        BY <1>1, <2>1, <2>2, KeyKeeps
<1>4. CASE Output \/ Rest \/ UNCHANGED vars
    <2>1. UNCHANGED <<kbd_state, recv_state, cur_tty, inputs, wire, held, wanted>>
        BY <1>4 DEF Output, Rest, vars, keyboardVars
    <2>. QED
        BY <1>1, <2>1, KeyboardRests
<1>. QED
    BY <1>2, <1>3, <1>4 DEF Next, Keyboard

LEMMA KeyboardStarts == Init => KeyboardInv
<1> SUFFICES ASSUME Init PROVE KeyboardInv
    OBVIOUS
<1>1. TerminalInv
    BY TerminalInit
<1>2. /\ kbd_state = [f \in Flags |-> FALSE] /\ recv_state = "NORMAL" /\ cur_tty = 0 /\ inputs = <<>>
      /\ wire = <<>> /\ held = {} /\ wanted = [caps |-> FALSE, tty |-> 0, inputs |-> <<>>]
    BY DEF Init, KeyboardInit
<1>3. IsWish(wanted)
    BY <1>2 DEF IsWish
<1>4. PICK m : m = MeantOf(wanted, held)
    OBVIOUS
<1>5. kbd_state = FlagsOf(FALSE, {})
    <2>1. PICK off \in BOOLEAN : off = FALSE
        OBVIOUS
    <2>2. FlagsOf(off, {}) = [f \in Flags |-> off]
        <3>1. \A x : (x \in {}) = off
            BY <2>1
        <3>. QED
            BY <3>1 DEF FlagsOf
    <2>. QED
        BY <1>2, <2>1, <2>2
<1>6. Kbd = m
    BY <1>2, <1>4, <1>5 DEF Kbd, MeantOf
<1>7. IsKbd(Kbd) /\ Leads(wire, Kbd, m)
    BY <1>2, <1>3, <1>4, <1>6, MeantIsKbd, NoBytes
<1>8. wire \in Seq(Codes) /\ held \subseteq Keys /\ OneFunctionKey
    BY <1>2 DEF OneFunctionKey
<1>. QED
    BY <1>1, <1>3, <1>4, <1>7, <1>8 DEF KeyboardInv

LEMMA NothingOnTheWay == KeyboardInv => KeyboardAgrees
<1> SUFFICES ASSUME KeyboardInv PROVE KeyboardAgrees
    OBVIOUS
<1>1. /\ TerminalInv /\ IsKbd(Kbd) /\ held \subseteq Keys /\ Leads(wire, Kbd, MeantOf(wanted, held))
    BY DEF KeyboardInv
<1>2. TermTypeOK
    <2>1. ConsoleTypeOK /\ cur_tty = curr_console_index
        <3>1. ConsoleInv /\ cur_tty = curr_console_index
            BY <1>1 DEF TerminalInv
        <3>2. ASSUME NEW c \in Consoles
              PROVE  /\ console[c].base \in {-1, c * CELLS}
                     /\ console[c].write_state \in {"NORMAL", "ESC", "SQUARE"}
                     /\ console[c].curr_param_index \in 0 .. ESC_PARAM_MAX + 1
                     /\ console[c].write_state = "SQUARE" => console[c].curr_param_index <= ESC_PARAM_MAX
                     /\ DOMAIN console[c].esc_param = 0 .. ESC_PARAM_MAX - 1
                     /\ console[c].old_row \in 0 .. ROWS - 1 /\ console[c].old_col \in 0 .. COLS - 1
            <4>1. PICK con \in ConsoleRecords :
                      con = console[c] /\ con.base \in {-1, c * CELLS} /\ Settled(con)
                BY <3>1, <3>2 DEF ConsoleInv
            <4>2. con.write_state \in {"NORMAL", "ESC", "SQUARE"} /\ DOMAIN con.esc_param = ParamRange
                BY DEF ConsoleRecords
            <4>. QED
                BY <4>1, <4>2 DEF Settled, ParamRange, Rows, Cols
        <3>3. DOMAIN disp = DOMAIN Boot /\ curr_console_index \in Consoles
            BY <3>1 DEF ConsoleInv, Displays
        <3>. QED
            BY <3>1, <3>2, <3>3 DEF ConsoleTypeOK
    <2>2. kbd_state \in [Flags -> BOOLEAN] /\ recv_state \in {"NORMAL", "BEGIN_E0", "BEGIN_E1"}
        BY <1>1 DEF IsKbd, Kbd
    <2>. QED
        BY <1>1, <2>1, <2>2 DEF TermTypeOK
<1>3. ASSUME wire = <<>>
      PROVE  /\ recv_state = "NORMAL" /\ kbd_state = FlagsOf(wanted.caps, held)
             /\ cur_tty = wanted.tty /\ inputs = wanted.inputs
    <2>1. Kbd = MeantOf(wanted, held)
        BY <1>1, <1>3, NoBytes
    <2>2. /\ Kbd.flags = kbd_state /\ Kbd.recv = recv_state /\ Kbd.tty = cur_tty /\ Kbd.inputs = inputs
        BY DEF Kbd
    <2>3. /\ MeantOf(wanted, held).flags = FlagsOf(wanted.caps, held)
          /\ MeantOf(wanted, held).recv = "NORMAL"
          /\ MeantOf(wanted, held).tty = wanted.tty /\ MeantOf(wanted, held).inputs = wanted.inputs
        BY DEF MeantOf
    <2>. QED
        BY <2>1, <2>2, <2>3
<1>. QED
    BY <1>2, <1>3 DEF KeyboardAgrees

\* Keys may be pressed while others are down, repeat, carry one byte, two, or six, and
\* come faster than the handler takes their bytes: once no byte is on the way, the flags
\* of kbd.c are the keys that are down, and every key has reached, as the character the
\* user meant, the terminal the user had selected.  For every map of keys and every number
\* of terminals, as long as nothing else is pressed or released while a function key is
\* down, and as programs write what TerminalsAreScreens asks of them.
THEOREM KeyboardIsRight ==
    ASSUME {"wrap", "outside", "params", "release"} \cap Habits = {}
    PROVE  TermSpec => []KeyboardAgrees
<1>1. KeyboardInv /\ [Next]_vars => KeyboardInv'
    BY KeyboardNext
<1>. QED
    BY <1>1, KeyboardStarts, NothingOnTheWay, PTL DEF TermSpec

=============================================================================

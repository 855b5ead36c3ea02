-------------------------------- MODULE Tty ---------------------------------
(***************************************************************************)
(* One terminal: kernel/dev/tty.c, with console_write of dev/console.c and *)
(* the keyboard interrupt.                                                 *)
(*                                                                         *)
(* Output: tty_write takes a place in the output fifo per character and,   *)
(* when the whole text is in, calls console_write, which empties the fifo  *)
(* onto the screen under the console's mutex, whoever wrote the characters.*)
(* Input: the keyboard interrupt puts a character and a token; tty_read    *)
(* takes a token, then a character, until the line ends, and echoes.       *)
(*                                                                         *)
(* The calls run with interrupts on and devfs has no mutex: any task that  *)
(* is not suspended in a semaphore takes the next step.  The fifos and the *)
(* semaphores are changed under irq_enter_protection.  The fifos are       *)
(* sequences here.                                                         *)
(***************************************************************************)
EXTENDS Semaphores, Integers, FiniteSets

CONSTANTS OBUF_SIZE, IBUF_SIZE, \* TTY_OBUF_SIZE, TTY_IBUF_SIZE
          Chars,        \* the characters of the texts, "nl" as the program writes it
          Lines,        \* the texts a task may write
          Keys,         \* the characters the keyboard may send
          ReadSize,     \* the size of a tty_read
          MaxWrites,    \* bound on the calls of tty_write
          MaxKeys,      \* bound on the keys pressed
          None

ASSUME TtyAssumption ==
    /\ OBUF_SIZE \in Nat \ {0} /\ IBUF_SIZE \in Nat \ {0}
    /\ Sems = {"osem", "isem"}
    /\ Start = [s \in Sems |-> IF s = "osem" THEN OBUF_SIZE ELSE 0]
    /\ IsFiniteSet(Users) /\ None \notin Users
    /\ Lines \subseteq Seq(Chars) \ {<<>>} /\ Keys \subseteq Chars
    /\ ReadSize \in Nat \ {0}
    /\ MaxWrites \in Nat /\ MaxKeys \in Nat

VARIABLES ofifo, ififo,  \* tty->ofifo, tty->ififo
          iecho,         \* tty->iflags & TTY_IECHO
          console,       \* the owner of console->mutex
          screen,        \* the characters shown so far
          pc,            \* where the task is in its call
          todo,          \* tty_write: the characters not put yet
          showing,       \* console_write: the character taken off the fifo
          len,           \* tty_read: the characters read, -1 outside tty_read
          ch,            \* tty_read: the last character
          written,       \* all characters ever put into the output fifo
          writesLeft, keysLeft

ttyVars == <<ofifo, ififo, iecho, console, screen, pc, todo, showing, len, ch,
             written, writesLeft, keysLeft>>

allVars == <<semVars, ttyVars>>

Goes(t, p) == pc' = [pc EXCEPT ![t] = p]
At(t, p) == pc[t] = p /\ ~Suspended(t)

\* A fifo that is full takes nothing, and one that is empty gives nothing.
tty_fifo_put(fifo, size, c) == IF Len(fifo) >= size THEN fifo ELSE Append(fifo, c)
tty_fifo_get(fifo) == IF fifo = <<>> THEN <<>> ELSE Tail(fifo)

\* TTY_OCRLF: a new line is put as two characters, "cr" and then "lf".
NextChar(line) == IF Head(line) = "nl" THEN "cr" ELSE Head(line)
Rest(line) == IF Head(line) = "nl" THEN <<"lf">> \o Tail(line) ELSE Tail(line)

\* tty_open
TtyInit ==
    /\ SemsInit
    /\ ofifo = <<>> /\ ififo = <<>>
    /\ iecho = TRUE
    /\ console = None
    /\ screen = <<>>
    /\ pc = [t \in Users |-> "user"]
    /\ todo = [t \in Users |-> <<>>]
    /\ showing = [t \in Users |-> <<>>]
    /\ len = [t \in Users |-> -1]
    /\ ch = [t \in Users |-> None]
    /\ written = <<>>
    /\ writesLeft = MaxWrites
    /\ keysLeft = MaxKeys

-----------------------------------------------------------------------------
(* tty_write *)

tty_write(t, line) ==
    /\ At(t, "user")
    /\ writesLeft > 0
    /\ writesLeft' = writesLeft - 1
    /\ todo' = [todo EXCEPT ![t] = line]
    /\ Goes(t, "w_take")
    /\ UNCHANGED <<semVars, ofifo, ififo, iecho, console, screen, showing, len, ch, written, keysLeft>>

\* Mutant: a character is put without a place.
w_take_none(t) ==
    /\ At(t, "w_take")
    /\ Goes(t, "w_put")
    /\ UNCHANGED <<semVars, ofifo, ififo, iecho, console, screen, todo, showing, len, ch, written, writesLeft, keysLeft>>

w_take(t) ==
    /\ At(t, "w_take")
    /\ Wait("osem", t)
    /\ Goes(t, "w_put")
    /\ UNCHANGED <<ofifo, ififo, iecho, console, screen, todo, showing, len, ch, written, writesLeft, keysLeft>>

\* tty_fifo_put; a full fifo ends the call.
w_put(t) ==
    /\ At(t, "w_put")
    /\ ofifo' = tty_fifo_put(ofifo, OBUF_SIZE, NextChar(todo[t]))
    /\ IF ofifo' = ofifo
       THEN /\ todo' = [todo EXCEPT ![t] = <<>>]
            /\ Goes(t, "c_lock")
            /\ UNCHANGED written
       ELSE /\ written' = Append(written, NextChar(todo[t]))
            /\ todo' = [todo EXCEPT ![t] = Rest(@)]
            /\ Goes(t, IF Rest(todo[t]) = <<>> THEN "c_lock" ELSE "w_take")
    /\ UNCHANGED <<semVars, ififo, iecho, console, screen, showing, len, ch, writesLeft, keysLeft>>

-----------------------------------------------------------------------------
(* console_write *)

\* Mutant: no mutex.
c_lock_none(t) ==
    /\ At(t, "c_lock")
    /\ console' = t
    /\ Goes(t, "c_get")
    /\ UNCHANGED <<semVars, ofifo, ififo, iecho, screen, todo, showing, len, ch, written, writesLeft, keysLeft>>

c_lock(t) ==
    /\ At(t, "c_lock")
    /\ console = None
    /\ console' = t
    /\ Goes(t, "c_get")
    /\ UNCHANGED <<semVars, ofifo, ififo, iecho, screen, todo, showing, len, ch, written, writesLeft, keysLeft>>

c_get(t) ==
    /\ At(t, "c_get")
    /\ ofifo # <<>>
    /\ showing' = [showing EXCEPT ![t] = <<Head(ofifo)>>]
    /\ ofifo' = tty_fifo_get(ofifo)
    /\ Goes(t, "c_notify")
    /\ UNCHANGED <<semVars, ififo, iecho, console, screen, todo, len, ch, written, writesLeft, keysLeft>>

\* Mutant: the place in the fifo is not given back.
c_notify_forgets(t) ==
    /\ At(t, "c_notify")
    /\ screen' = screen \o showing[t]
    /\ showing' = [showing EXCEPT ![t] = <<>>]
    /\ Goes(t, "c_get")
    /\ UNCHANGED <<semVars, ofifo, ififo, iecho, console, todo, len, ch, written, writesLeft, keysLeft>>

c_notify(t) ==
    /\ At(t, "c_notify")
    /\ Post("osem")
    /\ screen' = screen \o showing[t]
    /\ showing' = [showing EXCEPT ![t] = <<>>]
    /\ Goes(t, "c_get")
    /\ UNCHANGED <<ofifo, ififo, iecho, console, todo, len, ch, written, writesLeft, keysLeft>>

\* tty_read goes on after the echo unless the line or the buffer is full.
ReadGoesOn(n, c) == n < ReadSize /\ c \notin {"cr", "nl"}
AfterRound(t, n, c) ==
    IF n >= 0 /\ ReadGoesOn(n, c)
    THEN Goes(t, "r_take") /\ len' = [len EXCEPT ![t] = n]
    ELSE Goes(t, "user") /\ len' = [len EXCEPT ![t] = -1]

\* The fifo is empty: unlock, and tty_write returns to its caller.
c_unlock(t) ==
    /\ At(t, "c_get")
    /\ ofifo = <<>>
    /\ console' = None
    /\ AfterRound(t, len[t], ch[t])
    /\ UNCHANGED <<semVars, ofifo, ififo, iecho, screen, todo, showing, ch, written, writesLeft, keysLeft>>

-----------------------------------------------------------------------------
(* tty_read *)

tty_read(t) ==
    /\ At(t, "user")
    /\ len' = [len EXCEPT ![t] = 0]
    /\ ch' = [ch EXCEPT ![t] = None]
    /\ Goes(t, "r_take")
    /\ UNCHANGED <<semVars, ofifo, ififo, iecho, console, screen, todo, showing, written, writesLeft, keysLeft>>

r_take(t) ==
    /\ At(t, "r_take")
    /\ Wait("isem", t)
    /\ Goes(t, "r_get")
    /\ UNCHANGED <<ofifo, ififo, iecho, console, screen, todo, showing, len, ch, written, writesLeft, keysLeft>>

\* The length of the line after character c.
NewLen(n, c) ==
    IF c = "del" THEN n - 1
    ELSE IF c = "nl" /\ n < ReadSize - 1 THEN n + 2
    ELSE n + 1

\* The fifo may be empty although there was a token: the error is ignored and
\* the character is whatever the stack holds.
r_get(t) ==
    /\ At(t, "r_get")
    /\ ififo' = tty_fifo_get(ififo)
    /\ \E c \in IF ififo = <<>> THEN Keys ELSE {Head(ififo)} :
         /\ ch' = [ch EXCEPT ![t] = c]
         /\ IF c = "del" /\ len[t] = 0
            THEN Goes(t, "r_take") /\ UNCHANGED <<len, todo>>
            ELSE IF iecho
            THEN /\ len' = [len EXCEPT ![t] = NewLen(len[t], c)]
                 /\ todo' = [todo EXCEPT ![t] = <<c>>]
                 /\ Goes(t, "w_take")
            ELSE /\ AfterRound(t, NewLen(len[t], c), c)
                 /\ UNCHANGED todo
    /\ UNCHANGED <<semVars, ofifo, iecho, console, screen, showing, written, writesLeft, keysLeft>>

\* TTY_CMD_ECHO
tty_control(t) ==
    /\ At(t, "user")
    /\ iecho' = ~iecho
    /\ UNCHANGED <<semVars, ofifo, ififo, console, screen, pc, todo, showing, len, ch, written, writesLeft, keysLeft>>

\* The keyboard interrupt, in the middle of any task.
tty_in(c) ==
    /\ keysLeft > 0
    /\ keysLeft' = keysLeft - 1
    /\ IF tokens["isem"] >= IBUF_SIZE
       THEN UNCHANGED <<semVars, ififo>>
       ELSE /\ ififo' = tty_fifo_put(ififo, IBUF_SIZE, c)
            /\ Post("isem")
    /\ UNCHANGED <<ofifo, iecho, console, screen, pc, todo, showing, len, ch, written, writesLeft>>

-----------------------------------------------------------------------------

\* What a task does once it is inside a call.
Inside(t) ==
    \/ w_take(t) \/ w_put(t)
    \/ c_lock(t) \/ c_get(t) \/ c_notify(t) \/ c_unlock(t)
    \/ r_take(t) \/ r_get(t)

TtyNext ==
    \/ \E t \in Users :
         \/ Inside(t) \/ tty_read(t) \/ tty_control(t)
         \/ \E line \in Lines : tty_write(t, line)
    \/ \E c \in Keys : tty_in(c)

TtySpec == TtyInit /\ [][TtyNext]_allVars

\* A task inside a call that is not suspended gets the CPU.  The console's
\* mutex is handed over in order, so who waits for it gets it: strong fairness.
TtyFairness == \A t \in Users : WF_allVars(Inside(t)) /\ SF_allVars(c_lock(t))

FairTtySpec == TtySpec /\ TtyFairness

-----------------------------------------------------------------------------

Points == {"user", "w_take", "w_put", "c_lock", "c_get", "c_notify", "r_take", "r_get"}

\* The fifos stay within their sizes and a line within the reader's buffer.
TtyTypeOK ==
    /\ tokens \in [Sems -> Nat]
    /\ waiting \in [Sems -> Seq(Users)]
    /\ Len(ofifo) <= OBUF_SIZE /\ Len(ififo) <= IBUF_SIZE
    /\ iecho \in BOOLEAN
    /\ console \in Users \cup {None}
    /\ pc \in [Users -> Points]
    /\ len \in [Users -> -1 .. ReadSize]
    /\ writesLeft \in 0 .. MaxWrites /\ keysLeft \in 0 .. MaxKeys

\* The tasks that have the next step at p.
Awake(p) == {t \in Users : At(t, p)}

\* Every place of the output fifo is accounted for: it is free, holds a
\* character, or is in the hands of one task between semaphore and fifo.  So a
\* task that got a place never finds the fifo full.
PlacesConserved ==
    tokens["osem"] + Cardinality(Awake("w_put")) + Len(ofifo) + Cardinality(Awake("c_notify"))
        = OBUF_SIZE

\* Whatever tasks write together, and whoever shows it, no character is lost
\* or shown twice, and they appear in the order in which they were put.
ScreenInOrder ==
    /\ screen \o (IF console = None THEN <<>> ELSE showing[console]) \o ofifo = written
    /\ \A t \in Users : showing[t] # <<>> => t = console

\* A character in the input fifo has a token, so that no reader sleeps while
\* there is something to read.
DataHasToken == Len(ififo) <= tokens["isem"] + Cardinality(Awake("r_get"))

\* The tokens of both semaphores match their fifos.
TokensMatch == TtyTypeOK /\ PlacesConserved /\ DataHasToken

\* A writer is only stuck when all are: the fifo is full, and no task is on
\* its way to empty it.
AllWritersStuck ==
    /\ Len(ofifo) = OBUF_SIZE
    /\ \A t \in Users : pc[t] \in {"user", "r_take", "r_get", "w_put"}
    /\ \A t \in Users : pc[t] = "w_put" => Suspended(t)

StuckOnlyTogether ==
    \A t \in Users : pc[t] = "w_put" ~> pc[t] # "w_put" \/ AllWritersStuck

\* tty_write returns the number of bytes written.  With a text longer than the
\* output fifo it does not return.
WriteReturns == \A t \in Users : pc[t] = "w_take" ~> pc[t] = "user"

=============================================================================

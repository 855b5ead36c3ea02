------------------------------ MODULE Console ------------------------------
(***************************************************************************)
(* The consoles, kernel/dev/console.c: windows that follow one another in  *)
(* one display memory, with a cursor each and a machine that takes the     *)
(* bytes of a program apart.  Every n of the loops and of scroll_up is 1   *)
(* in this code.  Colours and the hardware cursor are left out.            *)
(***************************************************************************)
EXTENDS Integers, Sequences

CONSTANTS CONSOLE_NR, ROWS, COLS, ESC_PARAM_MAX,
          Glyphs,     \* the printable characters programs write
          Boot,       \* what the display memory holds at boot
          BootCursor, \* where the loader has left the cursor
          Messages,   \* what programs write, sequences of bytes
          Habits      \* what programs and users do: see Usual, and Keyboard

\* What is erased shows a space.
Space == " "

ASSUME ConsoleAssumption ==
    /\ CONSOLE_NR \in Nat \ {0} /\ ESC_PARAM_MAX \in Nat \ {0, 1}
    /\ ROWS \in Nat \ {0} /\ COLS \in Nat \ {0} /\ ROWS < COLS
    /\ Space \in Glyphs /\ {"ESC", "DEL", "BS", "CR", "LF"} \cap Glyphs = {}
    /\ Boot = [i \in 0 .. CONSOLE_NR * ROWS * COLS - 1 |-> Boot[i]]
    /\ BootCursor \subseteq (0 .. ROWS - 1) \X (0 .. COLS - 1)

VARIABLES disp,       \* the display memory: character by place
          console,    \* console_buf: base (disp_base, -1 for 0), row, col, old_row,
                      \* old_col, write_state, esc_param, curr_param_index
          curr_console_index,
          ofifo       \* what is being written to a terminal and not yet shown

consoleVars == <<disp, console, curr_console_index, ofifo>>

Consoles == 0 .. CONSOLE_NR - 1
CELLS == ROWS * COLS
NoParams == [i \in 0 .. ESC_PARAM_MAX - 1 |-> 0]

\* The operations work on a pair s of a console, s.con, and the display, s.disp.
\* display_rows and display_cols are ROWS and COLS.
erase_rows(s, start, end) ==
    LET at == s.con.base
    IN  [s EXCEPT !.disp = [i \in DOMAIN @ |->
            IF i \in at + COLS * start .. at + COLS * (end + 1) - 1 THEN Space ELSE @[i]]]

\* Mutant: the line that comes free is not erased.
scroll_up_KeepsTheLast(s) ==
    LET at == s.con.base
    IN  [s EXCEPT !.con.row = @ - 1, !.disp = [i \in DOMAIN @ |->
            IF i \in at .. at + CELLS - COLS - 1 THEN @[i + COLS] ELSE @[i]]]

scroll_up(s) ==
    LET at == s.con.base
        up == [s EXCEPT !.disp = [i \in DOMAIN @ |->
                 IF i \in at .. at + CELLS - COLS - 1 THEN @[i + COLS] ELSE @[i]]]
    IN  [erase_rows(up, ROWS - 1, ROWS - 1) EXCEPT !.con.row = @ - 1]

move_next_line(s) ==
    LET t == [s EXCEPT !.con.row = @ + 1] IN IF t.con.row >= ROWS THEN scroll_up(t) ELSE t

\* The row is compared with the number of columns.
move_forward(s) ==
    LET t == [s EXCEPT !.con.col = 0, !.con.row = @ + 1]
    IN  IF s.con.col + 1 < COLS THEN [s EXCEPT !.con.col = @ + 1]
        ELSE IF t.con.row >= COLS THEN scroll_up(t) ELSE t

AtOrigin(s) == s.con.col <= 0 /\ s.con.row <= 0

move_backword(s) ==
    CASE s.con.col > 0 -> [s EXCEPT !.con.col = @ - 1]
      [] s.con.col <= 0 /\ s.con.row > 0 -> [s EXCEPT !.con.row = @ - 1, !.con.col = COLS - 1]
      [] OTHER -> s

Cursor(s) == s.con.base + s.con.col + s.con.row * COLS
show_char(s, c) == move_forward([s EXCEPT !.disp[Cursor(s)] = c])

\* It fails, and nothing is erased, in the first place of the window.
erase_backword(s) ==
    IF AtOrigin(s) THEN s ELSE move_backword(show_char(move_backword(s), Space))

clear_display(s) == erase_rows(s, 0, ROWS - 1)

\* Console 0 takes the cursor of the hardware, in Init.
console_init(s, idx) ==
    clear_display([s EXCEPT !.con.base = idx * CELLS, !.con.row = 0, !.con.col = 0,
                            !.con.old_row = 0, !.con.old_col = 0])

save_cursor(s) == [s EXCEPT !.con.old_col = s.con.col, !.con.old_row = s.con.row]
restore_cursor(s) == [s EXCEPT !.con.col = s.con.old_col, !.con.row = s.con.old_row]
clear_esc_param(s) == [s EXCEPT !.con.esc_param = NoParams, !.con.curr_param_index = 0]

State(s, state) == [s EXCEPT !.con.write_state = state]

write_normal(s, c) ==
    CASE c = "ESC" -> State(s, "ESC")
      [] c = "DEL" -> erase_backword(s)
      [] c = "BS"  -> move_backword(s)
      [] c = "CR"  -> [s EXCEPT !.con.col = 0]
      [] c = "LF"  -> move_next_line(s)
      [] c \in Glyphs -> show_char(s, c)
      [] OTHER -> s

write_esc(s, c) ==
    CASE c = "7" -> State(save_cursor(s), "NORMAL")
      [] c = "8" -> State(restore_cursor(s), "NORMAL")
      [] c = "[" -> State(clear_esc_param(s), "SQUARE")
      [] OTHER   -> State(s, "NORMAL")

\* n is 1 when it is not given.
Times(n) == IF n = 0 THEN 1 ELSE n
move_left(s, n) == [s EXCEPT !.con.col = IF @ - Times(n) >= 0 THEN @ - Times(n) ELSE 0]
move_right(s, n) == [s EXCEPT !.con.col = IF @ + Times(n) >= COLS THEN COLS - 1 ELSE @ + Times(n)]
move_cursor(s) == [s EXCEPT !.con.row = s.con.esc_param[0], !.con.col = s.con.esc_param[1]]
erase_in_display(s) ==
    IF s.con.esc_param[0] = 2 THEN [clear_display(s) EXCEPT !.con.row = 0, !.con.col = 0] ELSE s

Digit == [c \in {"0", "1", "2"} |-> CASE c = "0" -> 0 [] c = "1" -> 1 [] OTHER -> 2]

\* 'm' sets colours.
Command(s, c) ==
    CASE c = "D" -> move_left(s, s.con.esc_param[0])
      [] c = "C" -> move_right(s, s.con.esc_param[0])
      [] c \in {"H", "f"} -> move_cursor(s)
      [] c = "J" -> erase_in_display(s)
      [] OTHER -> s

write_esc_square(s, c) ==
    LET next == [s EXCEPT !.con.curr_param_index = @ + 1]
    IN  CASE c \in DOMAIN Digit -> [s EXCEPT !.con.esc_param[s.con.curr_param_index] = @ * 10 + Digit[c]]
          [] c = ";" /\ s.con.curr_param_index < ESC_PARAM_MAX -> next
          [] OTHER -> State(Command(next, c), "NORMAL")

write_char(s, c) ==
    CASE s.con.write_state = "NORMAL" -> write_normal(s, c)
      [] s.con.write_state = "ESC"    -> write_esc(s, c)
      [] OTHER                        -> write_esc_square(s, c)

Of(idx) == [con |-> console[idx], disp |-> disp]
Becomes(idx, s) == console' = [console EXCEPT ![idx] = s.con] /\ disp' = s.disp

\* What programs do and do not do:
\*   "wrap"    they write in the last place of the window, where the text wraps,
\*   "outside" they move the cursor to places that the window does not have,
\*   "params"  they give more parameters than ESC_PARAM_MAX.
Usual(s, c) ==
    /\ "wrap" \in Habits \/ ~(/\ s.con.write_state = "NORMAL" /\ c \in Glyphs
                             /\ s.con.row = ROWS - 1 /\ s.con.col = COLS - 1)
    /\ "outside" \in Habits \/ ~(/\ s.con.write_state = "SQUARE" /\ c \in {"H", "f"}
                                /\ ~(s.con.esc_param[0] < ROWS /\ s.con.esc_param[1] < COLS))
    /\ "params" \in Habits \/ ~(/\ s.con.write_state = "SQUARE" /\ c \in DOMAIN Digit
                               /\ s.con.curr_param_index >= ESC_PARAM_MAX)

ConsoleInit ==
    /\ disp = Boot
    /\ \E at \in BootCursor :
          console = [c \in Consoles |->
            [base |-> IF c = 0 THEN 0 ELSE -1, esc_param |-> NoParams, curr_param_index |-> 0,
             row |-> IF c = 0 THEN at[1] ELSE 0, col |-> IF c = 0 THEN at[2] ELSE 0,
             old_row |-> IF c = 0 THEN at[1] ELSE 0, old_col |-> IF c = 0 THEN at[2] ELSE 0,
             write_state |-> "NORMAL"]]
    /\ curr_console_index = 0
    /\ ofifo = [c \in Consoles |-> <<>>]

\* The console's part of tty_open, for a terminal nobody has open.  The log keeps
\* terminal 0 open.
tty_open(idx) ==
    /\ ofifo[idx] = <<>> /\ idx # 0
    /\ Becomes(idx, console_init(Of(idx), idx))
    /\ UNCHANGED <<curr_console_index, ofifo>>

\* A program writes: the bytes reach the console one by one.
tty_write(idx, m) ==
    /\ ofifo[idx] = <<>> /\ console[idx].base # -1
    /\ ofifo' = [ofifo EXCEPT ![idx] = m]
    /\ UNCHANGED <<disp, console, curr_console_index>>

console_write(idx) ==
    /\ ofifo[idx] # <<>>
    /\ Usual(Of(idx), Head(ofifo[idx]))
    /\ Becomes(idx, write_char(Of(idx), Head(ofifo[idx])))
    /\ ofifo' = [ofifo EXCEPT ![idx] = Tail(@)]
    /\ UNCHANGED curr_console_index

\* A program that keeps to its habits stops there.
Stops(idx) ==
    /\ ofifo[idx] # <<>> /\ ~Usual(Of(idx), Head(ofifo[idx]))
    /\ ofifo' = [ofifo EXCEPT ![idx] = <<>>]
    /\ UNCHANGED <<disp, console, curr_console_index>>

\* Called by the keyboard's handler, in the middle of anything.
console_select(idx) ==
    /\ IF console[idx].base = -1 THEN Becomes(idx, console_init(Of(idx), idx))
       ELSE UNCHANGED <<disp, console>>
    /\ curr_console_index' = idx
    /\ UNCHANGED ofifo

(***************************************************************************)
(* Properties.                                                             *)
(***************************************************************************)
\* The types of the consoles; the parameters of a sequence stay within the array,
\* and the cursor to come back to is in the window.
ConsoleTypeOK ==
    /\ \A c \in Consoles :
         /\ console[c].base \in {-1, c * CELLS}
         /\ console[c].write_state \in {"NORMAL", "ESC", "SQUARE"}
         /\ console[c].curr_param_index \in 0 .. ESC_PARAM_MAX + 1
         /\ console[c].write_state = "SQUARE" => console[c].curr_param_index <= ESC_PARAM_MAX
         /\ DOMAIN console[c].esc_param = 0 .. ESC_PARAM_MAX - 1
         /\ console[c].old_row \in 0 .. ROWS - 1 /\ console[c].old_col \in 0 .. COLS - 1
    /\ DOMAIN disp = DOMAIN Boot
    /\ curr_console_index \in Consoles

\* A console's cursor is in its window, 25 rows ("显存区域行数", console.h:17) of
\* 80 columns: beyond it lies the next console's.
CursorInWindow == \A c \in Consoles :
    console[c].row \in 0 .. ROWS - 1 /\ console[c].col \in 0 .. COLS - 1

Characters == Glyphs \cup {Boot[i] : i \in DOMAIN Boot}

\* The window of console c in a display memory d.
Window(c, d) == [r \in 0 .. ROWS - 1 |-> [k \in 0 .. COLS - 1 |-> d[c * CELLS + r * COLS + k]]]

Windows == [c \in Consoles |-> Window(c, disp)]
Cursors == [c \in Consoles |-> <<console[c].row, console[c].col>>]
SavedCursors == [c \in Consoles |-> <<console[c].old_row, console[c].old_col>>]

\* The consoles are the terminals' screens, each a window of its own.
TheScreens == INSTANCE Screens WITH
    Screen <- Consoles, Text <- Characters \ {Space}, Blank <- Space,
    shown <- curr_console_index,
    window <- Windows, cursor <- Cursors, saved <- SavedCursors

\* Whatever the programs of the terminals write, in whatever order, and whoever
\* looks at them: each window shows what its own program has written.
ScreensSpec == TheScreens!Spec
=============================================================================

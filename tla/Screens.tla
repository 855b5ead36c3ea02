------------------------------ MODULE Screens ------------------------------
(***************************************************************************)
(* What the terminals promise the user: every terminal has a window and a  *)
(* cursor in it, one window is shown, and what happens to one terminal     *)
(* leaves the others alone.                                                *)
(***************************************************************************)
EXTENDS Integers

CONSTANTS Screen, ROWS, COLS, Text, Blank

VARIABLES window,   \* window[c][r][k]: the character in row r, column k
          cursor,   \* <<row, column>>
          saved,    \* the cursor to come back to
          shown     \* the window on the display

vars == <<window, cursor, saved, shown>>

Rows == 0 .. ROWS - 1
Cols == 0 .. COLS - 1
Row(c) == cursor[c][1]
Col(c) == cursor[c][2]
BlankLine == [k \in Cols |-> Blank]
BlankWindow == [r \in Rows |-> BlankLine]

Init ==
    /\ window \in [Screen -> [Rows -> [Cols -> Text \cup {Blank}]]]
    /\ cursor \in [Screen -> Rows \X Cols]
    /\ saved = cursor
    /\ shown \in Screen

Becomes(c, w, at) ==
    /\ window' = [window EXCEPT ![c] = w]
    /\ cursor' = [cursor EXCEPT ![c] = at]
    /\ UNCHANGED <<saved, shown>>

MovesTo(c, at) == Becomes(c, window[c], at)

\* The cursor goes down to column k; at the bottom the text goes up instead.
Down(c, w, k) ==
    IF Row(c) < ROWS - 1 THEN Becomes(c, w, <<Row(c) + 1, k>>)
    ELSE Becomes(c, [r \in Rows |-> IF r < ROWS - 1 THEN w[r + 1] ELSE BlankLine], <<Row(c), k>>)

Write(c, ch) ==
    LET w == [window[c] EXCEPT ![Row(c)][Col(c)] = ch]
    IN  IF Col(c) < COLS - 1 THEN Becomes(c, w, <<Row(c), Col(c) + 1>>) ELSE Down(c, w, 0)

Newline(c) == Down(c, window[c], Col(c))

Before(c) == IF Col(c) > 0 THEN <<Row(c), Col(c) - 1>> ELSE <<Row(c) - 1, COLS - 1>>

Back(c) == cursor[c] # <<0, 0>> /\ MovesTo(c, Before(c))

Delete(c) ==
    /\ cursor[c] # <<0, 0>>
    /\ Becomes(c, [window[c] EXCEPT ![Before(c)[1]][Before(c)[2]] = Blank], Before(c))

GoTo(c) == \E at \in Rows \X Cols : MovesTo(c, at)

Save(c) == saved' = [saved EXCEPT ![c] = cursor[c]] /\ UNCHANGED <<window, cursor, shown>>

Clear(c) == Becomes(c, BlankWindow, <<0, 0>>)

\* Opened for the first time, or again after everybody has closed it.
Blanked(c) ==
    /\ window' = [window EXCEPT ![c] = BlankWindow]
    /\ cursor' = [cursor EXCEPT ![c] = <<0, 0>>]
    /\ saved' = [saved EXCEPT ![c] = <<0, 0>>]

Open(c) == Blanked(c) /\ UNCHANGED shown

\* The first look at a terminal opens it.
Select(c) == shown' = c /\ (Blanked(c) \/ UNCHANGED <<window, cursor, saved>>)

Next == \E c \in Screen :
    \/ \E ch \in Text \cup {Blank} : Write(c, ch)
    \/ Newline(c) \/ Back(c) \/ Delete(c) \/ GoTo(c) \/ Save(c) \/ Clear(c) \/ Open(c) \/ Select(c)

Spec == Init /\ [][Next]_vars
=============================================================================

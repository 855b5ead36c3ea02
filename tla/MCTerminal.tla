----------------------------- MODULE MCTerminal -----------------------------
(***************************************************************************)
(* Two terminals of two rows and three columns: with fewer rows than       *)
(* columns, as 25 and 80.  The keys are one letter, one digit, one arrow,  *)
(* the modifiers, F1, F2, Pause and Esc, which is not in map_table.        *)
(***************************************************************************)
EXTENDS Keyboard

MCBoot == <<"p", "q", "r", "s", "t", "u", "v", "w", "x", "y", "z", "0">>
MCDisp == [i \in 0 .. 11 |-> MCBoot[i + 1]]
MCCursor == {<<1, 1>>}
MCGlyphs == {" ", "a", "D"}
MCMap == [K_A |-> [normal |-> "a", func |-> "A"], K_1 |-> [normal |-> "1", func |-> "!"]]
MCE0 == [RCTRL |-> "CTRL", RALT |-> "ALT", UP |-> "UP"]
MCFx == [F1 |-> 0, F2 |-> 1]

\* The last two leave a sequence half done, as a program does that is killed.
MCMessages == {
    <<"a">>, <<"LF">>, <<"CR", "D">>, <<"BS">>, <<"DEL">>, <<"ESC", "7">>, <<"ESC", "8">>,
    <<"ESC", "[", "2", "D">>, <<"ESC", "[", "C">>, <<"ESC", "[", "2", "J">>,
    <<"ESC", "[", "1", ";", "2", "H">>, <<"ESC", "[", "0", ";", "1", "m">>,
    <<"ESC">>, <<"ESC", "[", "1", ";">>}
=============================================================================

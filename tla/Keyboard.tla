------------------------------ MODULE Keyboard ------------------------------
(***************************************************************************)
(* The keyboard, kernel/dev/kbd.c, and the terminal it selects: the        *)
(* interrupt handler takes the bytes of the keyboard one at a time, from   *)
(* whatever runs, a program's output included.                             *)
(***************************************************************************)
EXTENDS Console

CONSTANTS map_table,  \* the ordinary keys: [normal, func] by key
          E0Keys,     \* the scan code behind an E0, by key
          Fx,         \* the terminal of a function key, F1 to F8
          MaxEvents,  \* bound on KeyCost for a key, TextCost for a text or an open
          KeyCost, TextCost,
          MaxBehind   \* bound on the bytes not yet taken when a key comes

Modifiers == {"LSHIFT", "RSHIFT", "CTRL", "ALT", "CAPS"}
NotInTheMap == Modifiers \cup {"PAUSE", "ESC", "NUM", "E0", "E1"}

ASSUME KeyboardAssumption ==
    /\ \A k \in DOMAIN Fx : Fx[k] \in Consoles
    /\ DOMAIN map_table \cap (DOMAIN E0Keys \cup DOMAIN Fx \cup NotInTheMap) = {}
    /\ DOMAIN E0Keys \cap (DOMAIN Fx \cup NotInTheMap) = {} /\ DOMAIN Fx \cap NotInTheMap = {}
    /\ \A k \in DOMAIN E0Keys :
         /\ E0Keys[k] \notin {"E0", "E1"}
         /\ (E0Keys[k] = "CTRL") <=> (k = "RCTRL")
         /\ (E0Keys[k] = "ALT") <=> (k = "RALT")
    /\ {"RCTRL", "RALT"} \subseteq DOMAIN E0Keys
    /\ {MaxEvents, KeyCost, TextCost} \subseteq Nat /\ MaxBehind \in Nat

VARIABLES kbd_state,    \* the flags
          recv_state,
          cur_tty,
          inputs,       \* what tty_in has been given: terminal and character
          wire,         \* the bytes the keyboard has sent
          held,         \* the keys that are down
          wanted,       \* what the user has asked for: caps, tty, inputs
          events        \* the events left

keyboardVars == <<kbd_state, recv_state, cur_tty, inputs, wire, held, wanted, events>>
vars == <<consoleVars, keyboardVars>>

Flags == {"caps_lock", "lshift_press", "rshift_press", "lctrl_press", "rctrl_press",
          "lalt_press", "ralt_press"}
NUL == "NUL"

KeyboardInit ==
    /\ kbd_state = [f \in Flags |-> FALSE]
    /\ recv_state = "NORMAL"
    /\ cur_tty = 0
    /\ inputs = <<>>
    /\ wire = <<>>
    /\ held = {}
    /\ wanted = [caps |-> FALSE, tty |-> 0, inputs |-> <<>>]
    /\ events = MaxEvents

Init == ConsoleInit /\ KeyboardInit

(***************************************************************************)
(* The keys and their bytes.                                               *)
(***************************************************************************)
Keys == DOMAIN map_table \cup DOMAIN E0Keys \cup DOMAIN Fx \cup Modifiers \cup {"PAUSE", "ESC"}

Byte(key, make) == [key |-> key, make |-> make]
KEY_E0 == Byte("E0", TRUE)
KEY_E1 == Byte("E1", TRUE)

\* The arrows pretend that a shift that is held is up, between E0s.
FakeShift(k, make) ==
    IF E0Keys[k] \in {"CTRL", "ALT"} THEN <<>>
    ELSE IF "LSHIFT" \in held THEN <<KEY_E0, Byte("LSHIFT", make)>>
    ELSE IF "RSHIFT" \in held THEN <<KEY_E0, Byte("RSHIFT", make)>>
    ELSE <<>>

\* Pause sends everything when it goes down: E1 1D 45 E1 9D C5.
PressBytes(k) ==
    CASE k = "PAUSE" -> <<KEY_E1, Byte("CTRL", TRUE), Byte("NUM", TRUE),
                          KEY_E1, Byte("CTRL", FALSE), Byte("NUM", FALSE)>>
      [] k \in DOMAIN E0Keys -> FakeShift(k, FALSE) \o <<KEY_E0, Byte(E0Keys[k], TRUE)>>
      [] OTHER -> <<Byte(k, TRUE)>>

ReleaseBytes(k) ==
    CASE k = "PAUSE" -> <<>>
      [] k \in DOMAIN E0Keys -> <<KEY_E0, Byte(E0Keys[k], FALSE)>> \o FakeShift(k, TRUE)
      [] OTHER -> <<Byte(k, FALSE)>>

(***************************************************************************)
(* The handler.                                                            *)
(***************************************************************************)
Case == [a |-> "A", A |-> "a"]

\* A key without an entry in map_table counts as the character 0.
Char(key, shift, caps) ==
    LET entry == IF key \in DOMAIN map_table THEN map_table[key] ELSE [normal |-> NUL, func |-> NUL]
        c == IF shift THEN entry.func ELSE entry.normal
    IN  IF caps /\ c \in DOMAIN Case THEN Case[c] ELSE c

\* The handler works on the record k of its flags, of recv_state, and of the terminal
\* and what that has been given.
Kbd == [flags |-> kbd_state, recv |-> recv_state, tty |-> cur_tty, inputs |-> inputs]

Sets(k, flag, value) == [k EXCEPT !.flags[flag] = value]
tty_in(k, ch) == [k EXCEPT !.inputs = Append(@, <<k.tty, ch>>)]

\* The console follows in do_handler_kbd.
tty_select(k, tty) == [k EXCEPT !.tty = tty]

\* Whether the key goes down or up.
do_fx_key(k, key) ==
    IF k.flags.lctrl_press \/ k.flags.rctrl_press THEN tty_select(k, Fx[key]) ELSE k

do_normal_key(k, raw_code) ==
    LET key == raw_code.key
        is_make == raw_code.make
        shift == k.flags.rshift_press \/ k.flags.lshift_press
    IN  CASE key = "RSHIFT" -> Sets(k, "rshift_press", is_make)
          [] key = "LSHIFT" -> Sets(k, "lshift_press", is_make)
          [] key = "CAPS"   -> Sets(k, "caps_lock", k.flags.caps_lock # is_make)
          [] key = "ALT"    -> Sets(k, "lalt_press", is_make)
          [] key = "CTRL"   -> Sets(k, "lctrl_press", is_make)
          [] key \in DOMAIN Fx -> do_fx_key(k, key)
          [] OTHER -> IF is_make THEN tty_in(k, Char(key, shift, k.flags.caps_lock)) ELSE k

\* Mutant: what follows an E0 is taken for the ordinary key of that code.
do_e0_key_AsNormal(k, raw_code) == do_normal_key(k, raw_code)

do_e0_key(k, raw_code) ==
    CASE raw_code.key = "CTRL" -> Sets(k, "rctrl_press", raw_code.make)
      [] raw_code.key = "ALT"  -> Sets(k, "ralt_press", raw_code.make)
      [] OTHER -> k

\* k behind one byte.
Handled(k, raw_code) ==
    LET next == [k EXCEPT !.recv = "NORMAL"]
    IN  CASE raw_code = KEY_E0 -> [k EXCEPT !.recv = "BEGIN_E0"]
          [] raw_code = KEY_E1 -> [k EXCEPT !.recv = "BEGIN_E1"]
          [] raw_code \notin {KEY_E0, KEY_E1} /\ k.recv = "NORMAL" -> do_normal_key(k, raw_code)
          [] raw_code \notin {KEY_E0, KEY_E1} /\ k.recv = "BEGIN_E0" -> do_e0_key(next, raw_code)
          [] OTHER -> next

do_handler_kbd ==
    LET k == Handled(Kbd, Head(wire))
    IN  /\ wire # <<>> /\ wire' = Tail(wire)
        /\ kbd_state' = k.flags /\ recv_state' = k.recv
        /\ cur_tty' = k.tty /\ inputs' = k.inputs
        /\ IF k.tty = cur_tty THEN UNCHANGED consoleVars ELSE console_select(k.tty)
        /\ UNCHANGED <<held, wanted, events>>

(***************************************************************************)
(* The user.  Without the habit "release" nothing else is pressed or       *)
(* released while a function key is down.                                  *)
(***************************************************************************)
Takes(n) == events >= n /\ events' = events - n

Sends(bytes) ==
    /\ Len(wire) <= MaxBehind
    /\ wire' = wire \o bytes
    /\ UNCHANGED <<consoleVars, kbd_state, recv_state, cur_tty, inputs>>

Alone(k) == "release" \in Habits \/ held \cap DOMAIN Fx \subseteq {k}

\* What the user means by a key.
Means(k) ==
    CASE k = "CAPS" -> [wanted EXCEPT !.caps = ~@]
      [] k \in DOMAIN Fx -> IF held \cap {"CTRL", "RCTRL"} # {} THEN [wanted EXCEPT !.tty = Fx[k]] ELSE wanted
      [] k \in DOMAIN map_table \cup {"PAUSE", "ESC"} ->
            [wanted EXCEPT !.inputs = Append(@, <<wanted.tty,
                Char(k, held \cap {"LSHIFT", "RSHIFT"} # {}, wanted.caps)>>)]
      [] OTHER -> wanted

Press(k) ==
    /\ k \notin held /\ Alone(k)
    /\ Takes(KeyCost) /\ Sends(PressBytes(k))
    /\ held' = held \cup {k}
    /\ wanted' = Means(k)

\* A key that stays down is sent again.
Repeat(k) ==
    /\ k \in held \ {"CAPS", "PAUSE"}
    /\ Takes(KeyCost) /\ Sends(PressBytes(k))
    /\ wanted' = Means(k)
    /\ UNCHANGED held

Release(k) ==
    /\ k \in held /\ Alone(k)
    /\ Sends(ReleaseBytes(k))
    /\ held' = held \ {k}
    /\ UNCHANGED <<wanted, events>>

Keyboard == (\E k \in Keys : Press(k) \/ Repeat(k) \/ Release(k)) \/ do_handler_kbd

\* The programs.
Output == \E idx \in Consoles :
    \/ console_write(idx) /\ UNCHANGED keyboardVars
    \/ Stops(idx) /\ UNCHANGED keyboardVars
    \/ /\ tty_open(idx) \/ \E m \in Messages : tty_write(idx, m)
       /\ Takes(TextCost)
       /\ UNCHANGED <<kbd_state, recv_state, cur_tty, inputs, wire, held, wanted>>

Quiet == events < TextCost /\ wire = <<>> /\ \A idx \in Consoles : ofifo[idx] = <<>>
Rest == Quiet /\ UNCHANGED vars

Next == Keyboard \/ Output \/ Rest

TermSpec == Init /\ [][Next]_vars

(***************************************************************************)
(* Properties.                                                             *)
(***************************************************************************)
\* The types; the terminal that gets the keys is the one on the display.
TermTypeOK ==
    /\ ConsoleTypeOK
    /\ kbd_state \in [Flags -> BOOLEAN]
    /\ recv_state \in {"NORMAL", "BEGIN_E0", "BEGIN_E1"}
    /\ cur_tty = curr_console_index
    /\ held \subseteq Keys

\* The flags that say that the keys in down are down.
FlagsOf(caps, down) == [f \in Flags |->
    CASE f = "caps_lock"    -> caps
      [] f = "lshift_press" -> "LSHIFT" \in down
      [] f = "rshift_press" -> "RSHIFT" \in down
      [] f = "lctrl_press"  -> "CTRL" \in down
      [] f = "rctrl_press"  -> "RCTRL" \in down
      [] f = "lalt_press"   -> "ALT" \in down
      [] OTHER              -> "RALT" \in down]

\* However keys are pressed together, repeated and prefixed, once the bytes are in
\* the flags are the keys that are down, and every key has reached the terminal the
\* user was looking at, as the character the user meant (Pause as a 0).
KeyboardAgrees ==
    /\ TermTypeOK
    /\ wire = <<>> =>
         /\ recv_state = "NORMAL"
         /\ kbd_state = FlagsOf(wanted.caps, held)
         /\ cur_tty = wanted.tty
         /\ inputs = wanted.inputs
=============================================================================

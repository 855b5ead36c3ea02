-------------------------------- MODULE Klib --------------------------------
(***************************************************************************)
(* The functions on text of kernel/tools/klib.c.  A text is the sequence   *)
(* of its characters in front of the NUL.  Integers are WIDTH bits wide    *)
(* and divide as in C, towards zero.                                       *)
(***************************************************************************)
EXTENDS Integers, SequencesExt

CONSTANT WIDTH

ASSUME KlibAssumption == WIDTH \in Nat \ {0}

NUL == "NUL"

\* The character at s + i - 1.
At(s, i) == IF i <= Len(s) THEN s[i] ELSE NUL

Unsigned(n) == n % 2 ^ WIDTH
Signed(n) == ((n + 2 ^ (WIDTH - 1)) % 2 ^ WIDTH) - 2 ^ (WIDTH - 1)

Quot(n, b) == IF n < 0 THEN -((-n) \div b) ELSE n \div b
Rem(n, b) == n - b * Quot(n, b)

-----------------------------------------------------------------------------
(* kernel_itoa *)

Digits == <<"0", "1", "2", "3", "4", "5", "6", "7", "8", "9",
            "A", "B", "C", "D", "E", "F">>

\* The table has the digits twice, so that a negative remainder finds its own.
num2ch(i) == Digits[(IF i < 0 THEN -i ELSE i) + 1]

\* The do loop: it writes the last digit first.
RECURSIVE LowFirst(_, _)
LowFirst(num, base) ==
    <<num2ch(Rem(num, base))>>
      \o IF Quot(num, base) = 0 THEN <<>> ELSE LowFirst(Quot(num, base), base)

\* Mutant: a negative number is not taken as unsigned in the other bases.
kernel_itoa_Signed(num, base) ==
    IF base \in {2, 8, 10, 16}
    THEN IF num < 0 /\ base = 10
         THEN <<"-">> \o Reverse(LowFirst(num, base))
         ELSE Reverse(LowFirst(num, base))
    ELSE <<>>

kernel_itoa(num, base) ==
    IF base \in {2, 8, 10, 16}
    THEN IF num < 0 /\ base = 10
         THEN <<"-">> \o Reverse(LowFirst(num, base))
         ELSE Reverse(LowFirst(Unsigned(num), base))
    ELSE <<>>

-----------------------------------------------------------------------------
(* kernel_vsprintf *)

\* One turn of the loop, for the character ch of the format; what stands behind
\* a '%' and is no conversion is dropped.
Converted(s, ch) ==
    IF s.state = "NORMAL"
    THEN IF ch = "%" THEN [s EXCEPT !.state = "READ_FMT"]
         ELSE [s EXCEPT !.out = Append(@, ch)]
    ELSE LET arg == Head(s.args) IN
         CASE ch = "d" -> [s EXCEPT !.state = "NORMAL", !.args = Tail(@),
                                    !.out = @ \o kernel_itoa(arg, 10)]
           [] ch = "x" -> [s EXCEPT !.state = "NORMAL", !.args = Tail(@),
                                    !.out = @ \o kernel_itoa(arg, 16)]
           [] ch = "c" -> [s EXCEPT !.state = "NORMAL", !.args = Tail(@),
                                    !.out = Append(@, arg)]
           [] ch = "s" -> [s EXCEPT !.state = "NORMAL", !.args = Tail(@),
                                    !.out = @ \o arg]
           [] OTHER -> [s EXCEPT !.state = "NORMAL"]

\* What is in a zeroed buffer afterwards: no NUL is written behind plain text.
kernel_vsprintf(fmt, args) ==
    FoldLeft(Converted, [state |-> "NORMAL", out |-> <<>>, args |-> args], fmt).out

-----------------------------------------------------------------------------
(* Comparing and copying *)

\* Are the texts equal for kernel_strncmp?  The loop stops at the first place
\* where they end, differ or size is used up; what counts is that place.
kernel_strncmp(s1, s2, size) ==
    LET stop == CHOOSE i \in 0 .. size :
                   /\ \/ i = size
                      \/ NUL \in {At(s1, i + 1), At(s2, i + 1)}
                      \/ At(s1, i + 1) # At(s2, i + 1)
                   /\ \A j \in 1 .. i : At(s1, j) = At(s2, j) /\ At(s1, j) # NUL
    IN  \/ NUL \in {At(s1, stop + 1), At(s2, stop + 1)}
        \/ At(s1, stop + 1) = At(s2, stop + 1)

\* What stands in dest afterwards.  A text that fills the buffer to the last
\* place loses its last character, and a longer one gets its NUL behind the
\* buffer.
kernel_strncpy(src, size) ==
    CASE Len(src) = size - 1 -> Front(src)
      [] Len(src) >= size -> SubSeq(src, 1, size)
      [] OTHER -> src

\* What is behind the last slash or backslash.
get_file_name(name) ==
    LET slashes == {i \in DOMAIN name : name[i] \in {"/", "\\"}}
    IN  SubSeq(name, Max(slashes \cup {0}) + 1, Len(name))

=============================================================================

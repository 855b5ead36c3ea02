-------------------------------- MODULE MCTty -------------------------------
(* One terminal with two tasks and small fifos for TLC. *)
EXTENDS Tty

CONSTANTS t1, t2, none

MCUsers == {t1, t2}
OneUser == {t1}
MCSems == {"osem", "isem"}
MCStart == [s \in MCSems |-> IF s = "osem" THEN OBUF_SIZE ELSE 0]
MCLines == {<<"x">>, <<"y", "nl">>}
LongLine == {<<"y", "nl">>}
MCChars == {"x", "y", "nl", "del"}
MCKeys == {"x", "nl", "del"}
=============================================================================

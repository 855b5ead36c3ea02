----------------------------- MODULE MCFileTable ----------------------------
(* The file table on a small instance for TLC. *)
EXTENDS FileTable, TLC

CONSTANTS t1, t2, t3, m1, m2, bad, none

ThreeTasks == {t1, t2, t3}
MCSymmetry == Permutations({t2, t3}) \cup Permutations({m1, m2})
MCFds == 0 .. 1
MCFiles == 0 .. 2
MCDevIds == 0 .. 1
MCMinors == {m1, m2, bad}
MCBad == {bad}

=============================================================================

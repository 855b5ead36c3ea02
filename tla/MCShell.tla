-------------------------------- MODULE MCShell -----------------------------
(* The first task, two shells and what they run, on a small instance for     *)
(* TLC: with three slots a shell finds the table full while the other one's  *)
(* program runs.                                                             *)
EXTENDS Shell

CONSTANTS first, t1, t2, none, prog, cmd

MCSlots == 1 .. 3
MCTtys == <<t1, t2>>
MCPrograms == {prog}
MCOthers == {cmd}
MCElf == [f \in {prog, cmd} |-> IF f = cmd THEN prog ELSE none]

=============================================================================

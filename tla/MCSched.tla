------------------------------ MODULE MCSched --------------------------------
(* The scheduler and its clock on a small instance for TLC. *)
EXTENDS SleepClock

CONSTANTS t1, t2, t3, idle

MCTasks == {t1, t2, t3}

=============================================================================

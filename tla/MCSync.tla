------------------------------- MODULE MCSync -------------------------------
(* Semaphores and mutexes on small instances for TLC. *)
EXTENDS KernelSync

CONSTANTS t1, t2, t3, idle, none, sem, mtx

MCTasks == {t1, t2, t3}

OneSem == {sem}
OneMutex == {mtx}
MCSemInit == [s \in OneSem |-> 0]

=============================================================================

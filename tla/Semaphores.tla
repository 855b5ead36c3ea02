----------------------------- MODULE Semaphores -----------------------------
(***************************************************************************)
(* What kernel/ipc/sem.c promises: a token is given to the task that has   *)
(* waited longest, or kept when nobody waits.  KernelSync implements it;   *)
(* the drivers' modules build on it instead of the whole scheduler.        *)
(***************************************************************************)
EXTENDS TaskList

CONSTANTS Users,    \* the tasks
          Sems,     \* the semaphores
          Start     \* their initial counts

ASSUME SemAssumption == Start \in [Sems -> Nat]

VARIABLES tokens,   \* sem->count
          waiting   \* sem->wait_list

semVars == <<tokens, waiting>>

SemsInit ==
    /\ tokens = Start
    /\ waiting = [s \in Sems |-> <<>>]

\* Task t is suspended in sem_wait.
Suspended(t) == \E s \in Sems : t \in Nodes(waiting[s])

Take(s, t) ==
    /\ ~Suspended(t)
    /\ tokens[s] > 0
    /\ tokens' = [tokens EXCEPT ![s] = @ - 1]
    /\ UNCHANGED waiting

Queue(s, t) ==
    /\ ~Suspended(t)
    /\ tokens[s] = 0
    /\ waiting' = [waiting EXCEPT ![s] = list_insert_last(@, t)]
    /\ UNCHANGED tokens

\* sem_wait; the caller goes on when it is not, or no longer, suspended.
Wait(s, t) == Take(s, t) \/ Queue(s, t)

\* sem_notify
Post(s) ==
    IF waiting[s] = <<>>
    THEN tokens' = [tokens EXCEPT ![s] = @ + 1] /\ UNCHANGED waiting
    ELSE waiting' = [waiting EXCEPT ![s] = list_remove_first(@)] /\ UNCHANGED tokens

SemsNext == \E s \in Sems : Post(s) \/ \E t \in Users : Wait(s, t)

SemsSpec == SemsInit /\ [][SemsNext]_semVars

=============================================================================

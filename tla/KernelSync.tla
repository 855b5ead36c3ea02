----------------------------- MODULE KernelSync -----------------------------
(***************************************************************************)
(* The counting semaphores of kernel/ipc/sem.c and the recursive mutexes   *)
(* of kernel/core/mutex.c, on top of the scheduler.                        *)
(*                                                                         *)
(* Each of the four operations runs with interrupts off, so it is one      *)
(* action up to the point where it dispatches another task.  A task that   *)
(* blocks is suspended there, and when it runs again the operation is      *)
(* over: both kinds of object hand over directly.  sem_notify makes the    *)
(* first waiter ready instead of counting up, and mutex_unlock makes the   *)
(* first waiter the owner.                                                 *)
(*                                                                         *)
(* Tasks call the operations in any order, as long as they do not ask for  *)
(* more than the bounds allow.  sem_notify is also called by interrupt     *)
(* handlers (the keyboard and the disk), whatever task they interrupt.     *)
(***************************************************************************)
EXTENDS Sched

CONSTANTS Sems,         \* the semaphores
          Mutexes,      \* the mutexes
          SemInit,      \* the init_count each semaphore is given
          MaxCount,     \* bound on a semaphore's count
          MaxDepth,     \* bound on the nesting of mutex_lock
          None          \* no task: mutex->owner = 0

ASSUME SyncAssumption ==
    /\ Sems \cap Mutexes = {}
    /\ MaxCount \in Nat
    /\ SemInit \in [Sems -> 0 .. MaxCount]
    /\ MaxDepth \in Nat \ {0}
    /\ None \notin Tasks \cup {Idle}

VARIABLES count,        \* sem->count
          locked,       \* mutex->locked_count
          owner,        \* mutex->owner
          waitList      \* sem->wait_list, mutex->wait_list

syncVars == <<count, locked, owner, waitList>>

vars == <<schedVars, syncVars>>

Waitables == Sems \cup Mutexes

-----------------------------------------------------------------------------

SyncInit ==
    /\ SchedInit
    /\ count = SemInit
    /\ locked = [m \in Mutexes |-> 0]
    /\ owner = [m \in Mutexes |-> None]
    /\ waitList = [w \in Waitables |-> <<>>]

\* Mutant: the last to come is the first to be served.
wait_on_front(w) ==
    /\ block_current
    /\ waitList' = [waitList EXCEPT ![w] = <<curr>> \o @]

\* The current task queues up behind the other waiters of w and gives up the
\* CPU.
wait_on(w) ==
    /\ block_current
    /\ waitList' = [waitList EXCEPT ![w] = list_insert_last(@, curr)]

\* The first waiter of w becomes ready, and the CPU goes to the first ready
\* task, which is that waiter only if the idle loop was interrupted.
wake_first(w) ==
    /\ unblock(list_first(waitList[w]))
    /\ waitList' = [waitList EXCEPT ![w] = list_remove_first(@)]

sem_wait_takes(s) ==
    /\ TaskRuns
    /\ count[s] > 0
    /\ count' = [count EXCEPT ![s] = @ - 1]
    /\ UNCHANGED <<schedVars, locked, owner, waitList>>

sem_wait_blocks(s) ==
    /\ TaskRuns
    /\ count[s] = 0
    /\ wait_on(s)
    /\ UNCHANGED <<count, locked, owner>>

sem_wait(s) == sem_wait_takes(s) \/ sem_wait_blocks(s)

sem_notify_wakes(s) ==
    /\ Interruptible
    /\ waitList[s] # <<>>
    /\ wake_first(s)
    /\ UNCHANGED <<count, locked, owner>>

sem_notify_counts(s) ==
    /\ Interruptible
    /\ waitList[s] = <<>>
    /\ count[s] < MaxCount
    /\ count' = [count EXCEPT ![s] = @ + 1]
    /\ UNCHANGED <<schedVars, locked, owner, waitList>>

sem_notify(s) == sem_notify_wakes(s) \/ sem_notify_counts(s)

mutex_lock_free(m) ==
    /\ TaskRuns
    /\ locked[m] = 0
    /\ locked' = [locked EXCEPT ![m] = 1]
    /\ owner' = [owner EXCEPT ![m] = curr]
    /\ UNCHANGED <<schedVars, count, waitList>>

mutex_lock_again(m) ==
    /\ TaskRuns
    /\ locked[m] \in 1 .. MaxDepth - 1
    /\ owner[m] = curr
    /\ locked' = [locked EXCEPT ![m] = @ + 1]
    /\ UNCHANGED <<schedVars, count, owner, waitList>>

mutex_lock_blocks(m) ==
    /\ TaskRuns
    /\ locked[m] # 0
    /\ owner[m] # curr
    /\ wait_on(m)
    /\ UNCHANGED <<count, locked, owner>>

mutex_lock(m) == mutex_lock_free(m) \/ mutex_lock_again(m) \/ mutex_lock_blocks(m)

\* Mutant: a task may unlock more often than it has locked.
mutex_unlock_inner_more(m) ==
    /\ TaskRuns
    /\ owner[m] = curr
    /\ locked' = [locked EXCEPT ![m] = @ - 1]
    /\ UNCHANGED <<schedVars, count, owner, waitList>>

\* mutex_unlock by a task that is not the owner does nothing.
mutex_unlock_inner(m) ==
    /\ TaskRuns
    /\ owner[m] = curr
    /\ locked[m] > 1
    /\ locked' = [locked EXCEPT ![m] = @ - 1]
    /\ UNCHANGED <<schedVars, count, owner, waitList>>

mutex_unlock_frees(m) ==
    /\ TaskRuns
    /\ owner[m] = curr
    /\ locked[m] = 1
    /\ waitList[m] = <<>>
    /\ locked' = [locked EXCEPT ![m] = 0]
    /\ owner' = [owner EXCEPT ![m] = None]
    /\ UNCHANGED <<schedVars, count, waitList>>

\* Mutant: the waiter is woken but not made the owner.
mutex_unlock_only_wakes(m) ==
    /\ TaskRuns
    /\ owner[m] = curr
    /\ locked[m] = 1
    /\ waitList[m] # <<>>
    /\ locked' = [locked EXCEPT ![m] = 0]
    /\ owner' = [owner EXCEPT ![m] = None]
    /\ wake_first(m)
    /\ UNCHANGED count

mutex_unlock_hands_over(m) ==
    /\ TaskRuns
    /\ owner[m] = curr
    /\ locked[m] = 1
    /\ waitList[m] # <<>>
    /\ locked' = [locked EXCEPT ![m] = 1]
    /\ owner' = [owner EXCEPT ![m] = list_first(waitList[m])]
    /\ wake_first(m)
    /\ UNCHANGED count

mutex_unlock_last(m) == mutex_unlock_frees(m) \/ mutex_unlock_hands_over(m)

mutex_unlock(m) == mutex_unlock_inner(m) \/ mutex_unlock_last(m)

\* What the tasks and the timer do besides.
SchedStep ==
    /\ \/ \E t \in Tasks : task_start(t)
       \/ sys_yield
       \/ \E ms \in 1 .. MaxSleep : sys_sleep(ms)
       \/ task_time_tick
       \/ walk
    /\ UNCHANGED syncVars

SyncStep ==
    \/ \E s \in Sems : sem_wait(s) \/ sem_notify(s)
    \/ \E m \in Mutexes : mutex_lock(m) \/ mutex_unlock(m)

SyncNext == SchedStep \/ SyncStep

SyncSpec == SyncInit /\ [][SyncNext]_vars

\* The timer and the CPU go on, and a task that holds a mutex unlocks it some
\* time when it has the CPU often enough: every critical section of the kernel
\* ends.
SyncFairness ==
    /\ WF_vars(task_time_tick /\ UNCHANGED syncVars)
    /\ WF_vars(walk /\ UNCHANGED syncVars)
    /\ \A t \in Tasks, m \in Mutexes :
          /\ SF_vars(curr = t /\ mutex_unlock_inner(m))
          /\ SF_vars(curr = t /\ mutex_unlock_last(m))

FairSyncSpec == SyncSpec /\ SyncFairness

-----------------------------------------------------------------------------

SyncTypeOK ==
    /\ SchedTypeOK
    /\ count \in [Sems -> 0 .. MaxCount]
    /\ locked \in [Mutexes -> 0 .. MaxDepth]
    /\ owner \in [Mutexes -> Tasks \cup {None}]
    /\ waitList \in [Waitables -> Seq(Tasks)]

\* No task is lost and none is in two places: a task that has been started and
\* is neither ready nor asleep waits on one semaphore or mutex, once, and only
\* such a task waits there.
EveryTaskHasItsPlace ==
    /\ \A w \in Waitables : Distinct(waitList[w])
    /\ \A t \in Tasks :
          /\ t \in Blocked <=> \E w \in Waitables : t \in Nodes(waitList[w])
          /\ \A v, w \in Waitables :
                t \in Nodes(waitList[v]) /\ t \in Nodes(waitList[w]) => v = w

\* A semaphore does not keep a token while a task waits for one.
NoTokenBesideAWaiter == \A s \in Sems : count[s] > 0 => waitList[s] = <<>>

\* A mutex is locked as often as its owner has locked it, is free when it has
\* none, and nobody waits for a free mutex or for himself.
OwnerHolds ==
    \A m \in Mutexes :
        /\ owner[m] = None <=> locked[m] = 0
        /\ owner[m] = None => waitList[m] = <<>>
        /\ owner[m] \notin Nodes(waitList[m])

\* The users of the mutexes as the lines of FairLocks.
Line == [m \in Mutexes |-> IF owner[m] = None THEN <<>>
                                               ELSE <<owner[m]>> \o waitList[m]]

Fair == INSTANCE FairLocks WITH Users <- Tasks, Locks <- Mutexes, line <- Line

\* The mutexes implement fair locks: mutual exclusion with nesting, and the
\* hand-over in mutex_unlock gives the lock to the task that came first.
MutexesAreFairLocks == Fair!Spec

\* The semaphores promise what Semaphores says: a token is neither lost nor made
\* up, and the task that has waited longest gets it.
Counted == INSTANCE Semaphores
           WITH Users <- Tasks, Start <- SemInit, tokens <- count,
                waiting <- [s \in Sems |-> waitList[s]]

SemaphoresAreQueues == Counted!SemsSpec

\* With semaphores and mutexes the scheduler still does what Sched says.
StillScheduler == SchedSpec

\* The waiter of a mutex becomes its owner, unless the owner of the time waits
\* for a semaphore or another mutex itself.
LockServed ==
    \A m \in Mutexes, t \in Tasks :
        t \in Nodes(waitList[m]) ~>
            \/ owner[m] = t
            \/ \E w \in Waitables \ {m} : owner[m] \in Nodes(waitList[w])

=============================================================================

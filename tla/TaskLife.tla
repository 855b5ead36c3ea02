------------------------------ MODULE TaskLife ------------------------------
(***************************************************************************)
(* The life of a process: sys_fork, sys_exit and sys_wait of               *)
(* kernel/core/task.c on top of the scheduler and of task_table_mutex.     *)
(*                                                                         *)
(* A system call comes through a call gate and leaves interrupts on, so    *)
(* these functions are preempted anywhere except where they hold           *)
(* irq_enter_protection.  They are cut into actions wherever another task  *)
(* can see or change what they read and write: before and after the mutex, *)
(* between the search of the table and the use of the slot, between the    *)
(* scan of the children and the block.                                     *)
(*                                                                         *)
(* A task is a slot of task_table; its address is its pid.  first_task is  *)
(* a task outside the table, which never exits.  A task in user mode may   *)
(* fork, wait, exit or sleep whenever it has the CPU.  What a reaped slot  *)
(* does to the lists if its task was still alive is not modelled: the      *)
(* state where that is about to happen is already an error.                *)
(***************************************************************************)
EXTENDS KernelSync, FiniteSets

CONSTANTS TableMutex,    \* task_table_mutex
          MaxForks,      \* bound: calls of sys_fork
          SlotsClash,    \* a fork may choose a slot another fork has chosen
          LeavesOrphans  \* a task may exit before its children

ASSUME LifeAssumption ==
    /\ TableMutex \in Mutexes
    /\ MaxForks \in Nat
    /\ SlotsClash \in BOOLEAN
    /\ LeavesOrphans \in BOOLEAN

VARIABLES pc,        \* where the task is in its system call
          child,     \* sys_fork: child_task
          moveChild, \* sys_exit: move_child
          used,      \* task->name[0] # 0
          parent,    \* task->parent
          forks      \* calls of sys_fork so far

lifeVars == <<pc, child, moveChild, used, parent, forks>>

allVars == <<vars, lifeVars>>

Slots == Tasks \ {First}

ForkPoints == {"fork_scan", "fork_init", "fork_parent", "fork_start"}
ExitPoints == {"exit_scan", "exit_unlock", "exit_last"}
WaitPoints == {"wait_scan", "wait_return", "wait_release", "wait_block", "wait_again"}
Points == {"free", "new", "user", "dead"} \cup ForkPoints \cup ExitPoints \cup WaitPoints

LifeInit ==
    /\ SyncInit
    /\ pc = [t \in Tasks |-> IF t = First THEN "user" ELSE "free"]
    /\ child = [t \in Tasks |-> None]
    /\ moveChild = [t \in Tasks |-> FALSE]
    /\ used = [t \in Slots |-> FALSE]
    /\ parent = [t \in Tasks |-> None]
    /\ forks = 0

\* The current task executes kernel code at p, and is at q afterwards.
At(p) == TaskRuns /\ pc[curr] = p
Goes(q) == pc' = [pc EXCEPT ![curr] = q]

Children(t) == {c \in Slots : parent[c] = t}

-----------------------------------------------------------------------------
(* sys_fork *)

\* Nothing gives a TSS descriptor back, so the GDT bounds the forks that
\* succeed; here MaxForks bounds them all.
fork_lock ==
    /\ At("user")
    /\ forks < MaxForks
    /\ mutex_lock(TableMutex)
    /\ Goes("fork_scan")
    /\ forks' = forks + 1
    /\ UNCHANGED <<child, moveChild, used, parent>>

\* alloc_task finds a slot without a name (the first one, but slots are alike);
\* the slot does not get one here, so that another fork still takes it for
\* free: the code is the case where SlotsClash is TRUE.
alloc_task(s) ==
    /\ s \in Slots /\ ~used[s]
    /\ SlotsClash \/ \A t \in Tasks : child[t] # s

fork_scan ==
    /\ At("fork_scan")
    /\ \E s \in Slots : alloc_task(s) /\ child' = [child EXCEPT ![curr] = s]
    /\ mutex_unlock(TableMutex)
    /\ Goes("fork_init")
    /\ UNCHANGED <<moveChild, used, parent, forks>>

\* The table is full and sys_fork returns -1.
fork_fails ==
    /\ At("fork_scan")
    /\ \A s \in Slots : used[s]
    /\ mutex_unlock(TableMutex)
    /\ Goes("user")
    /\ UNCHANGED <<child, moveChild, used, parent, forks>>

\* task_init: the slot gets a TSS descriptor, its name and a first state.
fork_init ==
    /\ At("fork_init")
    /\ LET c == child[curr] IN
         /\ used' = [used EXCEPT ![c] = TRUE]
         /\ parent' = [parent EXCEPT ![c] = None]
         /\ state' = [state EXCEPT ![c] = "CREATED"]
         /\ pc' = [pc EXCEPT ![c] = "new", ![curr] = "fork_parent"]
    /\ UNCHANGED <<curr, ready, sleeping, sleepTicks, slice, owing, cursor>>
    /\ UNCHANGED <<syncVars, child, moveChild, forks>>

fork_parent ==
    /\ At("fork_parent")
    /\ parent' = [parent EXCEPT ![child[curr]] = curr]
    /\ Goes("fork_start")
    /\ UNCHANGED <<vars, child, moveChild, used, forks>>

\* The child enters the ready list and will return 0 to user mode.
fork_start ==
    /\ At("fork_start")
    /\ task_start(child[curr])
    /\ pc' = [pc EXCEPT ![child[curr]] = "user", ![curr] = "user"]
    /\ child' = [child EXCEPT ![curr] = None]
    /\ UNCHANGED <<syncVars, moveChild, used, parent, forks>>

sys_fork == fork_lock \/ fork_scan \/ fork_fails \/ fork_init \/ fork_parent \/ fork_start

-----------------------------------------------------------------------------
(* sys_exit.  The files the task has open are closed first (see FileTable). *)

exit_lock ==
    /\ At("user")
    /\ curr # First
    /\ LeavesOrphans \/ \A c \in Children(curr) : pc[c] = "dead"
    /\ mutex_lock(TableMutex)
    /\ Goes("exit_scan")
    /\ UNCHANGED <<child, moveChild, used, parent, forks>>

\* Mutants: the children keep their parent; every task is taken for a child.
exit_scan_keeps ==
    /\ At("exit_scan")
    /\ state' = [t \in AllTasks |-> IF t \in Children(curr) THEN "ZOMBIE" ELSE state[t]]
    /\ moveChild' = [moveChild EXCEPT ![curr] = Children(curr) # {}]
    /\ Goes("exit_unlock")
    /\ UNCHANGED <<curr, ready, sleeping, sleepTicks, slice, owing, cursor>>
    /\ UNCHANGED <<syncVars, child, used, parent, forks>>

\* Line 660 assigns TASK_ZOMBIE to the state of every child; the condition is
\* then true.
exit_scan ==
    /\ At("exit_scan")
    /\ parent' = [t \in Tasks |-> IF t \in Children(curr) THEN First ELSE parent[t]]
    /\ state' = [t \in AllTasks |-> IF t \in Children(curr) THEN "ZOMBIE" ELSE state[t]]
    /\ moveChild' = [moveChild EXCEPT ![curr] = Children(curr) # {}]
    /\ Goes("exit_unlock")
    /\ UNCHANGED <<curr, ready, sleeping, sleepTicks, slice, owing, cursor>>
    /\ UNCHANGED <<syncVars, child, used, forks>>

exit_unlock ==
    /\ At("exit_unlock")
    /\ mutex_unlock(TableMutex)
    /\ Goes("exit_last")
    /\ UNCHANGED <<child, moveChild, used, parent, forks>>

\* Mutant: whoever it is and whatever it does, the parent is made ready.
WakesParent_always == TRUE

\* Who is woken: first_task, for the children it inherits, then the parent.
WakesFirst == moveChild[curr] /\ parent[curr] # First /\ state[First] = "WAITTING"
WakesParent == state[parent[curr]] = "WAITTING"

exit_last ==
    /\ At("exit_last")
    /\ LET q == IF WakesFirst THEN task_set_ready(ready, First) ELSE ready
           st == IF WakesFirst THEN set_ready_state(state, First) ELSE state
           p == parent[curr]
       IN  task_dispatch(
              task_set_block(IF WakesParent THEN task_set_ready(q, p) ELSE q, curr),
              [(IF WakesParent THEN set_ready_state(st, p) ELSE st)
                   EXCEPT ![curr] = "ZOMBIE"])
    /\ Goes("dead")
    /\ moveChild' = [moveChild EXCEPT ![curr] = FALSE]
    /\ UNCHANGED <<sleeping, sleepTicks, slice, owing, cursor>>
    /\ UNCHANGED <<syncVars, child, used, parent, forks>>

sys_exit == exit_lock \/ exit_scan \/ exit_unlock \/ exit_last

-----------------------------------------------------------------------------
(* sys_wait *)

\* A new call, or the next round of the loop after the task was woken.
wait_lock ==
    /\ At("user") \/ At("wait_again")
    /\ mutex_lock(TableMutex)
    /\ Goes("wait_scan")
    /\ UNCHANGED <<child, moveChild, used, parent, forks>>

\* Mutant: any child will do.
Reapable_any(c) == c \in Children(curr)

Reapable(c) == c \in Children(curr) /\ state[c] = "ZOMBIE"

\* A zombie among the children is taken out of the table.  The loop takes the
\* first it finds; a child in a slot it has passed may have exited since, so
\* any of them can be the one.  The GDT keeps the descriptor.
wait_reap ==
    /\ At("wait_scan")
    /\ \E c \in Slots :
         /\ Reapable(c)
         /\ used' = [used EXCEPT ![c] = FALSE]
         /\ parent' = [parent EXCEPT ![c] = None]
         /\ state' = [state EXCEPT ![c] = "CREATED"]
         /\ pc' = [pc EXCEPT ![c] = "free", ![curr] = "wait_return"]
    /\ UNCHANGED <<curr, ready, sleeping, sleepTicks, slice, owing, cursor>>
    /\ UNCHANGED <<syncVars, child, moveChild, forks>>

wait_none ==
    /\ At("wait_scan")
    /\ \A c \in Slots : ~Reapable(c)
    /\ Goes("wait_release")
    /\ UNCHANGED <<vars, child, moveChild, used, parent, forks>>

wait_return ==
    /\ At("wait_return")
    /\ mutex_unlock(TableMutex)
    /\ Goes("user")
    /\ UNCHANGED <<child, moveChild, used, parent, forks>>

wait_release ==
    /\ At("wait_release")
    /\ mutex_unlock(TableMutex)
    /\ Goes("wait_block")
    /\ UNCHANGED <<child, moveChild, used, parent, forks>>

\* The task blocks although a child may have exited after the scan.
wait_block ==
    /\ At("wait_block")
    /\ task_dispatch(task_set_block(ready, curr), [state EXCEPT ![curr] = "WAITTING"])
    /\ Goes("wait_again")
    /\ UNCHANGED <<sleeping, sleepTicks, slice, owing, cursor>>
    /\ UNCHANGED <<syncVars, child, moveChild, used, parent, forks>>

sys_wait == wait_lock \/ wait_reap \/ wait_none \/ wait_return \/ wait_release \/ wait_block

-----------------------------------------------------------------------------

user_sleep ==
    /\ At("user")
    /\ \E ms \in 1 .. MaxSleep : sys_sleep(ms)
    /\ UNCHANGED <<syncVars, lifeVars>>

timer == (task_time_tick \/ walk) /\ UNCHANGED <<syncVars, lifeVars>>

LifeNext == sys_fork \/ sys_exit \/ sys_wait \/ user_sleep \/ timer

LifeSpec == LifeInit /\ [][LifeNext]_allVars

-----------------------------------------------------------------------------

LifeTypeOK ==
    /\ SyncTypeOK
    /\ pc \in [Tasks -> Points]
    /\ child \in [Tasks -> Slots \cup {None}]
    /\ moveChild \in [Tasks -> BOOLEAN]
    /\ used \in [Slots -> BOOLEAN]
    /\ parent \in [Tasks -> Tasks \cup {None}]
    /\ forks \in 0 .. MaxForks

\* The tasks that have been started and have not exited.
Live == {t \in Tasks : pc[t] \notin {"free", "new", "dead"}}

Waiting == {t \in Live : state[t] = "WAITTING"}

\* A live task is in exactly one place: in the ready list, asleep, in the
\* queue of the mutex, or waiting for a child; a task that has exited is in
\* none.  In particular a parent woken by two children that exit one after
\* the other is put into the ready list once.
LiveTasksHaveAPlace ==
    /\ LifeTypeOK
    /\ OnePlace
    /\ Distinct(waitList[TableMutex])
    /\ \A t \in Tasks :
         /\ t \in Live <=> \/ t \in Nodes(ready) \cup Nodes(sleeping)
                           \/ t \in Nodes(waitList[TableMutex])
                           \/ t \in Waiting
         /\ t \in Waiting => t \notin Nodes(ready) \cup Nodes(sleeping)
         /\ t \in Nodes(waitList[TableMutex]) =>
              t \notin Nodes(ready) \cup Nodes(sleeping) \cup Waiting

\* A zombie has exited: the waiter that finds it frees its page table, its
\* stack and its slot.  Line 660 breaks it for the children of a task that
\* exits before them.
ZombieHasExited == \A t \in Slots : state[t] = "ZOMBIE" => pc[t] = "dead"

\* The parent of a task is a live task, so that somebody can wait for it:
\* it is never left with the address of a slot that is free or has a new
\* occupant.
ParentIsLive ==
    \A t \in Slots : pc[t] = "dead" \/ t \in Live => parent[t] \in Live

\* The family: every task that has exited or is running has somebody who can
\* wait for it, and every zombie can be freed.
FamilyIsSound == ZombieHasExited /\ ParentIsLive

\* A slot that sys_fork has chosen belongs to it alone until its task runs.
\* The slot is marked as taken in task_init only, after the mutex is free again.
SlotTakenOnce ==
    \A t, u \in Tasks :
        /\ child[t] # None /\ child[t] = child[u] => t = u
        /\ pc[t] = "fork_init" => ~used[child[t]]

\* wait only removes a task that has exited, and the one who removes it is its
\* parent.
ReapedByParent ==
    [][\A t \in Slots :
         used[t] /\ ~used'[t] => pc[t] = "dead" /\ parent[t] = curr]_allVars

\* Nobody waits for a child while one of his children has already exited:
\* the exit wakes the waiting parent.  The code lets the child exit between
\* the scan and the block, and the wakeup is lost.
NobodyWaitsBesideAZombie ==
    \A t \in Waiting : \A c \in Children(t) : pc[c] # "dead"

=============================================================================

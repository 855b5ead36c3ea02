------------------------------- MODULE Sched --------------------------------
(***************************************************************************)
(* The scheduler of kernel/core/task.c, driven by the timer interrupt of   *)
(* kernel/dev/time.c.                                                      *)
(*                                                                         *)
(* There is one CPU.  Every function below runs between                    *)
(* irq_enter_protection and irq_leave_protection, or in an interrupt gate, *)
(* that is with interrupts off, so it is one action.  There is one         *)
(* exception: task_time_tick may call task_dispatch in its middle (line    *)
(* 317), which switches to another task.  The rest of the handler, the     *)
(* walk over the sleep list, is then executed by the preempted task when   *)
(* it is dispatched again, still with interrupts off.  "owing" holds the   *)
(* tasks that are inside task_time_tick with the walk not finished; while  *)
(* the current task owes a walk only the walk can proceed.                 *)
(*                                                                         *)
(* A task that is not the current one is suspended inside task_switch.     *)
(***************************************************************************)
EXTENDS TaskList

CONSTANTS Tasks,        \* the tasks of the system, the idle task excluded
          Idle,         \* task_manager.idle_task
          First,        \* task_manager.first_task
          TIME_SLICE,   \* TASK_TIME_SLICE_DEFAULT
          OS_TICKS_MS,  \* milliseconds between two timer interrupts
          MaxSleep      \* bound on the milliseconds of one sleep

ASSUME SchedAssumption ==
    /\ Idle \notin Tasks
    /\ First \in Tasks
    /\ TIME_SLICE \in Nat \ {0}
    /\ OS_TICKS_MS \in Nat \ {0}
    /\ MaxSleep \in Nat \ {0}

VARIABLES curr,         \* task_manager.curr_task
          ready,        \* task_manager.ready_list
          sleeping,     \* task_manager.sleep_list
          sleepTicks,   \* task->sleep_ticks
          slice,        \* task->slice_ticks
          state,        \* task->state
          owing,        \* tasks inside task_time_tick, walk not finished
          cursor        \* position of the walk in the sleep list

schedVars == <<curr, ready, sleeping, sleepTicks, slice, state, owing, cursor>>

AllTasks == Tasks \cup {Idle}

TaskState == {"CREATED", "RUNNING", "SLEEP", "READY", "WAITTING", "ZOMBIE"}

-----------------------------------------------------------------------------
(* The list operations on the scheduler's lists: each takes the list or    *)
(* the states as they are when it is called and gives them as it leaves    *)
(* them, so that a function of the code is a composition of them.          *)

\* Mutants: the woken task jumps the queue; the idle task is queued as well.
task_set_ready_front(q, t) == IF t = Idle THEN q ELSE <<t>> \o q
task_set_ready_any(q, t) == list_insert_last(q, t)

\* task_set_ready, its two effects.  The idle task is on no list.
task_set_ready(q, t) == IF t = Idle THEN q ELSE list_insert_last(q, t)
set_ready_state(st, t) == IF t = Idle THEN st ELSE [st EXCEPT ![t] = "READY"]

\* Mutant: the task stays on the list.
task_set_block_not(q, t) == q

task_set_block(q, t) == IF t = Idle THEN q ELSE list_remove(q, t)

task_next_run(q) == IF q = <<>> THEN Idle ELSE list_first(q)

\* The switch to the next task, at the end of an action that leaves the
\* ready list as q and the states as st.
task_dispatch(q, st) ==
    /\ ready' = q
    /\ curr' = task_next_run(q)
    /\ state' = IF task_next_run(q) = curr
                THEN st
                ELSE [st EXCEPT ![task_next_run(q)] = "RUNNING"]

\* The CPU executes the current task with interrupts on: the task may call
\* the kernel, and an interrupt may be taken.
Interruptible == curr \notin owing

\* A task, not the idle loop, executes and may make a system call.
TaskRuns == curr \in Tasks /\ Interruptible

-----------------------------------------------------------------------------

\* task_first_init has started the first task and made it the current one.
SchedInit ==
    /\ curr = First
    /\ ready = <<First>>
    /\ sleeping = <<>>
    /\ sleepTicks = [t \in AllTasks |-> 0]
    /\ slice = [t \in AllTasks |-> TIME_SLICE]
    /\ state = [t \in AllTasks |-> IF t = First THEN "READY" ELSE "CREATED"]
    /\ owing = {}
    /\ cursor = 1

\* The current task starts a task it has created (the end of sys_fork).
task_start(t) ==
    /\ TaskRuns
    /\ t \in Tasks
    /\ state[t] = "CREATED"
    /\ ready' = task_set_ready(ready, t)
    /\ state' = set_ready_state(state, t)
    /\ UNCHANGED <<curr, sleeping, sleepTicks, slice, owing, cursor>>

sys_yield ==
    /\ TaskRuns
    /\ Len(ready) > 1
    /\ task_dispatch(task_set_ready(task_set_block(ready, curr), curr),
                     set_ready_state(state, curr))
    /\ UNCHANGED <<sleeping, sleepTicks, slice, owing, cursor>>

\* Mutant: rounded down.
sleep_ticks_down(ms) == ms \div OS_TICKS_MS

\* The sleep in ticks, rounded up.
sleep_ticks_of(ms) == (ms + (OS_TICKS_MS - 1)) \div OS_TICKS_MS

\* task_set_sleep returns at once when the sleep is zero ticks long, and the
\* task is then on no list at all.  msleep of the application library makes no
\* system call for ms <= 0, so ms starts at 1.
sys_sleep(ms) ==
    /\ TaskRuns
    /\ IF sleep_ticks_of(ms) = 0
       THEN /\ task_dispatch(task_set_block(ready, curr), state)
            /\ UNCHANGED <<sleeping, sleepTicks>>
       ELSE /\ sleepTicks' = [sleepTicks EXCEPT ![curr] = sleep_ticks_of(ms)]
            /\ sleeping' = list_insert_last(sleeping, curr)
            /\ task_dispatch(task_set_block(ready, curr),
                             [state EXCEPT ![curr] = "SLEEP"])
    /\ UNCHANGED <<slice, owing, cursor>>

\* A task started earlier that is on neither list waits for something outside
\* the scheduler: a semaphore, a mutex, a child.
Blocked == {t \in Tasks : state[t] # "CREATED"} \ (Nodes(ready) \cup Nodes(sleeping))

\* How sem_wait and mutex_lock give up the CPU: task_set_block of the current
\* task and task_dispatch.  The state of the task is left as it is.
block_current ==
    /\ TaskRuns
    /\ task_dispatch(task_set_block(ready, curr), state)
    /\ UNCHANGED <<sleeping, sleepTicks, slice, owing, cursor>>

\* How sem_notify and mutex_unlock hand it to a waiting task: task_set_ready
\* and task_dispatch.  sem_notify is also called by interrupt handlers, so any
\* task, and the idle loop, may be the current one.
unblock(t) ==
    /\ Interruptible
    /\ t \in Blocked
    /\ task_dispatch(task_set_ready(ready, t), set_ready_state(state, t))
    /\ UNCHANGED <<sleeping, sleepTicks, slice, owing, cursor>>

\* The timer interrupt, up to the walk over the sleep list: the slice of the
\* current task goes on ...
tick_in_slice ==
    /\ Interruptible
    /\ slice[curr] # 1
    /\ slice' = [slice EXCEPT ![curr] = @ - 1]
    /\ owing' = owing \cup {curr}
    /\ UNCHANGED <<curr, ready, sleeping, sleepTicks, state, cursor>>

\* ... or it is used up: the task goes to the end of the ready list, and if
\* another task is first there the walk is left for later.
tick_slice_over ==
    /\ Interruptible
    /\ slice[curr] = 1
    /\ slice' = [slice EXCEPT ![curr] = TIME_SLICE]
    /\ owing' = owing \cup {curr}
    /\ task_dispatch(task_set_ready(task_set_block(ready, curr), curr),
                     set_ready_state(state, curr))
    /\ UNCHANGED <<sleeping, sleepTicks, cursor>>

task_time_tick == tick_in_slice \/ tick_slice_over

Walking == curr \in owing /\ cursor <= Len(sleeping)

\* Mutant: the count is not decremented.
walk_pass_forgets ==
    /\ Walking
    /\ sleepTicks[sleeping[cursor]] # 1
    /\ cursor' = cursor + 1
    /\ UNCHANGED <<curr, ready, sleeping, sleepTicks, slice, state, owing>>

\* One round of the loop over the sleep list: the task at the cursor sleeps on,
walk_pass ==
    /\ Walking
    /\ sleepTicks[sleeping[cursor]] # 1
    /\ sleepTicks' = [sleepTicks EXCEPT ![sleeping[cursor]] = @ - 1]
    /\ cursor' = cursor + 1
    /\ UNCHANGED <<curr, ready, sleeping, slice, state, owing>>

\* Mutant: the next node is read after list_remove has cleared the link to it,
\* so the loop ends.
walk_wake_ends ==
    /\ Walking
    /\ sleepTicks[sleeping[cursor]] = 1
    /\ sleepTicks' = [sleepTicks EXCEPT ![sleeping[cursor]] = 0]
    /\ sleeping' = list_remove(sleeping, sleeping[cursor])
    /\ ready' = task_set_ready(ready, sleeping[cursor])
    /\ state' = set_ready_state(state, sleeping[cursor])
    /\ cursor' = Len(sleeping)
    /\ UNCHANGED <<curr, slice, owing>>

\* or its time is up and it is moved to the ready list (task_set_wakeup).
walk_wake ==
    /\ Walking
    /\ sleepTicks[sleeping[cursor]] = 1
    /\ sleepTicks' = [sleepTicks EXCEPT ![sleeping[cursor]] = 0]
    /\ sleeping' = list_remove(sleeping, sleeping[cursor])
    /\ ready' = task_set_ready(ready, sleeping[cursor])
    /\ state' = set_ready_state(state, sleeping[cursor])
    /\ UNCHANGED <<curr, slice, owing, cursor>>

\* The walk is over: the last dispatch, and the handler returns.
walk_end ==
    /\ curr \in owing
    /\ cursor > Len(sleeping)
    /\ owing' = owing \ {curr}
    /\ cursor' = 1
    /\ task_dispatch(ready, state)
    /\ UNCHANGED <<sleeping, sleepTicks, slice>>

walk == walk_pass \/ walk_wake \/ walk_end

SchedNext ==
    \/ \E t \in Tasks : task_start(t)
    \/ sys_yield
    \/ \E ms \in 1 .. MaxSleep : sys_sleep(ms)
    \/ block_current
    \/ \E t \in Tasks : unblock(t)
    \/ task_time_tick
    \/ walk

\* The timer interrupts for ever, and the CPU executes the handler.
SchedFairness == WF_schedVars(task_time_tick) /\ WF_schedVars(walk)

SchedSpec == SchedInit /\ [][SchedNext]_schedVars

FairSchedSpec == SchedSpec /\ SchedFairness

-----------------------------------------------------------------------------

SchedTypeOK ==
    /\ curr \in AllTasks
    /\ ready \in Seq(Tasks)
    /\ sleeping \in Seq(Tasks)
    /\ sleepTicks \in [AllTasks -> Nat]
    /\ slice \in [AllTasks -> 1 .. TIME_SLICE]
    /\ state \in [AllTasks -> TaskState]
    /\ owing \subseteq AllTasks
    /\ cursor \in Nat \ {0}

\* task_dispatch, task_set_block(curr) and task_time_tick all take for granted
\* that the task on the CPU is the first of the ready list, or the idle task
\* when the list is empty.  The one exception the code allows is the idle task
\* inside the timer handler: the walk has filled the list and the dispatch at
\* the end of the handler has not been reached yet.
CurrIsHead ==
    \/ curr = task_next_run(ready)
    \/ curr = Idle /\ Idle \in owing

\* A task has one run_node, which cannot link it into the ready list and the
\* sleep list at the same time, nor twice into one of them; and only tasks that
\* have been started are there.
OnePlace ==
    /\ Distinct(ready)
    /\ Distinct(sleeping)
    /\ Nodes(ready) \cap Nodes(sleeping) = {}
    /\ \A t \in Nodes(ready) \cup Nodes(sleeping) : state[t] # "CREATED"

\* The loop tests --sleep_ticks == 0, so a sleeping task whose count has
\* reached zero would sleep on for 2^32 ticks.
SleepersCount == \A t \in Nodes(sleeping) : sleepTicks[t] > 0

\* A task suspended inside the timer handler has been preempted there and
\* waits in the ready list: it is never blocked with the handler unfinished,
\* and the idle loop finishes the handler before another task runs.
OwingIsReady == \A t \in owing : t \in Nodes(ready) \/ (t = Idle /\ curr = Idle)

\* The lists, the counts and the CPU agree, through interrupts that dispatch in
\* their middle.
QueuesAgree == CurrIsHead /\ OnePlace /\ SleepersCount /\ OwingIsReady

\* Only the current task is ever taken off the ready list, and no step makes a
\* waiting task lose ground to the others: sleepers that wake and tasks that
\* are started queue up behind it.
NoOvertaking ==
    [][\A t \in Nodes(ready) \ {curr} :
          /\ t \in Nodes(ready')
          /\ Place(ready', t) <= Place(ready, t)]_schedVars

\* No ready task starves: the slices of the tasks before it run out.
ReadyRuns == \A t \in Tasks : t \in Nodes(ready) ~> curr = t

\* Every sleeping task becomes ready again, the walks that preempted tasks owe
\* notwithstanding.
SleepersWake == \A t \in Tasks : t \in Nodes(sleeping) ~> t \in Nodes(ready)

=============================================================================

----------------------------- MODULE SleepClock -----------------------------
(***************************************************************************)
(* How long sys_sleep really sleeps.  The scheduler with history variables *)
(* that count timer interrupts: they observe the actions of Sched and      *)
(* constrain none of them.                                                 *)
(*                                                                         *)
(* task->sleep_ticks is decremented by the walks over the sleep list, and  *)
(* a task preempted in the timer handler makes its walk only when it runs  *)
(* again.  So a task may go to sleep while walks of past ticks are still   *)
(* owed, and wakes that much too early; and walks owed at present make it  *)
(* late.                                                                   *)
(***************************************************************************)
EXTENDS Sched, FiniteSets

\* The task table has a size.
ASSUME ClockAssumption == IsFiniteSet(Tasks)

VARIABLES asked,    \* ticks the task asked for in its last sys_sleep
          heard,    \* timer interrupts since it went to sleep
          owedThen, \* walks that were owed when it went to sleep
          waited    \* timer interrupts since it was last made ready or run

clockVars == <<asked, heard, owedThen, waited>>

\* Bounds on the counters, above anything the code lets them reach: a task that
\* is never woken, or never run, leaves the state space finite.
MaxHeard == sleep_ticks_of(MaxSleep) + Cardinality(AllTasks) + 1
MaxWaited == Cardinality(Tasks) * TIME_SLICE

OneMore(n, bound) == IF n < bound THEN n + 1 ELSE n

ClockInit ==
    /\ SchedInit
    /\ asked = [t \in Tasks |-> 0]
    /\ heard = [t \in Tasks |-> 0]
    /\ owedThen = [t \in Tasks |-> 0]
    /\ waited = [t \in Tasks |-> 0]

Sleep(ms) ==
    /\ sys_sleep(ms)
    /\ asked' = [asked EXCEPT ![curr] = sleep_ticks_of(ms)]
    /\ heard' = [heard EXCEPT ![curr] = 0]
    /\ owedThen' = [owedThen EXCEPT ![curr] = Cardinality(owing)]

Tick ==
    /\ task_time_tick
    /\ heard' = [t \in Tasks |->
                    IF t \in Nodes(sleeping) THEN OneMore(heard[t], MaxHeard)
                                             ELSE heard[t]]
    /\ UNCHANGED <<asked, owedThen>>

\* The counts of a task that wakes are forgotten.
Wake ==
    /\ walk_wake
    /\ asked' = [asked EXCEPT ![sleeping[cursor]] = 0]
    /\ heard' = [heard EXCEPT ![sleeping[cursor]] = 0]
    /\ owedThen' = [owedThen EXCEPT ![sleeping[cursor]] = 0]

Other ==
    /\ \/ \E t \in Tasks : task_start(t) \/ unblock(t)
       \/ sys_yield \/ block_current \/ walk_pass \/ walk_end
    /\ UNCHANGED <<asked, heard, owedThen>>

\* The task at the CPU, and one that is not in the ready list, wait for nothing.
CountWaiting ==
    waited' = [t \in Tasks |->
                 IF t \in Nodes(ready') /\ t \in Nodes(ready) /\ curr # t /\ curr' # t
                 THEN IF task_time_tick THEN OneMore(waited[t], MaxWaited) ELSE waited[t]
                 ELSE 0]

ClockNext ==
    /\ (\E ms \in 1 .. MaxSleep : Sleep(ms)) \/ Tick \/ Wake \/ Other
    /\ CountWaiting

ClockSpec == ClockInit /\ [][ClockNext]_<<schedVars, clockVars>>

FairClockSpec == ClockSpec /\ SchedFairness

-----------------------------------------------------------------------------

\* The walk that is under way has already passed the task.
WalkedPast(t) == curr \in owing /\ Place(sleeping, t) < cursor

\* No tick is lost and none is counted twice: the walks made over a sleeping
\* task are the timer interrupts since it went to sleep, plus the walks owed
\* then, less the walks owed now.  (task_time_tick, the dispatch of line 317
\* and the loop after it.)
TicksConserved ==
    \A t \in Nodes(sleeping) :
        asked[t] - sleepTicks[t] =
            heard[t] + owedThen[t] - Cardinality(owing)
              + (IF WalkedPast(t) THEN 1 ELSE 0)

\* A ready task reaches the CPU before every other task has used a full slice.
WaitIsBounded ==
    \A t \in Tasks : waited[t] <= (Cardinality(Tasks) - 1) * TIME_SLICE

=============================================================================

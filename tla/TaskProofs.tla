----------------------------- MODULE TaskProofs -----------------------------
(***************************************************************************)
(* The safety of the tasks, for any number of them and any slice: of the   *)
(* scheduler (Sched), the length of sleeps and waits (SleepClock),         *)
(* semaphores and mutexes (KernelSync), and the processes that fork, exit  *)
(* and wait on top of them (TaskLife).                                     *)
(*                                                                         *)
(* The invariants of the scheduler are inductive together with the type    *)
(* invariant: none of them is inductive alone, because task_set_block only *)
(* does what it is meant to do when the current task is on the ready list, *)
(* and only CurrIsHead says it is.                                         *)
(***************************************************************************)
EXTENDS SleepClock, TaskLife, ListTheorems, FiniteSetTheorems, Integers

SchedInv ==
    /\ SchedTypeOK
    /\ CurrIsHead
    /\ OnePlace
    /\ SleepersCount
    /\ OwingIsReady

-----------------------------------------------------------------------------

(* A task that runs with interrupts on, the idle loop excepted, is the first *)
(* of the ready list.                                                        *)
LEMMA CurrOnReadyList ==
    ASSUME SchedInv, Interruptible, curr # Idle
    PROVE  /\ curr \in Tasks
           /\ curr \in Nodes(ready)
           /\ ready # <<>>
           /\ curr = ready[1]
           /\ Place(ready, curr) = 1
<1>1. curr = task_next_run(ready)
    BY DEF SchedInv, CurrIsHead, Interruptible
<1>2. ready # <<>> /\ curr = list_first(ready)
    BY <1>1 DEF task_next_run
<1>3. ready \in Seq(Tasks) /\ Distinct(ready)
    BY DEF SchedInv, SchedTypeOK, OnePlace
<1>4. curr \in Nodes(ready) /\ Place(ready, curr) = 1
    BY <1>2, <1>3, RemoveFirst
<1>5. curr \in Tasks
    BY <1>3, <1>4, NodesOfSeq
<1>. QED
    BY <1>2, <1>4, <1>5 DEF list_first

(* While the idle loop runs with interrupts on, the ready list is empty. *)
LEMMA IdleMeansNobodyReady ==
    ASSUME SchedInv, Interruptible, curr = Idle
    PROVE  ready = <<>>
<1>1. Idle = task_next_run(ready)
    BY DEF SchedInv, CurrIsHead, Interruptible
<1>2. ready \in Seq(Tasks) /\ Distinct(ready)
    BY DEF SchedInv, SchedTypeOK, OnePlace
<1>3. ASSUME ready # <<>> PROVE FALSE
    <2>1. list_first(ready) \in Nodes(ready)
        BY <1>2, <1>3, RemoveFirst
    <2>2. list_first(ready) \in Tasks
        BY <1>2, <2>1, NodesOfSeq
    <2>. QED
        BY <1>1, <1>3, <2>2, SchedAssumption DEF task_next_run
<1>. QED
    BY <1>3

(* The switch at the end of an action. *)
LEMMA Dispatch ==
    ASSUME NEW q \in Seq(Tasks), NEW st \in [AllTasks -> TaskState],
           task_dispatch(q, st)
    PROVE  /\ ready' = q
           /\ curr' = task_next_run(q)
           /\ curr' \in AllTasks
           /\ q # <<>> => curr' = q[1]
           /\ q = <<>> => curr' = Idle
           /\ state' \in [AllTasks -> TaskState]
           /\ \A t \in Tasks : st[t] # "CREATED" => state'[t] # "CREATED"
<1>1. q # <<>> => task_next_run(q) = q[1] /\ q[1] \in Tasks
    BY DEF task_next_run, list_first
<1>2. task_next_run(q) \in AllTasks
    BY <1>1 DEF task_next_run, AllTasks
<1>3. "RUNNING" \in TaskState
    BY DEF TaskState
<1>. QED
    BY <1>1, <1>2, <1>3 DEF task_dispatch, task_next_run

(* Moving the current task to the end of the ready list, as sys_yield and *)
(* the end of a slice do.                                                 *)
LEMMA Rotate ==
    ASSUME SchedInv, Interruptible
    PROVE  LET q == task_set_ready(task_set_block(ready, curr), curr)
           IN  /\ q \in Seq(Tasks)
               /\ Distinct(q)
               /\ Nodes(q) = Nodes(ready)
               /\ \A t \in Nodes(ready) \ {curr} : Place(q, t) <= Place(ready, t)
               /\ curr # Idle => q # <<>>
               /\ curr = Idle => q = <<>>
<1>. DEFINE b == list_remove(ready, curr)
            q == list_insert_last(b, curr)
<1>1. ready \in Seq(Tasks) /\ Distinct(ready)
    BY DEF SchedInv, SchedTypeOK, OnePlace
<1>2. CASE curr = Idle
    <2>1. ready = <<>> /\ Nodes(ready) = {}
        BY <1>1, <1>2, IdleMeansNobodyReady, NodesOfSeq
    <2>2. task_set_ready(task_set_block(ready, curr), curr) = ready
        BY <1>2 DEF task_set_ready, task_set_block
    <2>. QED
        BY <1>1, <1>2, <2>1, <2>2
<1>3. CASE curr # Idle
    <2>1. curr \in Tasks /\ curr \in Nodes(ready)
        BY <1>3, CurrOnReadyList
    <2>2. /\ b \in Seq(Tasks) /\ Distinct(b)
          /\ Nodes(b) = Nodes(ready) \ {curr}
        BY <1>1, <2>1, RemoveNode
    <2>3. \A t \in Nodes(ready) \ {curr} : Place(b, t) <= Place(ready, t)
        BY <1>1, <2>1, RemoveKeepsOrder
    <2>. HIDE DEF b
    <2>4. /\ q \in Seq(Tasks) /\ Distinct(q)
          /\ Nodes(q) = Nodes(ready)
        <3>1. b \in Seq(Tasks) /\ curr \in Tasks /\ curr \notin Nodes(b)
            BY <2>1, <2>2
        <3>2. q \in Seq(Tasks) /\ Nodes(q) = Nodes(b) \cup {curr}
            BY <3>1, InsertLast
        <3>3. Distinct(q)
            BY <2>1, <2>2, <3>1, InsertLastDistinct
        <3>. QED
            BY <2>1, <2>2, <3>2, <3>3
    <2>5. \A t \in Nodes(b) : Place(q, t) = Place(b, t)
        BY <2>1, <2>2, InsertKeepsPlace
    <2>6. q # <<>>
        BY <2>1, <2>4, NodesOfSeq
    <2>7. q = task_set_ready(task_set_block(ready, curr), curr)
        BY <1>3 DEF b, task_set_ready, task_set_block
    <2>. QED
        BY <1>3, <2>2, <2>3, <2>4, <2>5, <2>6, <2>7
<1>. QED
    BY <1>2, <1>3

(* Taking the current task off the ready list. *)
LEMMA BlockCurrent ==
    ASSUME SchedInv, TaskRuns
    PROVE  LET q == task_set_block(ready, curr)
           IN  /\ curr \in Tasks /\ curr \in Nodes(ready)
               /\ q \in Seq(Tasks)
               /\ Distinct(q)
               /\ Nodes(q) = Nodes(ready) \ {curr}
               /\ \A t \in Nodes(ready) \ {curr} : Place(q, t) <= Place(ready, t)
<1>1. ready \in Seq(Tasks) /\ Distinct(ready)
    BY DEF SchedInv, SchedTypeOK, OnePlace
<1>2. curr # Idle /\ Interruptible
    BY SchedAssumption DEF TaskRuns
<1>3. curr \in Tasks /\ curr \in Nodes(ready)
    BY <1>2, CurrOnReadyList
<1>4. task_set_block(ready, curr) = list_remove(ready, curr)
    BY <1>2 DEF task_set_block
<1>. QED
    BY <1>1, <1>3, <1>4, RemoveNode, RemoveKeepsOrder

(* Adding a task that is on neither list to the ready list. *)
LEMMA MakeReady ==
    ASSUME SchedInv, NEW t \in Tasks, t \notin Nodes(ready)
    PROVE  LET q == task_set_ready(ready, t)
           IN  /\ q \in Seq(Tasks)
               /\ Distinct(q)
               /\ Nodes(q) = Nodes(ready) \cup {t}
               /\ \A x \in Nodes(ready) : Place(q, x) = Place(ready, x)
               /\ q # <<>>
               /\ ready # <<>> => q[1] = ready[1]
<1>1. ready \in Seq(Tasks) /\ Distinct(ready)
    BY DEF SchedInv, SchedTypeOK, OnePlace
<1>. DEFINE q == task_set_ready(ready, t)
<1>2. q = list_insert_last(ready, t)
    BY SchedAssumption DEF task_set_ready
<1>3. /\ q \in Seq(Tasks) /\ Distinct(q)
      /\ Nodes(q) = Nodes(ready) \cup {t}
      /\ \A i \in 1 .. Len(ready) : q[i] = ready[i]
    <2>1. q \in Seq(Tasks) /\ Nodes(q) = Nodes(ready) \cup {t}
        BY <1>1, <1>2, InsertLast
    <2>2. Distinct(q)
        BY <1>1, <1>2, InsertLastDistinct
    <2>3. \A i \in 1 .. Len(ready) : q[i] = ready[i]
        BY <1>1, <1>2, InsertLastElements
    <2>. QED
        BY <2>1, <2>2, <2>3
<1>4. \A x \in Nodes(ready) : Place(q, x) = Place(ready, x)
    BY <1>1, <1>2, InsertKeepsPlace
<1>. HIDE DEF q
<1>5. q # <<>>
    BY <1>3, NodesOfSeq
<1>6. ready # <<>> => q[1] = ready[1]
    BY <1>1, <1>3
<1>. QED
    BY <1>3, <1>4, <1>5, <1>6 DEF q

-----------------------------------------------------------------------------
(* The invariant holds at the start and is preserved by every action. *)

LEMMA SchedInitInv == SchedInit => SchedInv
<1>. SUFFICES ASSUME SchedInit PROVE SchedInv
    OBVIOUS
<1>1. First \in Tasks /\ First # Idle
    BY SchedAssumption
<1>2. ready \in Seq(Tasks) /\ Len(ready) = 1 /\ ready[1] = First
    BY <1>1 DEF SchedInit
<1>3. Nodes(ready) = {First} /\ Nodes(sleeping) = {}
    BY <1>2 DEF SchedInit, Nodes
<1>4. SchedTypeOK
    BY <1>1, <1>2, SchedAssumption DEF SchedInit, SchedTypeOK, AllTasks, TaskState
<1>5. CurrIsHead
    BY <1>2 DEF SchedInit, CurrIsHead, task_next_run, list_first
<1>6. OnePlace
    BY <1>1, <1>2, <1>3 DEF SchedInit, OnePlace, Distinct, AllTasks
<1>7. SleepersCount /\ OwingIsReady
    BY <1>3 DEF SchedInit, SleepersCount, OwingIsReady
<1>. QED
    BY <1>4, <1>5, <1>6, <1>7 DEF SchedInv

LEMMA StartInv ==
    ASSUME SchedInv, NEW t \in Tasks, task_start(t)
    PROVE  SchedInv'
<1>. DEFINE q == task_set_ready(ready, t)
<1>1. /\ curr # Idle /\ Interruptible
      /\ state[t] = "CREATED"
      /\ ready' = q
      /\ state' = [state EXCEPT ![t] = "READY"]
      /\ UNCHANGED <<curr, sleeping, sleepTicks, slice, owing, cursor>>
    BY SchedAssumption DEF task_start, TaskRuns, set_ready_state
<1>2. t \notin Nodes(ready)
    BY <1>1 DEF SchedInv, OnePlace
<1>3. /\ q \in Seq(Tasks) /\ Distinct(q) /\ q # <<>>
      /\ Nodes(q) = Nodes(ready) \cup {t}
      /\ ready # <<>> => q[1] = ready[1]
    BY <1>2, MakeReady
<1>4. ready # <<>> /\ curr = ready[1]
    BY <1>1, CurrOnReadyList
<1>. HIDE DEF q
<1>5. SchedTypeOK'
    BY <1>1, <1>3 DEF SchedInv, SchedTypeOK, TaskState, AllTasks
<1>6. CurrIsHead'
    BY <1>1, <1>3, <1>4 DEF CurrIsHead, task_next_run, list_first
<1>7. OnePlace'
    BY <1>1, <1>3, SMTT(30) DEF SchedInv, OnePlace, SchedTypeOK, AllTasks
<1>8. SleepersCount' /\ OwingIsReady'
    BY <1>1, <1>3 DEF SchedInv, SleepersCount, OwingIsReady
<1>. QED
    BY <1>5, <1>6, <1>7, <1>8 DEF SchedInv

LEMMA YieldInv ==
    ASSUME SchedInv, sys_yield
    PROVE  SchedInv'
<1>. DEFINE q == task_set_ready(task_set_block(ready, curr), curr)
            st == set_ready_state(state, curr)
<1>1. /\ curr # Idle /\ Interruptible
      /\ task_dispatch(q, st)
      /\ UNCHANGED <<sleeping, sleepTicks, slice, owing, cursor>>
    BY SchedAssumption DEF sys_yield, TaskRuns
<1>2. curr \in Tasks /\ curr \in Nodes(ready)
    BY <1>1, CurrOnReadyList
<1>3. /\ q \in Seq(Tasks) /\ Distinct(q)
      /\ Nodes(q) = Nodes(ready) /\ q # <<>>
    BY <1>1, Rotate
<1>4. /\ st \in [AllTasks -> TaskState]
      /\ \A t \in Tasks : state[t] # "CREATED" => st[t] # "CREATED"
    BY <1>1 DEF SchedInv, SchedTypeOK, set_ready_state, TaskState, AllTasks
<1>. HIDE DEF q, st
<1>5. /\ ready' = q /\ curr' = task_next_run(q) /\ curr' \in AllTasks
      /\ state' \in [AllTasks -> TaskState]
      /\ \A t \in Tasks : st[t] # "CREATED" => state'[t] # "CREATED"
    BY <1>1, <1>3, <1>4, Dispatch
<1>6. SchedTypeOK'
    BY <1>1, <1>3, <1>5 DEF SchedInv, SchedTypeOK
<1>7. CurrIsHead'
    BY <1>5 DEF CurrIsHead
<1>8. OnePlace'
    BY <1>1, <1>3, <1>4, <1>5, NodesOfSeq DEF SchedInv, OnePlace, SchedTypeOK
<1>9. SleepersCount' /\ OwingIsReady'
    BY <1>1, <1>3, <1>5 DEF SchedInv, SleepersCount, OwingIsReady, Interruptible
<1>. QED
    BY <1>6, <1>7, <1>8, <1>9 DEF SchedInv

LEMMA BlockInv ==
    ASSUME SchedInv, block_current
    PROVE  SchedInv'
<1>. DEFINE q == task_set_block(ready, curr)
<1>1. /\ TaskRuns
      /\ task_dispatch(q, state)
      /\ UNCHANGED <<sleeping, sleepTicks, slice, owing, cursor>>
    BY DEF block_current
<1>2. /\ curr \in Tasks /\ curr \in Nodes(ready)
      /\ q \in Seq(Tasks) /\ Distinct(q)
      /\ Nodes(q) = Nodes(ready) \ {curr}
    BY <1>1, BlockCurrent
<1>3. state \in [AllTasks -> TaskState]
    BY DEF SchedInv, SchedTypeOK
<1>. HIDE DEF q
<1>4. /\ ready' = q /\ curr' = task_next_run(q) /\ curr' \in AllTasks
      /\ state' \in [AllTasks -> TaskState]
      /\ \A t \in Tasks : state[t] # "CREATED" => state'[t] # "CREATED"
    BY <1>1, <1>2, <1>3, Dispatch
<1>5. SchedTypeOK'
    BY <1>1, <1>2, <1>4 DEF SchedInv, SchedTypeOK
<1>6. CurrIsHead'
    BY <1>4 DEF CurrIsHead
<1>7. OnePlace'
    BY <1>1, <1>2, <1>4, NodesOfSeq DEF SchedInv, OnePlace, SchedTypeOK
<1>8. SleepersCount' /\ OwingIsReady'
    BY <1>1, <1>2, <1>4, SchedAssumption
    DEF SchedInv, SleepersCount, OwingIsReady, TaskRuns, Interruptible
<1>. QED
    BY <1>5, <1>6, <1>7, <1>8 DEF SchedInv

(* A sleep of at least a millisecond is at least a tick long. *)
LEMMA SleepRoundsUp ==
    ASSUME NEW ms \in 1 .. MaxSleep
    PROVE  sleep_ticks_of(ms) \in Nat \ {0}
<1>. DEFINE k == OS_TICKS_MS
            x == ms + (k - 1)
            n == x \div k
<1>1. k \in Nat \ {0} /\ x \in Nat /\ x >= k
    BY SchedAssumption
<1>. HIDE DEF k, x
<1>2. n \in Int /\ x = k * n + (x % k) /\ x % k \in 0 .. k - 1
    BY <1>1
<1>3. n > 0
    BY <1>1, <1>2
<1>. QED
    BY <1>2, <1>3 DEF sleep_ticks_of, k, x

LEMMA SleepInv ==
    ASSUME SchedInv, NEW ms \in 1 .. MaxSleep, sys_sleep(ms)
    PROVE  SchedInv'
<1>. DEFINE q == task_set_block(ready, curr)
            st == [state EXCEPT ![curr] = "SLEEP"]
            s == list_insert_last(sleeping, curr)
            n == sleep_ticks_of(ms)
<1>. n \in Nat \ {0}
    BY SleepRoundsUp
<1>1. /\ TaskRuns
      /\ task_dispatch(q, st)
      /\ sleeping' = s
      /\ sleepTicks' = [sleepTicks EXCEPT ![curr] = n]
      /\ UNCHANGED <<slice, owing, cursor>>
    BY SleepRoundsUp DEF sys_sleep
<1>2. /\ curr \in Tasks /\ curr \in Nodes(ready)
      /\ q \in Seq(Tasks) /\ Distinct(q)
      /\ Nodes(q) = Nodes(ready) \ {curr}
    BY <1>1, BlockCurrent
<1>3. /\ st \in [AllTasks -> TaskState]
      /\ \A t \in Tasks : state[t] # "CREATED" => st[t] # "CREATED"
      /\ st[curr] # "CREATED"
    BY <1>2 DEF SchedInv, SchedTypeOK, TaskState, AllTasks
<1>4. /\ sleeping \in Seq(Tasks) /\ Distinct(sleeping)
      /\ curr \notin Nodes(sleeping)
    BY <1>2 DEF SchedInv, SchedTypeOK, OnePlace
<1>5. /\ s \in Seq(Tasks) /\ Distinct(s)
      /\ Nodes(s) = Nodes(sleeping) \cup {curr}
    BY <1>2, <1>4, InsertLast, InsertLastDistinct
<1>. HIDE DEF q, st, s, n
<1>6. /\ ready' = q /\ curr' = task_next_run(q) /\ curr' \in AllTasks
      /\ state' \in [AllTasks -> TaskState]
      /\ \A t \in Tasks : st[t] # "CREATED" => state'[t] # "CREATED"
    BY <1>1, <1>2, <1>3, Dispatch
<1>7. SchedTypeOK'
    BY <1>1, <1>2, <1>5, <1>6, SchedAssumption DEF SchedInv, SchedTypeOK, AllTasks
<1>8. CurrIsHead'
    BY <1>6 DEF CurrIsHead
<1>9. OnePlace'
    BY <1>1, <1>2, <1>3, <1>4, <1>5, <1>6, NodesOfSeq DEF SchedInv, OnePlace, SchedTypeOK
<1>10. SleepersCount'
    BY <1>1, <1>2, <1>4, <1>5, NodesOfSeq
    DEF SchedInv, SleepersCount, SchedTypeOK, AllTasks
<1>11. OwingIsReady'
    BY <1>1, <1>2, <1>6, SchedAssumption
    DEF SchedInv, OwingIsReady, TaskRuns, Interruptible
<1>. QED
    BY <1>7, <1>8, <1>9, <1>10, <1>11 DEF SchedInv

LEMMA UnblockInv ==
    ASSUME SchedInv, NEW t \in Tasks, unblock(t)
    PROVE  SchedInv'
<1>. DEFINE q == task_set_ready(ready, t)
            st == set_ready_state(state, t)
<1>1. /\ Interruptible
      /\ state[t] # "CREATED" /\ t \notin Nodes(ready) /\ t \notin Nodes(sleeping)
      /\ task_dispatch(q, st)
      /\ UNCHANGED <<sleeping, sleepTicks, slice, owing, cursor>>
    BY DEF unblock, Blocked
<1>2. /\ q \in Seq(Tasks) /\ Distinct(q)
      /\ Nodes(q) = Nodes(ready) \cup {t}
    BY <1>1, MakeReady
<1>3. /\ st \in [AllTasks -> TaskState]
      /\ \A x \in Tasks : state[x] # "CREATED" => st[x] # "CREATED"
    BY <1>1, SchedAssumption
    DEF SchedInv, SchedTypeOK, set_ready_state, TaskState, AllTasks
<1>. HIDE DEF q, st
<1>4. /\ ready' = q /\ curr' = task_next_run(q) /\ curr' \in AllTasks
      /\ state' \in [AllTasks -> TaskState]
      /\ \A x \in Tasks : st[x] # "CREATED" => state'[x] # "CREATED"
    BY <1>1, <1>2, <1>3, Dispatch
<1>5. SchedTypeOK'
    BY <1>1, <1>2, <1>4 DEF SchedInv, SchedTypeOK
<1>6. CurrIsHead'
    BY <1>4 DEF CurrIsHead
<1>7. OnePlace'
    BY <1>1, <1>2, <1>3, <1>4, NodesOfSeq DEF SchedInv, OnePlace, SchedTypeOK
<1>8. SleepersCount' /\ OwingIsReady'
    BY <1>1, <1>2, <1>4 DEF SchedInv, SleepersCount, OwingIsReady, Interruptible
<1>. QED
    BY <1>5, <1>6, <1>7, <1>8 DEF SchedInv

LEMMA TickInSliceInv ==
    ASSUME SchedInv, tick_in_slice
    PROVE  SchedInv'
<1>1. /\ Interruptible /\ slice[curr] # 1
      /\ slice' = [slice EXCEPT ![curr] = @ - 1]
      /\ owing' = owing \cup {curr}
      /\ UNCHANGED <<curr, ready, sleeping, sleepTicks, state, cursor>>
    BY DEF tick_in_slice
<1>2. curr \in AllTasks /\ (curr = Idle \/ curr \in Nodes(ready))
    BY <1>1, CurrOnReadyList DEF AllTasks
<1>3. SchedTypeOK'
    BY <1>1, <1>2, SchedAssumption DEF SchedInv, SchedTypeOK
<1>4. CurrIsHead' /\ OnePlace' /\ SleepersCount'
    BY <1>1 DEF SchedInv, CurrIsHead, OnePlace, SleepersCount
<1>5. OwingIsReady'
    BY <1>1, <1>2 DEF SchedInv, OwingIsReady
<1>. QED
    BY <1>3, <1>4, <1>5 DEF SchedInv

LEMMA TickSliceOverInv ==
    ASSUME SchedInv, tick_slice_over
    PROVE  SchedInv'
<1>. DEFINE q == task_set_ready(task_set_block(ready, curr), curr)
            st == set_ready_state(state, curr)
<1>1. /\ Interruptible
      /\ slice' = [slice EXCEPT ![curr] = TIME_SLICE]
      /\ owing' = owing \cup {curr}
      /\ task_dispatch(q, st)
      /\ UNCHANGED <<sleeping, sleepTicks, cursor>>
    BY DEF tick_slice_over
<1>2. /\ q \in Seq(Tasks) /\ Distinct(q)
      /\ Nodes(q) = Nodes(ready)
      /\ curr = Idle => q = <<>>
    BY <1>1, Rotate
<1>3. curr \in AllTasks /\ (curr = Idle \/ curr \in Nodes(ready))
    BY <1>1, CurrOnReadyList DEF AllTasks
<1>4. /\ st \in [AllTasks -> TaskState]
      /\ \A t \in Tasks : state[t] # "CREATED" => st[t] # "CREATED"
    BY <1>3 DEF SchedInv, SchedTypeOK, set_ready_state, TaskState, AllTasks
<1>. HIDE DEF q, st
<1>5. /\ ready' = q /\ curr' = task_next_run(q) /\ curr' \in AllTasks
      /\ q = <<>> => curr' = Idle
      /\ state' \in [AllTasks -> TaskState]
      /\ \A t \in Tasks : st[t] # "CREATED" => state'[t] # "CREATED"
    BY <1>1, <1>2, <1>4, Dispatch
<1>6. SchedTypeOK'
    <2>1. slice' \in [AllTasks -> 1 .. TIME_SLICE]
        BY <1>1, SchedAssumption DEF SchedInv, SchedTypeOK
    <2>2. owing' \subseteq AllTasks
        BY <1>1, <1>3 DEF SchedInv, SchedTypeOK
    <2>. QED
        BY <1>1, <1>2, <1>5, <2>1, <2>2 DEF SchedInv, SchedTypeOK
<1>7. CurrIsHead'
    BY <1>5 DEF CurrIsHead
<1>8. OnePlace'
    BY <1>1, <1>2, <1>4, <1>5, NodesOfSeq DEF SchedInv, OnePlace, SchedTypeOK
<1>9. SleepersCount'
    BY <1>1 DEF SchedInv, SleepersCount
<1>10. OwingIsReady'
    BY <1>1, <1>2, <1>3, <1>5 DEF SchedInv, OwingIsReady, Interruptible
<1>. QED
    BY <1>6, <1>7, <1>8, <1>9, <1>10 DEF SchedInv

(* The task the walk looks at. *)
LEMMA AtCursor ==
    ASSUME SchedInv, Walking
    PROVE  /\ sleeping[cursor] \in Tasks
           /\ sleeping[cursor] \in Nodes(sleeping)
           /\ sleeping[cursor] \notin Nodes(ready)
           /\ sleepTicks[sleeping[cursor]] \in Nat \ {0}
           /\ state[sleeping[cursor]] # "CREATED"
<1>1. sleeping \in Seq(Tasks) /\ cursor \in 1 .. Len(sleeping)
    BY DEF SchedInv, SchedTypeOK, Walking
<1>2. /\ sleeping[cursor] \in Tasks
      /\ sleeping[cursor] \in Nodes(sleeping)
    BY <1>1, NodesOfSeq
<1>3. /\ sleeping[cursor] \notin Nodes(ready)
      /\ state[sleeping[cursor]] # "CREATED"
    BY <1>2 DEF SchedInv, OnePlace
<1>4. sleepTicks[sleeping[cursor]] > 0
    BY <1>2 DEF SchedInv, SleepersCount
<1>5. sleepTicks[sleeping[cursor]] \in Nat
    BY <1>2 DEF SchedInv, SchedTypeOK, AllTasks
<1>. QED
    BY <1>2, <1>3, <1>4, <1>5, SchedAssumption

LEMMA WalkPassInv ==
    ASSUME SchedInv, walk_pass
    PROVE  SchedInv'
<1>. DEFINE x == sleeping[cursor]
<1>1. /\ Walking /\ sleepTicks[x] # 1
      /\ sleepTicks' = [sleepTicks EXCEPT ![x] = @ - 1]
      /\ cursor' = cursor + 1
      /\ UNCHANGED <<curr, ready, sleeping, slice, state, owing>>
    BY DEF walk_pass
<1>2. x \in Tasks /\ sleepTicks[x] \in Nat \ {0}
    BY <1>1, AtCursor
<1>. HIDE DEF x
<1>3. SchedTypeOK'
    BY <1>1, <1>2, SchedAssumption, SMTT(30) DEF SchedInv, SchedTypeOK, AllTasks
<1>4. CurrIsHead' /\ OnePlace' /\ OwingIsReady'
    BY <1>1 DEF SchedInv, CurrIsHead, OnePlace, OwingIsReady
<1>5. SleepersCount'
    <2>1. Nodes(sleeping) \subseteq AllTasks
        BY NodesOfSeq DEF SchedInv, SchedTypeOK, AllTasks
    <2>. QED
        BY <1>1, <1>2, <2>1, SchedAssumption DEF SchedInv, SleepersCount, SchedTypeOK
<1>. QED
    BY <1>3, <1>4, <1>5 DEF SchedInv

LEMMA WalkWakeInv ==
    ASSUME SchedInv, walk_wake
    PROVE  SchedInv'
<1>. DEFINE x == sleeping[cursor]
            q == task_set_ready(ready, x)
            s == list_remove(sleeping, x)
<1>1. /\ Walking /\ curr \in owing
      /\ sleepTicks' = [sleepTicks EXCEPT ![x] = 0]
      /\ sleeping' = s
      /\ ready' = q
      /\ state' = set_ready_state(state, x)
      /\ UNCHANGED <<curr, slice, owing, cursor>>
    BY DEF walk_wake, Walking
<1>2. /\ x \in Tasks /\ x \in Nodes(sleeping) /\ x \notin Nodes(ready)
      /\ state[x] # "CREATED"
    BY <1>1, AtCursor
<1>3. /\ q \in Seq(Tasks) /\ Distinct(q) /\ q # <<>>
      /\ Nodes(q) = Nodes(ready) \cup {x}
      /\ ready # <<>> => q[1] = ready[1]
    BY <1>2, MakeReady
<1>4. /\ s \in Seq(Tasks) /\ Distinct(s)
      /\ Nodes(s) = Nodes(sleeping) \ {x}
    <2>1. sleeping \in Seq(Tasks) /\ Distinct(sleeping)
        BY DEF SchedInv, SchedTypeOK, OnePlace
    <2>. QED
        BY <2>1, <1>2, RemoveNode
<1>5. /\ state' \in [AllTasks -> TaskState]
      /\ \A t \in Tasks : state[t] # "CREATED" => state'[t] # "CREATED"
    BY <1>1, <1>2, SchedAssumption
    DEF SchedInv, SchedTypeOK, set_ready_state, TaskState, AllTasks
<1>. HIDE DEF x, q, s
<1>6. SchedTypeOK'
    <2>1. sleepTicks' \in [AllTasks -> Nat]
        <3>1. sleepTicks' = [sleepTicks EXCEPT ![x] = 0]
            BY <1>1
        <3>2. 0 \in Nat
            BY SchedAssumption
        <3>. QED
            BY <3>1, <3>2 DEF SchedInv, SchedTypeOK
    <2>2. ready' \in Seq(Tasks) /\ sleeping' \in Seq(Tasks)
        BY <1>1, <1>3, <1>4
    <2>3. UNCHANGED <<curr, slice, owing, cursor>>
        BY <1>1
    <2>. QED
        BY <1>5, <2>1, <2>2, <2>3 DEF SchedInv, SchedTypeOK
<1>7. CurrIsHead'
    <2>1. curr = Idle \/ (ready # <<>> /\ curr = ready[1])
        BY DEF SchedInv, CurrIsHead, task_next_run, list_first
    <2>. QED
        BY <1>1, <1>3, <2>1 DEF CurrIsHead, task_next_run, list_first
<1>8. OnePlace'
    BY <1>1, <1>2, <1>3, <1>4, <1>5, NodesOfSeq DEF SchedInv, OnePlace, SchedTypeOK
<1>9. SleepersCount'
    <2>1. Nodes(sleeping) \subseteq AllTasks
        BY NodesOfSeq DEF SchedInv, SchedTypeOK, AllTasks
    <2>. QED
        BY <1>1, <1>4, <2>1 DEF SchedInv, SleepersCount, SchedTypeOK
<1>10. OwingIsReady'
    BY <1>1, <1>3 DEF SchedInv, OwingIsReady
<1>. QED
    BY <1>6, <1>7, <1>8, <1>9, <1>10 DEF SchedInv

LEMMA WalkEndInv ==
    ASSUME SchedInv, walk_end
    PROVE  SchedInv'
<1>1. /\ curr \in owing
      /\ owing' = owing \ {curr}
      /\ cursor' = 1
      /\ task_dispatch(ready, state)
      /\ UNCHANGED <<sleeping, sleepTicks, slice>>
    BY DEF walk_end
<1>2. ready \in Seq(Tasks) /\ state \in [AllTasks -> TaskState]
    BY DEF SchedInv, SchedTypeOK
<1>3. /\ ready' = ready /\ curr' = task_next_run(ready) /\ curr' \in AllTasks
      /\ state' \in [AllTasks -> TaskState]
      /\ \A t \in Tasks : state[t] # "CREATED" => state'[t] # "CREATED"
    BY <1>1, <1>2, Dispatch
<1>4. SchedTypeOK'
    BY <1>1, <1>2, <1>3 DEF SchedInv, SchedTypeOK
<1>5. CurrIsHead'
    BY <1>3 DEF CurrIsHead
<1>6. OnePlace'
    BY <1>1, <1>3, NodesOfSeq DEF SchedInv, OnePlace, SchedTypeOK
<1>7. SleepersCount' /\ OwingIsReady'
    BY <1>1, <1>3 DEF SchedInv, SleepersCount, OwingIsReady
<1>. QED
    BY <1>4, <1>5, <1>6, <1>7 DEF SchedInv

LEMMA SchedNextInv == SchedInv /\ [SchedNext]_schedVars => SchedInv'
<1>. SUFFICES ASSUME SchedInv, [SchedNext]_schedVars PROVE SchedInv'
    OBVIOUS
<1>1. CASE \E t \in Tasks : task_start(t)
    BY <1>1, StartInv
<1>2. CASE sys_yield
    BY <1>2, YieldInv
<1>3. CASE \E ms \in 1 .. MaxSleep : sys_sleep(ms)
    BY <1>3, SleepInv
<1>4. CASE block_current
    BY <1>4, BlockInv
<1>5. CASE \E t \in Tasks : unblock(t)
    BY <1>5, UnblockInv
<1>6. CASE task_time_tick
    BY <1>6, TickInSliceInv, TickSliceOverInv DEF task_time_tick
<1>7. CASE walk
    BY <1>7, WalkPassInv, WalkWakeInv, WalkEndInv DEF walk
<1>8. CASE UNCHANGED schedVars
    BY <1>8 DEF schedVars, SchedInv, SchedTypeOK, CurrIsHead, OnePlace,
                SleepersCount, OwingIsReady
<1>. QED
    BY <1>1, <1>2, <1>3, <1>4, <1>5, <1>6, <1>7, <1>8 DEF SchedNext

-----------------------------------------------------------------------------
(* The theorems. *)

(* The inductive invariant, hence each of its parts. *)
THEOREM SchedSafe == SchedSpec => []SchedInv
    BY SchedInitInv, SchedNextInv, PTL DEF SchedSpec

(* Every variable of the scheduler keeps its type: no sleep count goes below *)
(* zero, no slice is ever zero when a tick arrives.                          *)
THEOREM SchedTypeCorrect == SchedSpec => []SchedTypeOK
<1>1. SchedInv => SchedTypeOK
    BY DEF SchedInv
<1>. QED
    BY <1>1, SchedSafe, PTL

(* The task on the CPU is the first of the ready list; no run_node is linked *)
(* twice; no sleeper's count is zero; a task suspended in the timer handler  *)
(* waits in the ready list.                                                  *)
THEOREM SchedQueuesAgree == SchedSpec => []QueuesAgree
<1>1. SchedInv => QueuesAgree
    BY DEF SchedInv, QueuesAgree
<1>. QED
    BY <1>1, SchedSafe, PTL

(* No step takes a waiting task off the ready list or moves it backwards. *)
THEOREM SchedNoOvertaking == SchedSpec => NoOvertaking
<1>. DEFINE Keeps == \A t \in Nodes(ready) \ {curr} :
                        /\ t \in Nodes(ready')
                        /\ Place(ready', t) <= Place(ready, t)
<1>1. ASSUME SchedInv, [SchedNext]_schedVars PROVE [Keeps]_schedVars
    <2>1. ready \in Seq(Tasks)
        BY <1>1 DEF SchedInv, SchedTypeOK
    <2>2. \A t \in Nodes(ready) : Place(ready, t) \in 1 .. Len(ready)
        BY <2>1, PlaceOfNode
    <2>3. ready' = ready => Keeps
        BY <2>1, <2>2
    <2>4. ASSUME NEW t \in Tasks, task_start(t) PROVE Keeps
        <3>1. t \notin Nodes(ready) /\ ready' = task_set_ready(ready, t)
            BY <1>1, <2>4 DEF SchedInv, OnePlace, task_start
        <3>2. /\ Nodes(ready') = Nodes(ready) \cup {t}
              /\ \A x \in Nodes(ready) : Place(ready', x) = Place(ready, x)
            BY <1>1, <3>1, MakeReady
        <3>. QED
            BY <2>1, <2>2, <3>2
    <2>5. CASE sys_yield \/ tick_slice_over
        <3>1. /\ Interruptible
              /\ ready' = task_set_ready(task_set_block(ready, curr), curr)
            BY <2>5 DEF sys_yield, tick_slice_over, TaskRuns, task_dispatch
        <3>. QED
            BY <1>1, <3>1, Rotate
    <2>6. CASE block_current \/ \E ms \in 1 .. MaxSleep : sys_sleep(ms)
        <3>1. TaskRuns /\ ready' = task_set_block(ready, curr)
            BY <2>6, SleepRoundsUp DEF block_current, sys_sleep, task_dispatch
        <3>. QED
            BY <1>1, <3>1, BlockCurrent
    <2>7. ASSUME NEW t \in Tasks, unblock(t) PROVE Keeps
        <3>1. t \notin Nodes(ready) /\ ready' = task_set_ready(ready, t)
            BY <2>7 DEF unblock, Blocked, task_dispatch
        <3>2. /\ Nodes(ready') = Nodes(ready) \cup {t}
              /\ \A x \in Nodes(ready) : Place(ready', x) = Place(ready, x)
            BY <1>1, <3>1, MakeReady
        <3>. QED
            BY <2>1, <2>2, <3>2
    <2>8. CASE tick_in_slice \/ walk_pass \/ walk_end
        BY <2>3, <2>8 DEF tick_in_slice, walk_pass, walk_end, task_dispatch
    <2>9. CASE walk_wake
        <3>1. Walking /\ ready' = task_set_ready(ready, sleeping[cursor])
            BY <2>9 DEF walk_wake
        <3>2. sleeping[cursor] \in Tasks /\ sleeping[cursor] \notin Nodes(ready)
            BY <1>1, <3>1, AtCursor
        <3>3. /\ Nodes(ready') = Nodes(ready) \cup {sleeping[cursor]}
              /\ \A x \in Nodes(ready) : Place(ready', x) = Place(ready, x)
            BY <1>1, <3>1, <3>2, MakeReady
        <3>. QED
            BY <2>1, <2>2, <3>3
    <2>. HIDE DEF Keeps
    <2>. QED
        BY <1>1, <2>4, <2>5, <2>6, <2>7, <2>8, <2>9
        DEF SchedNext, task_time_tick, walk
<1>2. SchedInv /\ [SchedNext]_schedVars => [Keeps]_schedVars
    BY <1>1
<1>. QED
    BY <1>2, SchedSafe, PTL DEF SchedSpec, NoOvertaking

-----------------------------------------------------------------------------
(* The clock: how many ticks a sleep and a wait in the ready list take. *)

(* A walk begins at the head of the sleep list: nobody who is not walking has *)
(* left the cursor elsewhere.                                                 *)
CursorHome == curr \notin owing => cursor = 1

ClockTypeOK ==
    /\ asked \in [Tasks -> 0 .. sleep_ticks_of(MaxSleep)]
    /\ heard \in [Tasks -> Nat]
    /\ owedThen \in [Tasks -> Nat]
    /\ waited \in [Tasks -> Nat]

(* A task at place p has let the tasks that are behind it, or on no list, pass: *)
(* Cardinality(Tasks) - p of them, each with a slice at most, and the first of   *)
(* the list has used up what is missing from its own.                            *)
Passed(t) == (Cardinality(Tasks) - Place(ready, t)) * TIME_SLICE

WaiterBounded(t) ==
    IF t \in Nodes(ready) /\ Place(ready, t) > 1
    THEN waited[t] <= Passed(t) + TIME_SLICE - slice[ready[1]]
    ELSE waited[t] = 0

WaitersBounded == \A t \in Tasks : WaiterBounded(t)

ClockInv ==
    /\ SchedInv
    /\ ClockTypeOK
    /\ CursorHome
    /\ TicksConserved
    /\ WaitersBounded

LEMMA TasksAreFinite ==
    /\ Cardinality(Tasks) \in Nat
    /\ Cardinality(AllTasks) \in Nat
    /\ \A o \in SUBSET AllTasks : /\ IsFiniteSet(o) /\ Cardinality(o) \in Nat
                                  /\ Cardinality(o) <= Cardinality(AllTasks)
<1>1. IsFiniteSet(AllTasks)
    BY ClockAssumption, FS_AddElement DEF AllTasks
<1>. QED
    BY <1>1, ClockAssumption, FS_CardinalityType, FS_Subset

(* A list that links no task twice is no longer than there are tasks. *)
LEMMA DistinctIsShort ==
    ASSUME NEW q \in Seq(Tasks), Distinct(q)
    PROVE  Len(q) <= Cardinality(Tasks)
<1>1. SUFFICES ASSUME Cardinality(Tasks) < Len(q) PROVE FALSE
    BY TasksAreFinite
<1>2. IsFiniteSet(1 .. Len(q)) /\ Cardinality(1 .. Len(q)) = Len(q)
    <2>1. Len(q) \in Int /\ 1 \in Int /\ Len(q) >= 1
        BY <1>1, TasksAreFinite
    <2>2. /\ IsFiniteSet(1 .. Len(q))
          /\ Cardinality(1 .. Len(q)) = IF 1 > Len(q) THEN 0 ELSE Len(q) - 1 + 1
        BY <2>1, FS_Interval
    <2>. QED
        BY <2>1, <2>2
<1>3. q \in [1 .. Len(q) -> Tasks]
    OBVIOUS
<1>4. \E i, j \in 1 .. Len(q) : i # j /\ q[i] = q[j]
    BY <1>1, <1>2, <1>3, ClockAssumption, FS_PigeonHole
<1>. QED
    BY <1>4 DEF Distinct

(* The others move up by one place when the first is taken off a list. *)
LEMMA MoveUp ==
    ASSUME NEW S, NEW q \in Seq(S), Distinct(q), q # <<>>,
           NEW x \in Nodes(q), x # q[1]
    PROVE  /\ x \in Nodes(list_remove(q, q[1]))
           /\ Place(list_remove(q, q[1]), x) = Place(q, x) - 1
           /\ Place(q, x) >= 2
<1>. DEFINE r == list_remove(q, q[1])
            j == Place(q, x)
<1>1. j \in 1 .. Len(q) /\ q[j] = x
    BY PlaceOfNode
<1>2. q[1] \in Nodes(q) /\ Place(q, q[1]) = 1
    BY RemoveFirst DEF list_first
<1>3. /\ r \in Seq(S) /\ Len(r) = Len(q) - 1 /\ Distinct(r)
      /\ \A i \in 1 .. Len(r) : r[i] = q[i + 1]
    BY <1>2, RemoveNode
<1>4. j >= 2 /\ j - 1 \in 1 .. Len(r)
    BY <1>1, <1>3
<1>. HIDE DEF r, j
<1>5. r[j - 1] = x
    BY <1>1, <1>3, <1>4
<1>6. Place(r, x) = j - 1 /\ x \in Nodes(r)
    BY <1>3, <1>4, <1>5, PlaceIsUnique, NodesOfSeq
<1>. QED
    BY <1>4, <1>6 DEF r, j

(* The longest sleep has the most ticks. *)
LEMMA SleepIsBounded ==
    ASSUME NEW ms \in 1 .. MaxSleep
    PROVE  sleep_ticks_of(ms) \in 0 .. sleep_ticks_of(MaxSleep)
<1>. DEFINE k == OS_TICKS_MS
            x == ms + (k - 1)
            y == MaxSleep + (k - 1)
            n == x \div k
            m == y \div k
<1>1. k \in Nat \ {0} /\ x \in Nat /\ y \in Nat /\ x <= y
    BY SchedAssumption
<1>2. /\ n = sleep_ticks_of(ms) /\ n \in Nat
      /\ m = sleep_ticks_of(MaxSleep) /\ m \in Nat
    BY SleepRoundsUp, SchedAssumption DEF sleep_ticks_of
<1>. HIDE DEF k, x, y
<1>3. x >= k * n /\ y < k * (m + 1)
    BY <1>1
<1>. HIDE DEF n, m
<1>4. n <= m
    <2>1. SUFFICES ASSUME n >= m + 1 PROVE FALSE
        BY <1>2
    <2>2. k * n >= k * (m + 1)
        BY <1>1, <1>2, <2>1
    <2>. QED
        BY <1>1, <1>2, <1>3, <2>2
<1>. QED
    BY <1>2, <1>4

-----------------------------------------------------------------------------
(* The ticks of a sleep. *)

(* Outside a walk nobody has been walked past. *)
LEMMA NotWalkedPast ==
    ASSUME SchedInv, cursor = 1, NEW t \in Nodes(sleeping)
    PROVE  ~WalkedPast(t)
<1>1. Place(sleeping, t) \in 1 .. Len(sleeping)
    BY PlaceOfNode DEF SchedInv, SchedTypeOK
<1>. QED
    BY <1>1 DEF WalkedPast

(* One tick more, below the bound that caps the count. *)
LEMMA HeardIsCapped ==
    ASSUME ClockInv, cursor = 1, NEW t \in Nodes(sleeping)
    PROVE  t \in Tasks /\ OneMore(heard[t], MaxHeard) = heard[t] + 1
<1>1. t \in Tasks
    BY NodesOfSeq DEF ClockInv, SchedInv, SchedTypeOK
<1>0. ~WalkedPast(t)
    BY NotWalkedPast DEF ClockInv
<1>3. /\ asked[t] \in 0 .. sleep_ticks_of(MaxSleep) /\ heard[t] \in Nat /\ owedThen[t] \in Nat
      /\ sleepTicks[t] \in Nat
    BY <1>1 DEF ClockInv, ClockTypeOK, SchedInv, SchedTypeOK, AllTasks
<1>4. Cardinality(owing) \in Nat /\ Cardinality(owing) <= Cardinality(AllTasks)
    BY TasksAreFinite DEF ClockInv, SchedInv, SchedTypeOK
<1>2. asked[t] - sleepTicks[t] = heard[t] + owedThen[t] - Cardinality(owing)
    <2>1. asked[t] - sleepTicks[t] = heard[t] + owedThen[t] - Cardinality(owing)
                                        + (IF WalkedPast(t) THEN 1 ELSE 0)
        BY DEF ClockInv, TicksConserved
    <2>. QED
        BY <1>0, <1>3, <1>4, <2>1
<1>5. sleep_ticks_of(MaxSleep) \in Nat /\ Cardinality(AllTasks) \in Nat
    BY SleepRoundsUp, SchedAssumption, TasksAreFinite
<1>6. heard[t] < MaxHeard
    BY <1>2, <1>3, <1>4, <1>5 DEF MaxHeard
<1>. QED
    BY <1>1, <1>6 DEF OneMore

LEMMA TicksKept ==
    ASSUME ClockInv, SchedInv', cursor = 1,
           UNCHANGED <<sleeping, sleepTicks, owing, cursor, asked, heard, owedThen>>
    PROVE  TicksConserved'
<1>1. \A t \in Nodes(sleeping) : ~WalkedPast(t)
    BY NotWalkedPast DEF ClockInv
<1>2. \A t \in Nodes(sleeping) : ~WalkedPast(t)'
    <2>1. \A t \in Nodes(sleeping) : Place(sleeping, t) \in 1 .. Len(sleeping)
        BY PlaceOfNode DEF ClockInv, SchedInv, SchedTypeOK
    <2>. QED
        BY <2>1 DEF WalkedPast
<1>. QED
    BY <1>1, <1>2 DEF ClockInv, TicksConserved

(* What the conservation of ticks says of one sleeper, with the types. *)
LEMMA SleeperLaw ==
    ASSUME ClockInv, NEW t \in Nodes(sleeping)
    PROVE  /\ t \in Tasks
           /\ asked[t] \in Nat /\ heard[t] \in Nat /\ owedThen[t] \in Nat
           /\ sleepTicks[t] \in Nat /\ Cardinality(owing) \in Nat
           /\ IF WalkedPast(t)
              THEN asked[t] - sleepTicks[t] = heard[t] + owedThen[t] - Cardinality(owing) + 1
              ELSE asked[t] - sleepTicks[t] = heard[t] + owedThen[t] - Cardinality(owing)
<1>1. t \in Tasks
    BY NodesOfSeq DEF ClockInv, SchedInv, SchedTypeOK
<1>2. sleep_ticks_of(MaxSleep) \in Nat
    BY SleepRoundsUp, SchedAssumption
<1>3. /\ asked[t] \in Nat /\ heard[t] \in Nat /\ owedThen[t] \in Nat
      /\ sleepTicks[t] \in Nat
    BY <1>1, <1>2 DEF ClockInv, ClockTypeOK, SchedInv, SchedTypeOK, AllTasks
<1>4. Cardinality(owing) \in Nat
    BY TasksAreFinite DEF ClockInv, SchedInv, SchedTypeOK
<1>5. asked[t] - sleepTicks[t] = heard[t] + owedThen[t] - Cardinality(owing)
                                    + (IF WalkedPast(t) THEN 1 ELSE 0)
    BY DEF ClockInv, TicksConserved
<1>. QED
    BY <1>1, <1>3, <1>4, <1>5

(* When the next walk has not begun, it has passed nobody. *)
LEMMA NotWalkedPastNext ==
    ASSUME SchedInv', cursor' = 1, NEW t \in Nodes(sleeping')
    PROVE  ~WalkedPast(t)'
<1>1. sleeping' \in Seq(Tasks)
    BY DEF SchedInv, SchedTypeOK
<1>2. Place(sleeping', t) \in 1 .. Len(sleeping')
    BY <1>1, PlaceOfNode
<1>. QED
    BY <1>2 DEF WalkedPast

LEMMA TickKeepsTicks ==
    ASSUME ClockInv, SchedInv', Tick
    PROVE  TicksConserved'
<1>1. /\ curr \notin owing /\ owing' = owing \cup {curr}
      /\ UNCHANGED <<sleeping, sleepTicks, cursor, asked, owedThen>>
    BY DEF Tick, task_time_tick, tick_in_slice, tick_slice_over, Interruptible
<1>2. cursor = 1
    BY <1>1 DEF ClockInv, CursorHome
<1>3. Cardinality(owing') = Cardinality(owing) + 1
    <2>1. IsFiniteSet(owing)
        BY TasksAreFinite DEF ClockInv, SchedInv, SchedTypeOK
    <2>. QED
        BY <1>1, <2>1, FS_AddElement
<1>. SUFFICES ASSUME NEW t \in Nodes(sleeping)
              PROVE  asked[t] - sleepTicks[t] =
                        heard'[t] + owedThen[t] - Cardinality(owing')
                          + (IF WalkedPast(t)' THEN 1 ELSE 0)
    BY <1>1 DEF TicksConserved
<1>4. ~WalkedPast(t) /\ ~WalkedPast(t)'
    BY <1>1, <1>2, NotWalkedPast, NotWalkedPastNext DEF ClockInv
<1>5. heard'[t] = heard[t] + 1
    BY <1>2, HeardIsCapped DEF Tick
<1>6. /\ asked[t] - sleepTicks[t] = heard[t] + owedThen[t] - Cardinality(owing)
      /\ asked[t] \in Nat /\ heard[t] \in Nat /\ owedThen[t] \in Nat
      /\ sleepTicks[t] \in Nat /\ Cardinality(owing) \in Nat
    BY <1>4, SleeperLaw
<1>. QED
    BY <1>3, <1>4, <1>5, <1>6

LEMMA SleepKeepsTicks ==
    ASSUME ClockInv, SchedInv', NEW ms \in 1 .. MaxSleep, Sleep(ms)
    PROVE  TicksConserved'
<1>1. PICK n \in Nat \ {0} : n = sleep_ticks_of(ms)
    BY SleepRoundsUp
<1>2. /\ curr \in Tasks /\ curr \notin owing
      /\ sleepTicks' = [sleepTicks EXCEPT ![curr] = n]
      /\ sleeping' = list_insert_last(sleeping, curr)
      /\ UNCHANGED <<owing, cursor>>
      /\ asked' = [asked EXCEPT ![curr] = n]
      /\ heard' = [heard EXCEPT ![curr] = 0]
      /\ owedThen' = [owedThen EXCEPT ![curr] = Cardinality(owing)]
    BY <1>1 DEF Sleep, sys_sleep, TaskRuns, Interruptible
<1>3. cursor = 1
    BY <1>2 DEF ClockInv, CursorHome
<1>4. Nodes(sleeping') = Nodes(sleeping) \cup {curr}
    <2>1. sleeping \in Seq(Tasks)
        BY DEF ClockInv, SchedInv, SchedTypeOK
    <2>. QED
        BY <1>2, <2>1, InsertLast, ZenonT(40)
<1>5. Cardinality(owing) \in Nat
    BY TasksAreFinite DEF ClockInv, SchedInv, SchedTypeOK
<1>6. /\ asked \in [Tasks -> 0 .. sleep_ticks_of(MaxSleep)] /\ heard \in [Tasks -> Nat]
      /\ owedThen \in [Tasks -> Nat] /\ sleepTicks \in [AllTasks -> Nat]
    BY DEF ClockInv, ClockTypeOK, SchedInv, SchedTypeOK
<1>. SUFFICES ASSUME NEW t \in Nodes(sleeping')
              PROVE  asked'[t] - sleepTicks'[t] =
                        heard'[t] + owedThen'[t] - Cardinality(owing')
                          + (IF WalkedPast(t)' THEN 1 ELSE 0)
    BY DEF TicksConserved
<1>7. ~WalkedPast(t)'
    BY <1>2, <1>3, NotWalkedPastNext
<1>8. CASE t = curr
    <2>1. asked'[t] = n /\ sleepTicks'[t] = n /\ heard'[t] = 0 /\ owedThen'[t] = Cardinality(owing)
        BY <1>2, <1>6, <1>8 DEF AllTasks
    <2>. QED
        BY <1>2, <1>5, <1>7, <2>1
<1>9. CASE t # curr
    <2>1. t \in Nodes(sleeping) /\ t \in Tasks
        BY <1>4, <1>9, SleeperLaw
    <2>2. /\ asked'[t] = asked[t] /\ sleepTicks'[t] = sleepTicks[t]
          /\ heard'[t] = heard[t] /\ owedThen'[t] = owedThen[t]
        BY <1>2, <1>6, <1>9, <2>1 DEF AllTasks
    <2>3. /\ asked[t] - sleepTicks[t] = heard[t] + owedThen[t] - Cardinality(owing)
          /\ asked[t] \in Nat /\ heard[t] \in Nat /\ owedThen[t] \in Nat
          /\ sleepTicks[t] \in Nat
        <3>1. ~WalkedPast(t)
            BY <1>3, <2>1, NotWalkedPast DEF ClockInv
        <3>. QED
            BY <2>1, <3>1, SleeperLaw
    <2>. QED
        BY <1>2, <1>5, <1>7, <2>2, <2>3
<1>. QED
    BY <1>8, <1>9

LEMMA PassKeepsTicks ==
    ASSUME ClockInv, walk_pass, UNCHANGED <<asked, heard, owedThen>>
    PROVE  TicksConserved'
<1>1. PICK x : x = sleeping[cursor]
    OBVIOUS
<1>2. /\ Walking /\ curr \in owing
      /\ sleepTicks' = [sleepTicks EXCEPT ![x] = @ - 1]
      /\ cursor' = cursor + 1
      /\ UNCHANGED <<curr, sleeping, owing, asked, heard, owedThen>>
    BY <1>1 DEF walk_pass, Walking
<1>3. /\ sleeping \in Seq(Tasks) /\ Distinct(sleeping) /\ cursor \in 1 .. Len(sleeping)
      /\ sleepTicks \in [AllTasks -> Nat]
    BY <1>2 DEF ClockInv, SchedInv, SchedTypeOK, OnePlace, Walking
<1>4. x \in Tasks /\ Place(sleeping, x) = cursor /\ sleepTicks[x] \in Nat \ {0}
    BY <1>1, <1>2, <1>3, AtCursor, PlaceIsUnique DEF ClockInv
<1>. SUFFICES ASSUME NEW t \in Nodes(sleeping)
              PROVE  asked[t] - sleepTicks'[t] =
                        heard[t] + owedThen[t] - Cardinality(owing)
                          + (IF WalkedPast(t)' THEN 1 ELSE 0)
    BY <1>2 DEF TicksConserved
<1>5. /\ t \in Tasks /\ Place(sleeping, t) \in 1 .. Len(sleeping)
      /\ sleeping[Place(sleeping, t)] = t
    BY <1>3, PlaceOfNode, SleeperLaw
<1>6. WalkedPast(t) <=> Place(sleeping, t) < cursor
    BY <1>2 DEF WalkedPast
<1>7. WalkedPast(t)' <=> Place(sleeping, t) < cursor + 1
    BY <1>2 DEF WalkedPast
<1>8. CASE t = x
    <2>1. ~WalkedPast(t) /\ WalkedPast(t)'
        BY <1>3, <1>4, <1>6, <1>7, <1>8
    <2>2. sleepTicks'[t] = sleepTicks[t] - 1
        BY <1>2, <1>3, <1>4, <1>8 DEF AllTasks
    <2>. QED
        BY <2>1, <2>2, SleeperLaw
<1>9. CASE t # x
    <2>1. Place(sleeping, t) # cursor
        BY <1>1, <1>5, <1>9
    <2>2. WalkedPast(t)' <=> WalkedPast(t)
        BY <1>3, <1>5, <1>6, <1>7, <2>1
    <2>3. sleepTicks'[t] = sleepTicks[t]
        BY <1>2, <1>3, <1>5, <1>9 DEF AllTasks
    <2>. QED
        BY <2>2, <2>3, SleeperLaw
<1>. QED
    BY <1>8, <1>9

(* A task keeps its side of the cursor when the task at the cursor leaves. *)
LEMMA WakeKeepsSides ==
    ASSUME NEW S, NEW q \in Seq(S), Distinct(q), NEW c \in 1 .. Len(q),
           NEW x \in Nodes(q), x # q[c]
    PROVE  Place(list_remove(q, q[c]), x) < c <=> Place(q, x) < c
<1>. DEFINE r == list_remove(q, q[c])
            j == Place(q, x)
<1>1. j \in 1 .. Len(q) /\ q[j] = x
    BY PlaceOfNode
<1>2. q[c] \in Nodes(q) /\ Place(q, q[c]) = c
    BY PlaceIsUnique, NodesOfSeq
<1>3. /\ r \in Seq(S) /\ Len(r) = Len(q) - 1 /\ Distinct(r)
      /\ \A i \in 1 .. Len(q) - 1 : r[i] = IF i < c THEN q[i] ELSE q[i + 1]
    BY <1>2, RemoveNode
<1>. HIDE DEF r, j
<1>4. j # c
    BY <1>1
<1>5. CASE j < c
    <2>1. j \in 1 .. Len(r) /\ r[j] = x
        BY <1>1, <1>3, <1>5
    <2>. QED
        BY <1>3, <1>5, <2>1, PlaceIsUnique DEF r, j
<1>6. CASE j > c
    <2>1. j - 1 \in 1 .. Len(r) /\ r[j - 1] = x /\ j - 1 >= c
        BY <1>1, <1>3, <1>6
    <2>2. Place(r, x) = j - 1
        BY <1>3, <2>1, PlaceIsUnique
    <2>. QED
        BY <1>1, <1>6, <2>1, <2>2 DEF r, j
<1>. QED
    BY <1>1, <1>4, <1>5, <1>6

LEMMA WakeKeepsTicks ==
    ASSUME ClockInv, Wake
    PROVE  TicksConserved'
<1>1. PICK x : x = sleeping[cursor]
    OBVIOUS
<1>2. /\ Walking /\ curr \in owing
      /\ sleepTicks' = [sleepTicks EXCEPT ![x] = 0]
      /\ sleeping' = list_remove(sleeping, x)
      /\ UNCHANGED <<curr, owing, cursor>>
      /\ asked' = [asked EXCEPT ![x] = 0]
      /\ heard' = [heard EXCEPT ![x] = 0]
      /\ owedThen' = [owedThen EXCEPT ![x] = 0]
    BY <1>1 DEF Wake, walk_wake, Walking
<1>3. /\ sleeping \in Seq(Tasks) /\ Distinct(sleeping) /\ cursor \in 1 .. Len(sleeping)
      /\ sleepTicks \in [AllTasks -> Nat]
      /\ asked \in [Tasks -> 0 .. sleep_ticks_of(MaxSleep)] /\ heard \in [Tasks -> Nat]
      /\ owedThen \in [Tasks -> Nat]
    BY <1>2, SMTT(30) DEF ClockInv, ClockTypeOK, SchedInv, SchedTypeOK, OnePlace, Walking
<1>4. Nodes(sleeping') = Nodes(sleeping) \ {x}
    <2>1. x \in Nodes(sleeping)
        BY <1>1, <1>2, AtCursor DEF ClockInv
    <2>. QED
        BY <1>2, <1>3, <2>1, RemoveNode
<1>. SUFFICES ASSUME NEW t \in Nodes(sleeping'), t \in Nodes(sleeping), t # x
              PROVE  asked'[t] - sleepTicks'[t] =
                        heard'[t] + owedThen'[t] - Cardinality(owing')
                          + (IF WalkedPast(t)' THEN 1 ELSE 0)
    BY <1>4 DEF TicksConserved
<1>5. t \in Tasks
    BY SleeperLaw
<1>6. WalkedPast(t)' <=> WalkedPast(t)
    BY <1>1, <1>2, <1>3, WakeKeepsSides DEF WalkedPast
<1>7. /\ asked'[t] = asked[t] /\ sleepTicks'[t] = sleepTicks[t]
      /\ heard'[t] = heard[t] /\ owedThen'[t] = owedThen[t]
    BY <1>2, <1>3, <1>5 DEF AllTasks
<1>. QED
    BY <1>2, <1>6, <1>7, SleeperLaw

LEMMA WalkEndKeepsTicks ==
    ASSUME ClockInv, SchedInv', walk_end, UNCHANGED <<asked, heard, owedThen>>
    PROVE  TicksConserved'
<1>1. /\ curr \in owing /\ cursor > Len(sleeping)
      /\ owing' = owing \ {curr} /\ cursor' = 1
      /\ UNCHANGED <<sleeping, sleepTicks, asked, heard, owedThen>>
    BY DEF walk_end
<1>2. Cardinality(owing') = Cardinality(owing) - 1
    <2>1. IsFiniteSet(owing)
        BY TasksAreFinite DEF ClockInv, SchedInv, SchedTypeOK
    <2>. QED
        BY <1>1, <2>1, FS_RemoveElement
<1>. SUFFICES ASSUME NEW t \in Nodes(sleeping)
              PROVE  asked[t] - sleepTicks[t] =
                        heard[t] + owedThen[t] - Cardinality(owing')
                          + (IF WalkedPast(t)' THEN 1 ELSE 0)
    BY <1>1 DEF TicksConserved
<1>3. WalkedPast(t)
    <2>1. Place(sleeping, t) \in 1 .. Len(sleeping) /\ cursor \in Nat
        BY PlaceOfNode DEF ClockInv, SchedInv, SchedTypeOK
    <2>. QED
        BY <1>1, <2>1 DEF WalkedPast
<1>4. ~WalkedPast(t)'
    BY <1>1, NotWalkedPastNext
<1>. QED
    BY <1>2, <1>3, <1>4, SleeperLaw

(* No step of the clock loses a tick or counts one twice. *)
LEMMA TicksConservedKept ==
    ASSUME ClockInv, SchedInv', ClockNext
    PROVE  TicksConserved'
<1>1. ASSUME NEW ms \in 1 .. MaxSleep, Sleep(ms) PROVE TicksConserved'
    BY <1>1, SleepKeepsTicks
<1>2. CASE Tick
    BY <1>2, TickKeepsTicks
<1>3. CASE Wake
    BY <1>3, WakeKeepsTicks
<1>4. CASE Other
    <2>1. UNCHANGED <<asked, heard, owedThen>>
        BY <1>4 DEF Other
    <2>2. CASE sys_yield \/ block_current \/ \E t \in Tasks : task_start(t) \/ unblock(t)
        <3>1. curr \notin owing /\ UNCHANGED <<sleeping, sleepTicks, owing, cursor>>
            BY <2>2 DEF sys_yield, block_current, task_start, unblock, TaskRuns, Interruptible
        <3>2. cursor = 1
            BY <3>1 DEF ClockInv, CursorHome
        <3>. QED
            BY <2>1, <3>1, <3>2, TicksKept
    <2>3. CASE walk_pass
        BY <2>1, <2>3, PassKeepsTicks
    <2>4. CASE walk_end
        BY <2>1, <2>4, WalkEndKeepsTicks
    <2>. QED
        BY <1>4, <2>2, <2>3, <2>4 DEF Other
<1>. QED
    BY <1>1, <1>2, <1>3, <1>4 DEF ClockNext

-----------------------------------------------------------------------------
(* The wait of a ready task. *)

LEMMA WaiterTypes ==
    ASSUME NEW q \in Seq(Tasks), Distinct(q), NEW sl \in [AllTasks -> 1 .. TIME_SLICE],
           NEW t \in Nodes(q)
    PROVE  /\ Cardinality(Tasks) \in Nat /\ TIME_SLICE \in Nat
           /\ Place(q, t) \in 1 .. Cardinality(Tasks) /\ q[Place(q, t)] = t
           /\ (Cardinality(Tasks) - Place(q, t)) * TIME_SLICE \in Nat
           /\ sl[q[1]] \in 1 .. TIME_SLICE
<1>1. Place(q, t) \in 1 .. Len(q) /\ q[Place(q, t)] = t
    BY PlaceOfNode
<1>2. /\ Cardinality(Tasks) \in Nat /\ TIME_SLICE \in Nat
      /\ Len(q) \in Nat /\ Len(q) <= Cardinality(Tasks)
    BY TasksAreFinite, DistinctIsShort, SchedAssumption
<1>3. Place(q, t) \in 1 .. Cardinality(Tasks)
    BY <1>1, <1>2
<1>4. \A a, b \in Nat : a * b \in Nat
    OBVIOUS
<1>5. Cardinality(Tasks) - Place(q, t) \in Nat
    BY <1>2, <1>3
<1>6. q[1] \in AllTasks
    BY <1>1, <1>2 DEF AllTasks
<1>. QED
    BY <1>1, <1>2, <1>3, <1>4, <1>5, <1>6

(* The count of a task whose wait is over, or has not begun, is in bounds. *)
LEMMA ZeroIsBounded ==
    ASSUME SchedInv', NEW t \in Tasks, waited'[t] = 0
    PROVE  WaiterBounded(t)'
<1>. SUFFICES ASSUME t \in Nodes(ready')
              PROVE  0 <= Passed(t)' + TIME_SLICE - slice'[ready'[1]]
    BY DEF WaiterBounded
<1>1. /\ ready' \in Seq(Tasks) /\ Distinct(ready')
      /\ slice' \in [AllTasks -> 1 .. TIME_SLICE]
    BY DEF SchedInv, SchedTypeOK, OnePlace
<1>2. /\ TIME_SLICE \in Nat /\ slice'[ready'[1]] \in 1 .. TIME_SLICE
      /\ Passed(t)' \in Nat
    BY <1>1, WaiterTypes DEF Passed
<1>. QED
    BY <1>2

(* What a step does to a count. *)
LEMMA WaitedStep ==
    ASSUME ClockInv, CountWaiting, NEW t \in Tasks
    PROVE  /\ waited[t] \in Nat /\ waited'[t] \in Nat
           /\ waited'[t] <= waited[t] + 1
           /\ waited'[t] # 0 => /\ t \in Nodes(ready') /\ t \in Nodes(ready)
                                /\ curr # t /\ curr' # t
           /\ ~task_time_tick => waited'[t] \in {0, waited[t]}
<1>1. waited[t] \in Nat
    BY DEF ClockInv, ClockTypeOK
<1>2. waited'[t] = IF t \in Nodes(ready') /\ t \in Nodes(ready) /\ curr # t /\ curr' # t
                   THEN IF task_time_tick THEN OneMore(waited[t], MaxWaited) ELSE waited[t]
                   ELSE 0
    BY DEF CountWaiting
<1>3. OneMore(waited[t], MaxWaited) \in {waited[t], waited[t] + 1}
    BY DEF OneMore
<1>. QED
    BY <1>1, <1>2, <1>3

(* A tick puts the current task in debt of a walk. *)
LEMMA TickLeavesDebt ==
    ASSUME task_time_tick
    PROVE  curr \notin owing /\ curr \in owing'
BY DEF task_time_tick, tick_in_slice, tick_slice_over, Interruptible

(* Steps between ticks at which nobody gives up the CPU. *)
LEMMA PlacesKept ==
    ASSUME ClockInv, SchedInv', CountWaiting, ~task_time_tick, slice' = slice,
           ready # <<>> => ready'[1] = ready[1],
           \A x \in Nodes(ready) : Place(ready', x) = Place(ready, x)
    PROVE  WaitersBounded'
<1>. SUFFICES ASSUME NEW t \in Tasks, waited'[t] # 0 PROVE WaiterBounded(t)'
    BY ZeroIsBounded DEF WaitersBounded
<1>1. /\ t \in Nodes(ready') /\ t \in Nodes(ready)
      /\ waited'[t] = waited[t]
    BY WaitedStep
<1>2. ready # <<>>
    BY <1>1, NodesOfSeq DEF ClockInv, SchedInv, SchedTypeOK
<1>3. WaiterBounded(t)
    BY DEF ClockInv, WaitersBounded
<1>4. Passed(t)' = Passed(t)
    BY <1>1 DEF Passed
<1>. QED
    BY <1>1, <1>2, <1>3, <1>4 DEF WaiterBounded

(* Steps that take the current task off the head of the ready list, between *)
(* ticks or at one: the others are a place, that is a slice, nearer.        *)
LEMMA HeadGivesWay ==
    ASSUME ClockInv, SchedInv', CountWaiting, Interruptible, curr # Idle,
           curr' = task_next_run(ready'),
           \/ ready' = list_remove(ready, curr)
           \/ ready' = list_insert_last(list_remove(ready, curr), curr)
    PROVE  WaitersBounded'
<1>. SUFFICES ASSUME NEW t \in Tasks, waited'[t] # 0 PROVE WaiterBounded(t)'
    BY ZeroIsBounded DEF WaitersBounded
<1>1. /\ t \in Nodes(ready') /\ t \in Nodes(ready) /\ curr # t /\ curr' # t
      /\ waited[t] \in Nat /\ waited'[t] \in Nat /\ waited'[t] <= waited[t] + 1
    BY WaitedStep
<1>2. /\ ready \in Seq(Tasks) /\ Distinct(ready) /\ slice \in [AllTasks -> 1 .. TIME_SLICE]
      /\ ready' \in Seq(Tasks) /\ Distinct(ready') /\ slice' \in [AllTasks -> 1 .. TIME_SLICE]
    BY DEF ClockInv, SchedInv, SchedTypeOK, OnePlace
<1>3. curr \in Tasks /\ curr \in Nodes(ready) /\ ready # <<>> /\ curr = ready[1]
    BY CurrOnReadyList DEF ClockInv
<1>4. /\ Place(ready, t) >= 2
      /\ Place(ready', t) = Place(ready, t) - 1
    <2>1. /\ t \in Nodes(list_remove(ready, curr))
          /\ Place(list_remove(ready, curr), t) = Place(ready, t) - 1
          /\ Place(ready, t) >= 2
        BY <1>1, <1>2, <1>3, MoveUp
    <2>2. /\ list_remove(ready, curr) \in Seq(Tasks) /\ Distinct(list_remove(ready, curr))
          /\ curr \notin Nodes(list_remove(ready, curr))
        BY <1>2, <1>3, RemoveNode
    <2>3. Place(list_insert_last(list_remove(ready, curr), curr), t)
            = Place(list_remove(ready, curr), t)
        BY <1>3, <2>1, <2>2, InsertKeepsPlace
    <2>. QED
        BY <2>1, <2>3
<1>5. /\ Place(ready', t) # 1 /\ Place(ready', t) > 1
    <2>1. Place(ready', t) \in 1 .. Len(ready') /\ ready'[Place(ready', t)] = t
        BY <1>1, <1>2, PlaceOfNode
    <2>2. ready' # <<>> /\ ready'[1] = curr'
        BY <1>1, <1>2, NodesOfSeq DEF task_next_run, list_first
    <2>. QED
        BY <1>1, <2>1, <2>2
<1>6. PICK N \in Nat, d \in Nat \ {0}, p \in Nat, s \in Nat \ {0}, sn \in Nat \ {0} :
         /\ N = Cardinality(Tasks) /\ d = TIME_SLICE /\ p = Place(ready, t)
         /\ s = slice[ready[1]] /\ sn = slice'[ready'[1]] /\ s <= d /\ sn <= d
    <2>1. /\ Cardinality(Tasks) \in Nat /\ Place(ready, t) \in Nat
          /\ slice[ready[1]] \in 1 .. TIME_SLICE
        <3>1. /\ Cardinality(Tasks) \in Nat
              /\ Place(ready, t) \in 1 .. Cardinality(Tasks)
              /\ slice[ready[1]] \in 1 .. TIME_SLICE
            BY <1>1, <1>2, WaiterTypes
        <3>. QED
            BY <3>1
    <2>2. slice'[ready'[1]] \in 1 .. TIME_SLICE
        BY <1>1, <1>2, WaiterTypes
    <2>. QED
        BY <2>1, <2>2, SchedAssumption
<1>7. waited[t] <= (N - p) * d + d - s
    <2>1. WaiterBounded(t)
        BY DEF ClockInv, WaitersBounded
    <2>. QED
        BY <1>1, <1>4, <1>6, <2>1 DEF WaiterBounded, Passed
<1>8. waited'[t] <= (N - (p - 1)) * d + d - sn
    <2>1. PICK x \in Int : x = (N - p) * d
        BY <1>6
    <2>2. (N - (p - 1)) * d = x + d
        BY <1>6, <2>1
    <2>3. waited[t] <= x + d - s
        BY <1>7, <2>1
    <2>4. waited'[t] <= x + d + d - sn
        BY <1>1, <1>6, <2>3
    <2>. QED
        BY <2>2, <2>4
<1>9. Passed(t)' = (N - (p - 1)) * d
    BY <1>4, <1>6 DEF Passed
<1>. QED
    BY <1>1, <1>5, <1>6, <1>8, <1>9 DEF WaiterBounded

(* A tick of a slice that goes on. *)
LEMMA TickInSliceWaits ==
    ASSUME ClockInv, SchedInv', CountWaiting, tick_in_slice
    PROVE  WaitersBounded'
<1>. SUFFICES ASSUME NEW t \in Tasks, waited'[t] # 0 PROVE WaiterBounded(t)'
    BY ZeroIsBounded DEF WaitersBounded
<1>1. /\ t \in Nodes(ready) /\ curr # t
      /\ waited[t] \in Nat /\ waited'[t] \in Nat /\ waited'[t] <= waited[t] + 1
    BY WaitedStep
<1>2. /\ Interruptible /\ ready' = ready
      /\ slice' = [slice EXCEPT ![curr] = @ - 1]
    BY DEF tick_in_slice
<1>3. /\ ready \in Seq(Tasks) /\ Distinct(ready) /\ slice \in [AllTasks -> 1 .. TIME_SLICE]
    BY DEF ClockInv, SchedInv, SchedTypeOK, OnePlace
<1>4. curr \in Tasks /\ curr = ready[1]
    <2>1. ready # <<>>
        BY <1>1, <1>3, NodesOfSeq
    <2>. QED
        BY <1>2, <2>1, CurrOnReadyList, IdleMeansNobodyReady DEF ClockInv
<1>5. Place(ready, t) > 1 /\ Passed(t) \in Nat /\ slice[ready[1]] \in 1 .. TIME_SLICE
    BY <1>1, <1>3, <1>4, WaiterTypes DEF Passed
<1>6. slice'[ready[1]] = slice[ready[1]] - 1
    BY <1>2, <1>3, <1>4 DEF AllTasks
<1>7. waited[t] <= Passed(t) + TIME_SLICE - slice[ready[1]]
    BY <1>1, <1>5 DEF ClockInv, WaitersBounded, WaiterBounded
<1>8. Passed(t)' = Passed(t)
    BY <1>2 DEF Passed
<1>. QED
    BY <1>1, <1>2, <1>5, <1>6, <1>7, <1>8, SchedAssumption DEF WaiterBounded

(* No step of the clock makes a task wait beyond its bound. *)
LEMMA WaitersBoundedKept ==
    ASSUME ClockInv, SchedInv', ClockNext
    PROVE  WaitersBounded'
<1>1. CountWaiting /\ SchedInv
    BY DEF ClockNext, ClockInv
<1>2. ASSUME NEW t \in Tasks, task_start(t) \/ unblock(t) PROVE WaitersBounded'
    <2>1. /\ ready' = task_set_ready(ready, t) /\ t \notin Nodes(ready)
          /\ slice' = slice /\ owing' = owing
        BY <1>1, <1>2 DEF task_start, unblock, Blocked, task_dispatch, SchedInv, OnePlace
    <2>. QED
        BY <1>1, <2>1, MakeReady, TickLeavesDebt, PlacesKept
<1>3. CASE sys_yield \/ tick_slice_over
    <2>1. /\ Interruptible
          /\ ready' = task_set_ready(task_set_block(ready, curr), curr)
          /\ curr' = task_next_run(ready')
        BY <1>3 DEF sys_yield, tick_slice_over, TaskRuns, task_dispatch
    <2>2. CASE curr # Idle
        BY <1>1, <2>1, <2>2, HeadGivesWay DEF task_set_ready, task_set_block
    <2>3. CASE curr = Idle
        <3>1. Nodes(ready) = {}
            BY <1>1, <2>1, <2>3, IdleMeansNobodyReady, NodesOfSeq DEF SchedInv, SchedTypeOK
        <3>2. \A t \in Tasks : waited'[t] = 0
            BY <1>1, <3>1, WaitedStep
        <3>. QED
            BY <3>2, ZeroIsBounded DEF WaitersBounded
    <2>. QED
        BY <2>2, <2>3
<1>4. CASE block_current \/ \E ms \in 1 .. MaxSleep : sys_sleep(ms)
    <2>1. /\ Interruptible /\ curr # Idle
          /\ ready' = task_set_block(ready, curr)
          /\ curr' = task_next_run(ready')
        BY <1>4, SleepRoundsUp, SchedAssumption
        DEF block_current, sys_sleep, TaskRuns, task_dispatch
    <2>. QED
        BY <1>1, <2>1, HeadGivesWay DEF task_set_block
<1>5. CASE tick_in_slice
    BY <1>1, <1>5, TickInSliceWaits
<1>6. CASE walk_pass \/ walk_end
    <2>1. ready' = ready /\ slice' = slice /\ curr \in owing
        BY <1>6 DEF walk_pass, walk_end, Walking, task_dispatch
    <2>. QED
        BY <1>1, <2>1, TickLeavesDebt, PlacesKept
<1>7. CASE walk_wake
    <2>1. /\ Walking /\ curr \in owing /\ slice' = slice
          /\ ready' = task_set_ready(ready, sleeping[cursor])
        BY <1>7 DEF walk_wake, Walking
    <2>2. sleeping[cursor] \in Tasks /\ sleeping[cursor] \notin Nodes(ready)
        BY <1>1, <2>1, AtCursor
    <2>. QED
        BY <1>1, <2>1, <2>2, MakeReady, TickLeavesDebt, PlacesKept
<1>. QED
    BY <1>2, <1>3, <1>4, <1>5, <1>6, <1>7
    DEF ClockNext, Sleep, Tick, Wake, Other, task_time_tick

-----------------------------------------------------------------------------

(* Every step of the clock is a step of the scheduler. *)
LEMMA ClockStepsAreSchedSteps == ClockNext => SchedNext
BY DEF ClockNext, SchedNext, Sleep, Tick, Wake, Other, walk

LEMMA ClockInitInv == ClockInit => ClockInv
<1>. SUFFICES ASSUME ClockInit PROVE ClockInv
    OBVIOUS
<1>1. SchedInv
    BY SchedInitInv DEF ClockInit
<1>2. sleep_ticks_of(MaxSleep) \in Nat
    BY SleepRoundsUp, SchedAssumption
<1>3. ClockTypeOK
    BY <1>2 DEF ClockInit, ClockTypeOK
<1>4. CursorHome
    BY DEF ClockInit, SchedInit, CursorHome
<1>5. TicksConserved
    BY DEF ClockInit, SchedInit, TicksConserved, Nodes
<1>6. WaitersBounded
    <2>1. ready \in Seq(Tasks) /\ Len(ready) = 1
        BY SchedAssumption DEF ClockInit, SchedInit
    <2>2. \A t \in Nodes(ready) : ~(Place(ready, t) > 1)
        BY <2>1, PlaceOfNode
    <2>3. \A t \in Tasks : waited[t] = 0
        BY DEF ClockInit
    <2>. QED
        BY <2>2, <2>3 DEF WaitersBounded, WaiterBounded
<1>. QED
    BY <1>1, <1>3, <1>4, <1>5, <1>6 DEF ClockInv

LEMMA ClockTypeKept ==
    ASSUME ClockInv, ClockNext
    PROVE  ClockTypeOK'
<1>1. ClockTypeOK /\ SchedInv /\ CountWaiting
    BY DEF ClockInv, ClockNext
<1>2. waited' \in [Tasks -> Nat]
    <2>1. \A t \in Tasks : waited'[t] \in Nat
        BY <1>1, WaitedStep
    <2>2. waited' = [t \in Tasks |-> waited'[t]]
        BY <1>1 DEF CountWaiting
    <2>. QED
        BY <2>1, <2>2
<1>3. Cardinality(owing) \in Nat /\ 0 \in 0 .. sleep_ticks_of(MaxSleep)
    BY <1>1, TasksAreFinite, SleepRoundsUp, SchedAssumption DEF SchedInv, SchedTypeOK
<1>4. ASSUME NEW ms \in 1 .. MaxSleep, Sleep(ms)
      PROVE  /\ asked' \in [Tasks -> 0 .. sleep_ticks_of(MaxSleep)]
             /\ heard' \in [Tasks -> Nat] /\ owedThen' \in [Tasks -> Nat]
    BY <1>1, <1>3, <1>4, SleepIsBounded DEF Sleep, ClockTypeOK
<1>5. CASE Tick
    <2>1. \A t \in Tasks : OneMore(heard[t], MaxHeard) \in Nat
        BY <1>1 DEF OneMore, ClockTypeOK
    <2>. QED
        BY <1>1, <1>2, <1>5, <2>1 DEF Tick, ClockTypeOK
<1>6. CASE Wake
    BY <1>1, <1>2, <1>3, <1>6 DEF Wake, ClockTypeOK
<1>7. CASE Other
    BY <1>1, <1>2, <1>7 DEF Other, ClockTypeOK
<1>. QED
    BY <1>2, <1>4, <1>5, <1>6, <1>7 DEF ClockNext, ClockTypeOK

LEMMA CursorHomeKept ==
    ASSUME ClockInv, SchedNext
    PROVE  CursorHome'
<1>1. CASE walk_end
    BY <1>1 DEF walk_end, CursorHome
<1>2. CASE walk_pass \/ walk_wake
    BY <1>2 DEF walk_pass, walk_wake, Walking, CursorHome
<1>3. CASE UNCHANGED cursor /\ Interruptible
    BY <1>3 DEF ClockInv, CursorHome, Interruptible
<1>. QED
    BY <1>1, <1>2, <1>3
    DEF SchedNext, walk, task_start, sys_yield, sys_sleep, block_current, unblock,
        task_time_tick, tick_in_slice, tick_slice_over, TaskRuns

LEMMA ClockNextInv == ClockInv /\ [ClockNext]_<<schedVars, clockVars>> => ClockInv'
<1>. SUFFICES ASSUME ClockInv, [ClockNext]_<<schedVars, clockVars>> PROVE ClockInv'
    OBVIOUS
<1>1. CASE ClockNext
    <2>1. SchedNext /\ SchedInv'
        BY <1>1, ClockStepsAreSchedSteps, SchedNextInv DEF ClockInv
    <2>. QED
        BY <1>1, <2>1, ClockTypeKept, CursorHomeKept, TicksConservedKept, WaitersBoundedKept
        DEF ClockInv
<1>2. CASE UNCHANGED <<schedVars, clockVars>>
    <2>1. SchedInv'
        BY <1>2, SchedNextInv DEF ClockInv
    <2>2. ClockTypeOK' /\ CursorHome'
        BY <1>2 DEF ClockInv, ClockTypeOK, CursorHome, schedVars, clockVars
    <2>3. TicksConserved'
        BY <1>2 DEF ClockInv, TicksConserved, WalkedPast, schedVars, clockVars
    <2>4. WaitersBounded'
        BY <1>2 DEF ClockInv, WaitersBounded, WaiterBounded, Passed, schedVars, clockVars
    <2>. QED
        BY <2>1, <2>2, <2>3, <2>4 DEF ClockInv
<1>. QED
    BY <1>1, <1>2

(* The inductive invariant of the scheduler with its clock. *)
THEOREM ClockSafe == ClockSpec => []ClockInv
BY ClockInitInv, ClockNextInv, PTL DEF ClockSpec

(* No tick of a sleep is lost or counted twice, however many walks preempted *)
(* tasks owe and in whatever order they make them up.                        *)
THEOREM TicksAreConserved == ClockSpec => []TicksConserved
<1>1. ClockInv => TicksConserved
    BY DEF ClockInv
<1>. QED
    BY <1>1, ClockSafe, PTL

(* A ready task never waits longer than the slices of all the others. *)
THEOREM WaitsAreBounded == ClockSpec => []WaitIsBounded
<1>1. ClockInv => WaitIsBounded
    <2>. SUFFICES ASSUME ClockInv, NEW t \in Tasks
                  PROVE  waited[t] <= (Cardinality(Tasks) - 1) * TIME_SLICE
        BY DEF WaitIsBounded
    <2>1. WaiterBounded(t) /\ Cardinality(Tasks) \in Nat /\ waited[t] \in Nat
        BY TasksAreFinite DEF ClockInv, WaitersBounded, ClockTypeOK
    <2>2. CASE t \in Nodes(ready) /\ Place(ready, t) > 1
        <3>1. /\ ready \in Seq(Tasks) /\ Distinct(ready)
              /\ slice \in [AllTasks -> 1 .. TIME_SLICE]
            BY DEF ClockInv, SchedInv, SchedTypeOK, OnePlace
        <3>2. PICK N \in Nat, d \in Nat, p \in Nat, s \in Nat :
                 /\ N = Cardinality(Tasks) /\ d = TIME_SLICE /\ p = Place(ready, t)
                 /\ s = slice[ready[1]] /\ p >= 2
            BY <2>2, <3>1, WaiterTypes
        <3>3. waited[t] <= (N - p) * d + d - s
            BY <2>1, <2>2, <3>2 DEF WaiterBounded, Passed
        <3>4. (N - p) * d + d <= (N - 1) * d
            <4>1. (N - 1) * d = (N - p) * d + (p - 1) * d
                BY <3>2
            <4>2. (p - 1) * d >= d
                BY <3>2
            <4>. QED
                BY <3>2, <4>1, <4>2
        <3>. QED
            BY <2>1, <3>2, <3>3, <3>4
    <2>3. CASE ~(t \in Nodes(ready) /\ Place(ready, t) > 1)
        <3>1. Cardinality(Tasks) - 1 \in Nat
            <4>1. Cardinality(Tasks) # 0
                BY ClockAssumption, FS_EmptySet
            <4>. QED
                BY <2>1, <4>1
        <3>2. \A a, b \in Nat : a * b >= 0
            OBVIOUS
        <3>. QED
            BY <2>1, <2>3, <3>1, <3>2, SchedAssumption DEF WaiterBounded
    <2>. QED
        BY <2>2, <2>3
<1>. QED
    BY <1>1, ClockSafe, PTL

(* A task is woken in the tick its sleep asks for, counted with the walks that *)
(* were owed when it went to sleep, or later by the walks owed now, one for    *)
(* each other task at most.                                                   *)
SleepLasts ==
    [][\A t \in Nodes(sleeping) : t \notin Nodes(sleeping') =>
          heard[t] + owedThen[t] \in asked[t] .. asked[t] + Cardinality(Tasks) - 1
      ]_<<schedVars, clockVars>>

(* How long a sleep lasts follows from the conservation of ticks: only the     *)
(* walk ends a sleep, at a count of one, and it is one of the walks owed.      *)
THEOREM SleepsLast == ClockSpec => SleepLasts
<1>. DEFINE Lasts == \A t \in Nodes(sleeping) : t \notin Nodes(sleeping') =>
                        heard[t] + owedThen[t] \in asked[t] .. asked[t] + Cardinality(Tasks) - 1
<1>1. ASSUME ClockInv, ClockNext PROVE Lasts
    <2>. SUFFICES ASSUME NEW t \in Nodes(sleeping), t \notin Nodes(sleeping')
                  PROVE  heard[t] + owedThen[t]
                            \in asked[t] .. asked[t] + Cardinality(Tasks) - 1
        OBVIOUS
    <2>1. sleeping \in Seq(Tasks) /\ Distinct(sleeping) /\ owing \subseteq AllTasks
        BY <1>1 DEF ClockInv, SchedInv, SchedTypeOK, OnePlace
    <2>2. /\ Walking /\ curr \in owing
          /\ sleepTicks[sleeping[cursor]] = 1
          /\ sleeping' = list_remove(sleeping, sleeping[cursor])
        <3>1. ~(\E ms \in 1 .. MaxSleep : Sleep(ms))
            <4>. SUFFICES ASSUME NEW ms \in 1 .. MaxSleep, Sleep(ms) PROVE FALSE
                OBVIOUS
            <4>1. curr \in Tasks /\ sleeping' = list_insert_last(sleeping, curr)
                BY SleepRoundsUp DEF Sleep, sys_sleep, TaskRuns
            <4>. QED
                BY <2>1, <4>1, InsertLast
        <3>2. CASE sleeping' = sleeping
            BY <3>2
        <3>3. CASE Wake
            BY <3>3 DEF Wake, walk_wake, Walking
        <3>. QED
            BY <1>1, <3>1, <3>2, <3>3
            DEF ClockNext, Tick, Other, task_time_tick, tick_in_slice, tick_slice_over,
                task_start, sys_yield, block_current, unblock, walk_pass, walk_end
    <2>3. t = sleeping[cursor]
        <3>1. sleeping[cursor] \in Nodes(sleeping)
            BY <1>1, <2>2, AtCursor DEF ClockInv
        <3>. QED
            BY <2>1, <2>2, <3>1, RemoveNode
    <2>4. ~WalkedPast(t)
        <3>1. cursor \in 1 .. Len(sleeping)
            BY <1>1, <2>2 DEF ClockInv, SchedInv, SchedTypeOK, Walking
        <3>2. Place(sleeping, t) = cursor
            BY <2>1, <2>3, <3>1, PlaceIsUnique
        <3>. QED
            BY <3>1, <3>2 DEF WalkedPast
    <2>5. Cardinality(owing) \in 1 .. Cardinality(Tasks)
        <3>1. t \in Tasks /\ t \notin owing
            BY <1>1, <2>1, NodesOfSeq, SchedAssumption
            DEF ClockInv, SchedInv, OnePlace, OwingIsReady
        <3>2. owing \subseteq (Tasks \ {t}) \cup {Idle}
            BY <2>1, <3>1 DEF AllTasks
        <3>3. /\ IsFiniteSet((Tasks \ {t}) \cup {Idle})
              /\ Cardinality((Tasks \ {t}) \cup {Idle}) = Cardinality(Tasks)
            <4>1. /\ IsFiniteSet(Tasks \ {t})
                  /\ Cardinality(Tasks \ {t}) = Cardinality(Tasks) - 1
                BY <3>1, ClockAssumption, FS_RemoveElement
            <4>2. Idle \notin Tasks \ {t} /\ Cardinality(Tasks) \in Nat
                BY SchedAssumption, TasksAreFinite
            <4>3. /\ IsFiniteSet((Tasks \ {t}) \cup {Idle})
                  /\ Cardinality((Tasks \ {t}) \cup {Idle}) = Cardinality(Tasks \ {t}) + 1
                BY <4>1, <4>2, FS_AddElement, Zenon
            <4>. QED
                BY <4>1, <4>2, <4>3
        <3>4. Cardinality(owing) <= Cardinality(Tasks)
            BY <3>2, <3>3, FS_Subset
        <3>5. Cardinality(owing) \in Nat /\ Cardinality(owing) # 0
            BY <2>1, <2>2, TasksAreFinite, FS_EmptySet
        <3>. QED
            BY <3>4, <3>5, TasksAreFinite
    <2>6. /\ asked[t] - 1 = heard[t] + owedThen[t] - Cardinality(owing)
          /\ asked[t] \in Nat /\ heard[t] \in Nat /\ owedThen[t] \in Nat
        BY <1>1, <2>2, <2>3, <2>4, SleeperLaw
    <2>. QED
        BY <2>5, <2>6, TasksAreFinite
<1>2. ClockInv /\ [ClockNext]_<<schedVars, clockVars>> => [Lasts]_<<schedVars, clockVars>>
    BY <1>1
<1>. QED
    BY <1>2, ClockSafe, PTL DEF ClockSpec, SleepLasts

-----------------------------------------------------------------------------
(***************************************************************************)
(* Semaphores and mutexes.  Every step of KernelSync is a step of Sched,   *)
(* so the scheduler's invariant carries over; but a waiter can only be     *)
(* made ready because it is on neither of the scheduler's lists, which is  *)
(* what EveryTaskHasItsPlace says.  So the two invariants are proved       *)
(* together.  The processes of TaskLife need an invariant of their own,    *)
(* since a parent waits for a child on no list at all: it is below, under  *)
(* Processes.                                                              *)
(***************************************************************************)

SyncInv ==
    /\ SyncTypeOK
    /\ EveryTaskHasItsPlace
    /\ NoTokenBesideAWaiter
    /\ OwnerHolds

Started == {t \in Tasks : state[t] # "CREATED"}

-----------------------------------------------------------------------------
(* What the scheduler's actions do to the set of blocked tasks. *)

(* A dispatch starts no task. *)
LEMMA DispatchStarted ==
    ASSUME NEW q \in Seq(Tasks), NEW st \in [AllTasks -> TaskState],
           \A t \in Nodes(q) : st[t] # "CREATED",
           task_dispatch(q, st)
    PROVE  /\ ready' = q
           /\ Started' = {t \in Tasks : st[t] # "CREATED"}
<1>1. CASE q = <<>>
    <2>1. ready' = q /\ (state' = st \/ state' = [st EXCEPT ![Idle] = "RUNNING"])
        BY <1>1 DEF task_dispatch, task_next_run
    <2>2. \A t \in Tasks : state'[t] = st[t]
        BY <2>1, SchedAssumption DEF AllTasks
    <2>. QED
        BY <2>1, <2>2 DEF Started
<1>2. CASE q # <<>>
    <2>1. ready' = q /\ (state' = st \/ state' = [st EXCEPT ![q[1]] = "RUNNING"])
        BY <1>2 DEF task_dispatch, task_next_run, list_first
    <2>2. q[1] \in Tasks /\ st[q[1]] # "CREATED"
        <3>1. 1 \in 1 .. Len(q)
            BY <1>2
        <3>. QED
            BY <3>1, NodesOfSeq
    <2>3. \A t \in Tasks : state'[t] # "CREATED" <=> st[t] # "CREATED"
        BY <2>1, <2>2 DEF AllTasks
    <2>. QED
        BY <2>1, <2>3 DEF Started
<1>. QED
    BY <1>1, <1>2

LEMMA BlockedDef == Blocked = Started \ (Nodes(ready) \cup Nodes(sleeping))
    BY DEF Blocked, Started

(* block_current adds the current task to the blocked ones. *)
LEMMA BlockCurrentBlocks ==
    ASSUME SchedInv, block_current
    PROVE  /\ curr \in Tasks
           /\ curr \notin Blocked
           /\ Blocked' = Blocked \cup {curr}
<1>1. TaskRuns /\ task_dispatch(task_set_block(ready, curr), state) /\ sleeping' = sleeping
    BY DEF block_current
<1>2. /\ curr \in Tasks /\ curr \in Nodes(ready)
      /\ task_set_block(ready, curr) \in Seq(Tasks)
      /\ Nodes(task_set_block(ready, curr)) = Nodes(ready) \ {curr}
    BY <1>1, BlockCurrent
<1>3. /\ state \in [AllTasks -> TaskState]
      /\ \A t \in Nodes(ready) : state[t] # "CREATED"
      /\ Nodes(ready) \cap Nodes(sleeping) = {}
    BY DEF SchedInv, SchedTypeOK, OnePlace
<1>4. ready' = task_set_block(ready, curr) /\ Started' = Started
    BY <1>1, <1>2, <1>3, DispatchStarted DEF Started
<1>5. Nodes(ready') = Nodes(ready) \ {curr} /\ Nodes(sleeping') = Nodes(sleeping)
    BY <1>1, <1>2, <1>4
<1>6. curr \in Started /\ curr \notin Nodes(sleeping)
    BY <1>2, <1>3 DEF Started
<1>. QED
    BY <1>2, <1>4, <1>5, <1>6 DEF Blocked, Started

(* unblock takes the task it is given out of the blocked ones. *)
LEMMA UnblockUnblocks ==
    ASSUME SchedInv, NEW x \in Tasks, unblock(x)
    PROVE  Blocked' = Blocked \ {x}
<1>. DEFINE q == task_set_ready(ready, x)
            st == set_ready_state(state, x)
<1>1. /\ x \in Blocked
      /\ task_dispatch(q, st)
      /\ sleeping' = sleeping
    BY DEF unblock
<1>2. x \notin Nodes(ready) /\ x \in Started /\ x # Idle
    BY <1>1, SchedAssumption DEF Blocked, Started
<1>3. q \in Seq(Tasks) /\ Nodes(q) = Nodes(ready) \cup {x}
    BY <1>2, MakeReady
<1>4. st = [state EXCEPT ![x] = "READY"]
    BY <1>2 DEF set_ready_state
<1>5. state \in [AllTasks -> TaskState] /\ \A t \in Nodes(ready) : t \in Tasks /\ state[t] # "CREATED"
    BY NodesOfSeq DEF SchedInv, SchedTypeOK, OnePlace
<1>6. /\ st \in [AllTasks -> TaskState]
      /\ \A t \in Tasks : st[t] # "CREATED" <=> state[t] # "CREATED"
    BY <1>2, <1>4, <1>5 DEF Started, TaskState, AllTasks
<1>7. \A t \in Nodes(q) : st[t] # "CREATED"
    BY <1>2, <1>3, <1>5, <1>6 DEF Started
<1>. HIDE DEF q, st
<1>8. ready' = q /\ Started' = {t \in Tasks : st[t] # "CREATED"}
    BY <1>1, <1>3, <1>6, <1>7, DispatchStarted
<1>9. Started' = Started
    BY <1>6, <1>8 DEF Started
<1>. QED
    BY <1>1, <1>3, <1>8, <1>9 DEF Blocked, Started

(* Nothing else the scheduler does blocks or unblocks a task. *)
LEMMA SchedStepBlocks ==
    ASSUME SchedInv, SchedStep
    PROVE  Blocked' = Blocked
<1>1. /\ state \in [AllTasks -> TaskState]
      /\ ready \in Seq(Tasks) /\ sleeping \in Seq(Tasks)
      /\ \A t \in Nodes(ready) : t \in Tasks /\ state[t] # "CREATED"
      /\ Distinct(sleeping)
    BY NodesOfSeq DEF SchedInv, SchedTypeOK, OnePlace
<1>2. ASSUME NEW t \in Tasks, task_start(t) PROVE Blocked' = Blocked
    <2>1. /\ state[t] = "CREATED" /\ sleeping' = sleeping
          /\ ready' = task_set_ready(ready, t)
          /\ state' = [state EXCEPT ![t] = "READY"]
        BY <1>2, SchedAssumption DEF task_start, set_ready_state
    <2>2. t \notin Nodes(ready)
        BY <1>1, <2>1
    <2>3. Nodes(ready') = Nodes(ready) \cup {t}
        BY <2>1, <2>2, MakeReady
    <2>4. Started' = Started \cup {t}
        BY <1>1, <2>1 DEF Started, AllTasks
    <2>5. t \notin Started
        BY <2>1 DEF Started
    <2>. QED
        BY <2>1, <2>3, <2>4, <2>5, BlockedDef DEF Blocked, Started
<1>3. CASE sys_yield \/ tick_slice_over
    <2>. DEFINE q == task_set_ready(task_set_block(ready, curr), curr)
                st == set_ready_state(state, curr)
    <2>1. Interruptible /\ task_dispatch(q, st) /\ sleeping' = sleeping
        BY <1>3 DEF sys_yield, tick_slice_over, TaskRuns
    <2>2. q \in Seq(Tasks) /\ Nodes(q) = Nodes(ready)
        BY <2>1, Rotate
    <2>3. curr \in AllTasks /\ (curr # Idle => curr \in Nodes(ready))
        BY <2>1, CurrOnReadyList DEF SchedInv, SchedTypeOK
    <2>4. /\ st \in [AllTasks -> TaskState]
          /\ \A t \in Tasks : st[t] # "CREATED" <=> state[t] # "CREATED"
        BY <1>1, <2>3 DEF set_ready_state, TaskState, AllTasks
    <2>. HIDE DEF q, st
    <2>5. ready' = q /\ Started' = {t \in Tasks : st[t] # "CREATED"}
        BY <1>1, <2>1, <2>2, <2>4, DispatchStarted
    <2>6. Started' = Started
        BY <2>4, <2>5 DEF Started
    <2>. QED
        BY <2>1, <2>2, <2>5, <2>6 DEF Blocked, Started
<1>4. ASSUME NEW ms \in 1 .. MaxSleep, sys_sleep(ms) PROVE Blocked' = Blocked
    <2>. DEFINE q == task_set_block(ready, curr)
                st == [state EXCEPT ![curr] = "SLEEP"]
    <2>1. TaskRuns /\ task_dispatch(q, st) /\ sleeping' = list_insert_last(sleeping, curr)
        BY <1>4, SleepRoundsUp DEF sys_sleep
    <2>2. /\ curr \in Tasks /\ curr \in Nodes(ready)
          /\ q \in Seq(Tasks) /\ Nodes(q) = Nodes(ready) \ {curr}
        BY <2>1, BlockCurrent
    <2>3. Nodes(sleeping') = Nodes(sleeping) \cup {curr}
        <3>1. sleeping \in Seq(Tasks) /\ curr \in Tasks
            BY <1>1, <2>2
        <3>2. Nodes(list_insert_last(sleeping, curr)) = Nodes(sleeping) \cup {curr}
            BY <3>1, InsertLast
        <3>. QED
            BY <2>1, <3>2
    <2>4. /\ st \in [AllTasks -> TaskState]
          /\ \A t \in Tasks : st[t] # "CREATED" <=> state[t] # "CREATED"
        BY <1>1, <2>2 DEF TaskState, AllTasks
    <2>. HIDE DEF q, st
    <2>5. ready' = q /\ Started' = {t \in Tasks : st[t] # "CREATED"}
        BY <1>1, <2>1, <2>2, <2>4, DispatchStarted
    <2>6. Started' = Started
        BY <2>4, <2>5 DEF Started
    <2>7. Nodes(ready') \cup Nodes(sleeping') = Nodes(ready) \cup Nodes(sleeping)
        BY <2>2, <2>3, <2>5
    <2>. QED
        BY <2>6, <2>7 DEF Blocked, Started
<1>5. CASE tick_in_slice \/ walk_pass
    BY <1>5 DEF tick_in_slice, walk_pass, Blocked
<1>6. CASE walk_wake
    <2>. DEFINE x == sleeping[cursor]
    <2>1. /\ Walking
          /\ sleeping' = list_remove(sleeping, x)
          /\ ready' = task_set_ready(ready, x)
          /\ state' = set_ready_state(state, x)
        BY <1>6 DEF walk_wake
    <2>2. /\ x \in Tasks /\ x \in Nodes(sleeping) /\ x \notin Nodes(ready)
          /\ state[x] # "CREATED" /\ x # Idle
        BY <2>1, AtCursor, SchedAssumption
    <2>. HIDE DEF x
    <2>3. Nodes(ready') = Nodes(ready) \cup {x}
        BY <2>1, <2>2, MakeReady
    <2>4. Nodes(sleeping') = Nodes(sleeping) \ {x}
        BY <1>1, <2>1, <2>2, RemoveNode
    <2>5. Started' = Started
        <3>1. state' = [state EXCEPT ![x] = "READY"]
            BY <2>1, <2>2 DEF set_ready_state
        <3>. QED
            BY <3>1, <1>1, <2>2 DEF Started, AllTasks
    <2>6. Nodes(ready') \cup Nodes(sleeping') = Nodes(ready) \cup Nodes(sleeping)
        BY <2>2, <2>3, <2>4
    <2>. QED
        BY <2>5, <2>6 DEF Blocked, Started
<1>7. CASE walk_end
    <2>1. task_dispatch(ready, state) /\ sleeping' = sleeping
        BY <1>7 DEF walk_end
    <2>2. ready' = ready /\ Started' = Started
        BY <1>1, <2>1, DispatchStarted DEF Started
    <2>. QED
        BY <2>1, <2>2 DEF Blocked, Started
<1>. QED
    BY <1>2, <1>3, <1>4, <1>5, <1>6, <1>7 DEF SchedStep, task_time_tick, walk

-----------------------------------------------------------------------------
(* Every step is a step of the scheduler. *)

LEMMA FirstWaiter ==
    ASSUME SyncInv, NEW w \in Waitables, waitList[w] # <<>>
    PROVE  /\ list_first(waitList[w]) \in Tasks
           /\ list_first(waitList[w]) \in Nodes(waitList[w])
           /\ list_first(waitList[w]) \in Blocked
<1>1. waitList[w] \in Seq(Tasks) /\ Distinct(waitList[w])
    BY DEF SyncInv, SyncTypeOK, EveryTaskHasItsPlace
<1>2. list_first(waitList[w]) \in Nodes(waitList[w])
    BY <1>1, RemoveFirst
<1>3. Nodes(waitList[w]) \subseteq Tasks
    BY <1>1, NodesOfSeq
<1>4. \A t \in Tasks : t \in Nodes(waitList[w]) => t \in Blocked
    BY DEF SyncInv, EveryTaskHasItsPlace
<1>. QED
    BY <1>2, <1>3, <1>4

LEMMA SyncStepSchedules ==
    ASSUME SyncInv, [SyncNext]_vars
    PROVE  [SchedNext]_schedVars
<1>1. CASE SchedStep
    BY <1>1 DEF SchedStep, SchedNext
<1>2. ASSUME NEW s \in Sems, sem_wait(s) PROVE [SchedNext]_schedVars
    BY <1>2 DEF sem_wait, sem_wait_takes, sem_wait_blocks, wait_on, SchedNext
<1>3. ASSUME NEW s \in Sems, sem_notify(s) PROVE [SchedNext]_schedVars
    <2>1. CASE sem_notify_wakes(s)
        <3>1. waitList[s] # <<>> /\ unblock(list_first(waitList[s]))
            BY <2>1 DEF sem_notify_wakes, wake_first
        <3>2. list_first(waitList[s]) \in Tasks
            BY <3>1, FirstWaiter DEF Waitables
        <3>. QED
            BY <3>1, <3>2 DEF SchedNext
    <2>2. CASE sem_notify_counts(s)
        BY <2>2 DEF sem_notify_counts
    <2>. QED
        BY <1>3, <2>1, <2>2 DEF sem_notify
<1>4. ASSUME NEW m \in Mutexes, mutex_lock(m) PROVE [SchedNext]_schedVars
    BY <1>4 DEF mutex_lock, mutex_lock_free, mutex_lock_again, mutex_lock_blocks,
                wait_on, SchedNext
<1>5. ASSUME NEW m \in Mutexes, mutex_unlock(m) PROVE [SchedNext]_schedVars
    <2>1. CASE mutex_unlock_hands_over(m)
        <3>1. waitList[m] # <<>> /\ unblock(list_first(waitList[m]))
            BY <2>1 DEF mutex_unlock_hands_over, wake_first
        <3>2. list_first(waitList[m]) \in Tasks
            BY <3>1, FirstWaiter DEF Waitables
        <3>. QED
            BY <3>1, <3>2 DEF SchedNext
    <2>2. CASE mutex_unlock_inner(m) \/ mutex_unlock_frees(m)
        BY <2>2 DEF mutex_unlock_inner, mutex_unlock_frees
    <2>. QED
        BY <1>5, <2>1, <2>2 DEF mutex_unlock, mutex_unlock_last
<1>6. CASE UNCHANGED vars
    BY <1>6 DEF vars
<1>. QED
    BY <1>1, <1>2, <1>3, <1>4, <1>5, <1>6 DEF SyncNext, SyncStep

-----------------------------------------------------------------------------
(* The wait lists. *)

\* The part of the invariant that speaks of the lists alone.
ListsInv ==
    /\ waitList \in [Waitables -> Seq(Tasks)]
    /\ EveryTaskHasItsPlace

LEMMA WaitOnLists ==
    ASSUME SchedInv, ListsInv, NEW w \in Waitables, wait_on(w)
    PROVE  /\ ListsInv'
           /\ curr \in Tasks
           /\ \A v \in Waitables : curr \notin Nodes(waitList[v])
           /\ waitList' = [waitList EXCEPT ![w] = list_insert_last(waitList[w], curr)]
           /\ Nodes(waitList'[w]) = Nodes(waitList[w]) \cup {curr}
<1>. DEFINE r == list_insert_last(waitList[w], curr)
<1>1. /\ block_current
      /\ waitList' = [waitList EXCEPT ![w] = r]
    BY DEF wait_on
<1>2. curr \in Tasks /\ curr \notin Blocked /\ Blocked' = Blocked \cup {curr}
    BY <1>1, BlockCurrentBlocks
<1>3. /\ waitList \in [Waitables -> Seq(Tasks)]
      /\ \A v \in Waitables : Distinct(waitList[v])
      /\ \A t \in Tasks :
            /\ t \in Blocked <=> \E v \in Waitables : t \in Nodes(waitList[v])
            /\ \A u, v \in Waitables :
                  t \in Nodes(waitList[u]) /\ t \in Nodes(waitList[v]) => u = v
    BY DEF ListsInv, EveryTaskHasItsPlace
<1>4. \A v \in Waitables : curr \notin Nodes(waitList[v])
    BY <1>2, <1>3
<1>5. r \in Seq(Tasks) /\ Nodes(r) = Nodes(waitList[w]) \cup {curr} /\ Distinct(r)
    <2>1. waitList[w] \in Seq(Tasks) /\ Distinct(waitList[w]) /\ curr \notin Nodes(waitList[w])
        BY <1>3, <1>4
    <2>2. r \in Seq(Tasks) /\ Nodes(r) = Nodes(waitList[w]) \cup {curr}
        BY <1>2, <2>1, InsertLast
    <2>3. Distinct(r)
        BY <1>2, <2>1, InsertLastDistinct
    <2>. QED
        BY <2>2, <2>3
<1>. HIDE DEF r
<1>6. /\ waitList' \in [Waitables -> Seq(Tasks)]
      /\ waitList'[w] = r
      /\ \A v \in Waitables : v # w => waitList'[v] = waitList[v]
    BY <1>1, <1>3, <1>5
<1>7. \A v \in Waitables : Distinct(waitList'[v])
    BY <1>3, <1>5, <1>6
<1>8. \A v \in Waitables : Nodes(waitList'[v]) =
            IF v = w THEN Nodes(waitList[v]) \cup {curr} ELSE Nodes(waitList[v])
    BY <1>5, <1>6
<1>9. ASSUME NEW t \in Tasks
      PROVE  /\ t \in Blocked' <=> \E v \in Waitables : t \in Nodes(waitList'[v])
             /\ \A u, v \in Waitables :
                   t \in Nodes(waitList'[u]) /\ t \in Nodes(waitList'[v]) => u = v
    BY <1>2, <1>3, <1>4, <1>8, ZenonT(40)
<1>. QED
    BY <1>1, <1>2, <1>4, <1>5, <1>6, <1>7, <1>9
    DEF ListsInv, EveryTaskHasItsPlace, r

LEMMA WakeFirstLists ==
    ASSUME SchedInv, ListsInv, NEW w \in Waitables, waitList[w] # <<>>, wake_first(w)
    PROVE  /\ ListsInv'
           /\ list_first(waitList[w]) \in Tasks
           /\ waitList' = [waitList EXCEPT ![w] = list_remove_first(waitList[w])]
           /\ Nodes(waitList'[w]) = Nodes(waitList[w]) \ {list_first(waitList[w])}
<1>. DEFINE e == list_first(waitList[w])
            r == list_remove_first(waitList[w])
<1>1. unblock(e) /\ waitList' = [waitList EXCEPT ![w] = r]
    BY DEF wake_first
<1>2. /\ waitList \in [Waitables -> Seq(Tasks)]
      /\ \A v \in Waitables : Distinct(waitList[v])
      /\ \A t \in Tasks :
            /\ t \in Blocked <=> \E v \in Waitables : t \in Nodes(waitList[v])
            /\ \A u, v \in Waitables :
                  t \in Nodes(waitList[u]) /\ t \in Nodes(waitList[v]) => u = v
    BY DEF ListsInv, EveryTaskHasItsPlace
<1>3. waitList[w] \in Seq(Tasks) /\ Distinct(waitList[w])
    BY <1>2
<1>4. e \in Nodes(waitList[w]) /\ e \in Tasks /\ r = list_remove(waitList[w], e)
    <2>1. e \in Nodes(waitList[w]) /\ r = list_remove(waitList[w], e)
        BY <1>3, RemoveFirst
    <2>. QED
        BY <2>1, <1>3, NodesOfSeq
<1>. HIDE DEF e, r
<1>5. r \in Seq(Tasks) /\ Nodes(r) = Nodes(waitList[w]) \ {e} /\ Distinct(r)
    BY <1>3, <1>4, RemoveNode
<1>6. Blocked' = Blocked \ {e}
    BY <1>1, <1>4, UnblockUnblocks
<1>7. /\ waitList' \in [Waitables -> Seq(Tasks)]
      /\ waitList'[w] = r
      /\ \A v \in Waitables : v # w => waitList'[v] = waitList[v]
    BY <1>1, <1>2, <1>5
<1>8. \A v \in Waitables : Distinct(waitList'[v])
    BY <1>2, <1>5, <1>7
<1>9. \A v \in Waitables : Nodes(waitList'[v]) =
            IF v = w THEN Nodes(waitList[v]) \ {e} ELSE Nodes(waitList[v])
    BY <1>5, <1>7
<1>10. ASSUME NEW t \in Tasks
       PROVE  /\ t \in Blocked' <=> \E v \in Waitables : t \in Nodes(waitList'[v])
              /\ \A u, v \in Waitables :
                    t \in Nodes(waitList'[u]) /\ t \in Nodes(waitList'[v]) => u = v
    BY <1>2, <1>4, <1>6, <1>9
<1>. QED
    BY <1>1, <1>4, <1>5, <1>7, <1>8, <1>10 DEF ListsInv, EveryTaskHasItsPlace, e, r

(* A step that leaves the lists and the set of blocked tasks alone. *)
LEMMA SameLists ==
    ASSUME ListsInv, waitList' = waitList, Blocked' = Blocked
    PROVE  ListsInv'
    BY DEF ListsInv, EveryTaskHasItsPlace

LEMMA SameSched ==
    ASSUME ListsInv, waitList' = waitList, UNCHANGED schedVars
    PROVE  ListsInv'
<1>1. Blocked' = Blocked
    BY DEF schedVars, Blocked
<1>. QED
    BY <1>1, SameLists

-----------------------------------------------------------------------------
(* The invariant holds at the start and is preserved by every action. *)

\* The part of the type invariant that is not the scheduler's or the lists'.
CountsTypeOK ==
    /\ count \in [Sems -> 0 .. MaxCount]
    /\ locked \in [Mutexes -> 0 .. MaxDepth]
    /\ owner \in [Mutexes -> Tasks \cup {None}]

LEMMA SyncInvParts ==
    SchedInv => (SyncInv <=> /\ CountsTypeOK /\ ListsInv
                             /\ NoTokenBesideAWaiter /\ OwnerHolds)
    BY DEF SchedInv, SyncInv, SyncTypeOK, CountsTypeOK, ListsInv

LEMMA SyncInitInv == SyncInit => SchedInv /\ SyncInv
<1>. SUFFICES ASSUME SyncInit PROVE SchedInv /\ SyncInv
    OBVIOUS
<1>1. SchedInv
    BY SchedInitInv DEF SyncInit
<1>2. \A w \in Waitables : waitList[w] = <<>> /\ Nodes(waitList[w]) = {}
    BY DEF SyncInit, Nodes
<1>3. CountsTypeOK
    BY SyncAssumption DEF SyncInit, CountsTypeOK
<1>4. Blocked = {}
    <2>1. First \in Nodes(ready)
        <3>1. ready = <<First>> /\ ready[1] = First /\ 1 \in 1 .. Len(ready)
            BY DEF SyncInit, SchedInit
        <3>. QED
            BY <3>1 DEF Nodes
    <2>2. \A t \in Tasks : t # First => state[t] = "CREATED"
        BY DEF SyncInit, SchedInit, AllTasks
    <2>. QED
        BY <2>1, <2>2 DEF Blocked
<1>5. ListsInv
    <2>1. waitList \in [Waitables -> Seq(Tasks)]
        BY DEF SyncInit
    <2>2. \A w \in Waitables : Distinct(waitList[w])
        BY <1>2 DEF Distinct
    <2>. QED
        BY <1>2, <1>4, <2>1, <2>2 DEF ListsInv, EveryTaskHasItsPlace
<1>6. NoTokenBesideAWaiter
    BY <1>2 DEF NoTokenBesideAWaiter, Waitables
<1>7. OwnerHolds
    <2>1. \A m \in Mutexes : Nodes(waitList[m]) = {} /\ waitList[m] = <<>>
        BY <1>2 DEF Waitables
    <2>. QED
        BY <2>1 DEF OwnerHolds, SyncInit
<1>. QED
    BY <1>1, <1>3, <1>5, <1>6, <1>7, SyncInvParts

(* The four parts other than SchedInv, for the steps one by one. *)

LEMMA SchedStepInv ==
    ASSUME SchedInv, SyncInv, SchedStep
    PROVE  CountsTypeOK' /\ ListsInv' /\ NoTokenBesideAWaiter' /\ OwnerHolds'
<1>1. UNCHANGED <<count, locked, owner, waitList>>
    BY DEF SchedStep, syncVars
<1>2. CountsTypeOK /\ ListsInv /\ NoTokenBesideAWaiter /\ OwnerHolds
    BY SyncInvParts
<1>3. ListsInv'
    BY <1>1, <1>2, SchedStepBlocks, SameLists
<1>. QED
    BY <1>1, <1>2, <1>3 DEF CountsTypeOK, NoTokenBesideAWaiter, OwnerHolds

LEMMA SemWaitInv ==
    ASSUME SchedInv, SyncInv, NEW s \in Sems, sem_wait(s)
    PROVE  CountsTypeOK' /\ ListsInv' /\ NoTokenBesideAWaiter' /\ OwnerHolds'
<1>1. CountsTypeOK /\ ListsInv /\ NoTokenBesideAWaiter /\ OwnerHolds
    BY SyncInvParts
<1>2. s \in Waitables /\ s \notin Mutexes /\ Sems \subseteq Waitables /\ Mutexes \subseteq Waitables
    BY SyncAssumption DEF Waitables
<1>3. CASE sem_wait_takes(s)
    <2>1. /\ count[s] > 0 /\ count' = [count EXCEPT ![s] = @ - 1]
          /\ UNCHANGED <<schedVars, locked, owner, waitList>>
        BY <1>3 DEF sem_wait_takes
    <2>2. ListsInv'
        BY <1>1, <2>1, SameSched
    <2>3. CountsTypeOK'
        BY <1>1, <2>1, SyncAssumption DEF CountsTypeOK
    <2>4. NoTokenBesideAWaiter' /\ OwnerHolds'
        BY <1>1, <2>1 DEF CountsTypeOK, NoTokenBesideAWaiter, OwnerHolds
    <2>. QED
        BY <2>2, <2>3, <2>4
<1>4. CASE sem_wait_blocks(s)
    <2>1. count[s] = 0 /\ wait_on(s) /\ UNCHANGED <<count, locked, owner>>
        BY <1>4 DEF sem_wait_blocks
    <2>2. ListsInv' /\ waitList' = [waitList EXCEPT ![s] = list_insert_last(waitList[s], curr)]
        BY <1>1, <1>2, <2>1, WaitOnLists
    <2>3. \A v \in Waitables : v # s => waitList'[v] = waitList[v]
        BY <1>1, <2>2 DEF ListsInv
    <2>4. NoTokenBesideAWaiter'
        BY <1>1, <1>2, <2>1, <2>3 DEF NoTokenBesideAWaiter
    <2>5. OwnerHolds'
        BY <1>1, <1>2, <2>1, <2>3 DEF OwnerHolds
    <2>. QED
        BY <1>1, <2>1, <2>2, <2>4, <2>5 DEF CountsTypeOK
<1>. QED
    BY <1>3, <1>4 DEF sem_wait

LEMMA SemNotifyInv ==
    ASSUME SchedInv, SyncInv, NEW s \in Sems, sem_notify(s)
    PROVE  CountsTypeOK' /\ ListsInv' /\ NoTokenBesideAWaiter' /\ OwnerHolds'
<1>1. CountsTypeOK /\ ListsInv /\ NoTokenBesideAWaiter /\ OwnerHolds
    BY SyncInvParts
<1>2. s \in Waitables /\ s \notin Mutexes /\ Sems \subseteq Waitables /\ Mutexes \subseteq Waitables
    BY SyncAssumption DEF Waitables
<1>3. CASE sem_notify_wakes(s)
    <2>1. waitList[s] # <<>> /\ wake_first(s) /\ UNCHANGED <<count, locked, owner>>
        BY <1>3 DEF sem_notify_wakes
    <2>2. ListsInv' /\ waitList' = [waitList EXCEPT ![s] = list_remove_first(waitList[s])]
        BY <1>1, <1>2, <2>1, WakeFirstLists
    <2>3. \A v \in Waitables : v # s => waitList'[v] = waitList[v]
        BY <1>1, <2>2 DEF ListsInv
    <2>4. ~ (count[s] > 0)
        BY <1>1, <2>1 DEF NoTokenBesideAWaiter
    <2>5. NoTokenBesideAWaiter'
        BY <1>1, <1>2, <2>1, <2>3, <2>4 DEF NoTokenBesideAWaiter
    <2>6. OwnerHolds'
        BY <1>1, <1>2, <2>1, <2>3 DEF OwnerHolds
    <2>. QED
        BY <1>1, <2>1, <2>2, <2>5, <2>6 DEF CountsTypeOK
<1>4. CASE sem_notify_counts(s)
    <2>1. /\ waitList[s] = <<>> /\ count[s] < MaxCount
          /\ count' = [count EXCEPT ![s] = @ + 1]
          /\ UNCHANGED <<schedVars, locked, owner, waitList>>
        BY <1>4 DEF sem_notify_counts
    <2>2. ListsInv'
        BY <1>1, <2>1, SameSched
    <2>3. CountsTypeOK'
        BY <1>1, <2>1, SyncAssumption DEF CountsTypeOK
    <2>4. NoTokenBesideAWaiter' /\ OwnerHolds'
        BY <1>1, <2>1 DEF CountsTypeOK, NoTokenBesideAWaiter, OwnerHolds
    <2>. QED
        BY <2>2, <2>3, <2>4
<1>. QED
    BY <1>3, <1>4 DEF sem_notify

LEMMA MutexLockInv ==
    ASSUME SchedInv, SyncInv, NEW m \in Mutexes, mutex_lock(m)
    PROVE  CountsTypeOK' /\ ListsInv' /\ NoTokenBesideAWaiter' /\ OwnerHolds'
<1>1. CountsTypeOK /\ ListsInv /\ NoTokenBesideAWaiter /\ OwnerHolds
    BY SyncInvParts
<1>2. m \in Waitables /\ m \notin Sems /\ Sems \subseteq Waitables /\ Mutexes \subseteq Waitables
    BY SyncAssumption DEF Waitables
<1>3. CASE mutex_lock_free(m)
    <2>1. /\ curr \in Tasks /\ locked[m] = 0
          /\ locked' = [locked EXCEPT ![m] = 1]
          /\ owner' = [owner EXCEPT ![m] = curr]
          /\ UNCHANGED <<schedVars, count, waitList>>
        BY <1>3 DEF mutex_lock_free, TaskRuns
    <2>2. ListsInv'
        BY <1>1, <2>1, SameSched
    <2>3. CountsTypeOK'
        BY <1>1, <2>1, SyncAssumption DEF CountsTypeOK
    <2>4. waitList[m] = <<>> /\ Nodes(waitList[m]) = {} /\ curr # None
        <3>1. owner[m] = None
            BY <1>1, <2>1 DEF OwnerHolds
        <3>2. waitList[m] = <<>>
            BY <1>1, <3>1 DEF OwnerHolds
        <3>. QED
            BY <2>1, <3>2, SyncAssumption DEF Nodes
    <2>5. OwnerHolds'
        BY <1>1, <2>1, <2>4 DEF OwnerHolds, CountsTypeOK
    <2>6. NoTokenBesideAWaiter'
        BY <1>1, <2>1 DEF NoTokenBesideAWaiter
    <2>. QED
        BY <2>2, <2>3, <2>5, <2>6
<1>4. CASE mutex_lock_again(m)
    <2>1. /\ locked[m] \in 1 .. MaxDepth - 1
          /\ locked' = [locked EXCEPT ![m] = @ + 1]
          /\ UNCHANGED <<schedVars, count, owner, waitList>>
        BY <1>4 DEF mutex_lock_again
    <2>2. ListsInv'
        BY <1>1, <2>1, SameSched
    <2>3. CountsTypeOK'
        BY <1>1, <2>1, SyncAssumption DEF CountsTypeOK
    <2>4. OwnerHolds'
        BY <1>1, <2>1, SyncAssumption DEF OwnerHolds, CountsTypeOK
    <2>5. NoTokenBesideAWaiter'
        BY <1>1, <2>1 DEF NoTokenBesideAWaiter
    <2>. QED
        BY <2>2, <2>3, <2>4, <2>5
<1>5. CASE mutex_lock_blocks(m)
    <2>1. /\ locked[m] # 0 /\ owner[m] # curr
          /\ wait_on(m) /\ UNCHANGED <<count, locked, owner>>
        BY <1>5 DEF mutex_lock_blocks
    <2>2. /\ ListsInv'
          /\ waitList' = [waitList EXCEPT ![m] = list_insert_last(waitList[m], curr)]
          /\ Nodes(waitList'[m]) = Nodes(waitList[m]) \cup {curr}
        BY <1>1, <1>2, <2>1, WaitOnLists
    <2>3. \A v \in Waitables : v # m => waitList'[v] = waitList[v]
        BY <1>1, <2>2 DEF ListsInv
    <2>4. owner[m] # None
        BY <1>1, <2>1 DEF OwnerHolds
    <2>5. OwnerHolds'
        BY <1>1, <1>2, <2>1, <2>2, <2>3, <2>4 DEF OwnerHolds
    <2>6. NoTokenBesideAWaiter'
        BY <1>1, <1>2, <2>1, <2>3 DEF NoTokenBesideAWaiter
    <2>. QED
        BY <1>1, <2>1, <2>2, <2>5, <2>6 DEF CountsTypeOK
<1>. QED
    BY <1>3, <1>4, <1>5 DEF mutex_lock

LEMMA MutexUnlockInv ==
    ASSUME SchedInv, SyncInv, NEW m \in Mutexes, mutex_unlock(m)
    PROVE  CountsTypeOK' /\ ListsInv' /\ NoTokenBesideAWaiter' /\ OwnerHolds'
<1>1. CountsTypeOK /\ ListsInv /\ NoTokenBesideAWaiter /\ OwnerHolds
    BY SyncInvParts
<1>2. m \in Waitables /\ m \notin Sems /\ Sems \subseteq Waitables /\ Mutexes \subseteq Waitables
    BY SyncAssumption DEF Waitables
<1>3. CASE mutex_unlock_inner(m)
    <2>1. /\ locked[m] > 1
          /\ locked' = [locked EXCEPT ![m] = @ - 1]
          /\ UNCHANGED <<schedVars, count, owner, waitList>>
        BY <1>3 DEF mutex_unlock_inner
    <2>2. ListsInv'
        BY <1>1, <2>1, SameSched
    <2>3. CountsTypeOK'
        BY <1>1, <2>1, SyncAssumption DEF CountsTypeOK
    <2>4. OwnerHolds'
        BY <1>1, <2>1, SyncAssumption DEF OwnerHolds, CountsTypeOK
    <2>5. NoTokenBesideAWaiter'
        BY <1>1, <2>1 DEF NoTokenBesideAWaiter
    <2>. QED
        BY <2>2, <2>3, <2>4, <2>5
<1>4. CASE mutex_unlock_frees(m)
    <2>1. /\ waitList[m] = <<>>
          /\ locked' = [locked EXCEPT ![m] = 0]
          /\ owner' = [owner EXCEPT ![m] = None]
          /\ UNCHANGED <<schedVars, count, waitList>>
        BY <1>4 DEF mutex_unlock_frees
    <2>2. ListsInv'
        BY <1>1, <2>1, SameSched
    <2>3. CountsTypeOK'
        BY <1>1, <2>1, SyncAssumption DEF CountsTypeOK
    <2>4. OwnerHolds'
        BY <1>1, <2>1 DEF OwnerHolds, CountsTypeOK, Nodes
    <2>5. NoTokenBesideAWaiter'
        BY <1>1, <2>1 DEF NoTokenBesideAWaiter
    <2>. QED
        BY <2>2, <2>3, <2>4, <2>5
<1>5. CASE mutex_unlock_hands_over(m)
    <2>. DEFINE e == list_first(waitList[m])
    <2>1. /\ waitList[m] # <<>>
          /\ locked' = [locked EXCEPT ![m] = 1]
          /\ owner' = [owner EXCEPT ![m] = e]
          /\ wake_first(m) /\ count' = count
        BY <1>5 DEF mutex_unlock_hands_over
    <2>2. /\ ListsInv'
          /\ e \in Tasks
          /\ waitList' = [waitList EXCEPT ![m] = list_remove_first(waitList[m])]
          /\ Nodes(waitList'[m]) = Nodes(waitList[m]) \ {e}
        BY <1>1, <1>2, <2>1, WakeFirstLists
    <2>. HIDE DEF e
    <2>3. \A v \in Waitables : v # m => waitList'[v] = waitList[v]
        BY <1>1, <2>2 DEF ListsInv
    <2>4. CountsTypeOK'
        BY <1>1, <2>1, <2>2, SyncAssumption DEF CountsTypeOK
    <2>5. e # None
        BY <2>2, SyncAssumption
    <2>6. OwnerHolds'
        BY <1>1, <1>2, <2>1, <2>2, <2>3, <2>5 DEF OwnerHolds, CountsTypeOK
    <2>7. NoTokenBesideAWaiter'
        BY <1>1, <1>2, <2>1, <2>3 DEF NoTokenBesideAWaiter
    <2>. QED
        BY <2>2, <2>4, <2>6, <2>7
<1>. QED
    BY <1>3, <1>4, <1>5 DEF mutex_unlock, mutex_unlock_last

LEMMA SyncNextInv == SchedInv /\ SyncInv /\ [SyncNext]_vars => SchedInv' /\ SyncInv'
<1>. SUFFICES ASSUME SchedInv, SyncInv, [SyncNext]_vars PROVE SchedInv' /\ SyncInv'
    OBVIOUS
<1>1. SchedInv'
    BY SyncStepSchedules, SchedNextInv
<1>2. CountsTypeOK' /\ ListsInv' /\ NoTokenBesideAWaiter' /\ OwnerHolds'
    <2>1. CASE UNCHANGED vars
        <3>1. CountsTypeOK /\ ListsInv /\ NoTokenBesideAWaiter /\ OwnerHolds
            BY SyncInvParts
        <3>2. UNCHANGED schedVars /\ UNCHANGED <<count, locked, owner, waitList>>
            BY <2>1 DEF vars, syncVars
        <3>3. ListsInv'
            BY <3>1, <3>2, SameSched
        <3>. QED
            BY <3>1, <3>2, <3>3 DEF CountsTypeOK, NoTokenBesideAWaiter, OwnerHolds
    <2>. QED
        BY <2>1, SchedStepInv, SemWaitInv, SemNotifyInv, MutexLockInv, MutexUnlockInv
        DEF SyncNext, SyncStep
<1>3. SyncInv'
    <2>1. SchedInv' => (SyncInv' <=> /\ CountsTypeOK' /\ ListsInv'
                                     /\ NoTokenBesideAWaiter' /\ OwnerHolds')
        BY DEF SchedInv, SyncInv, SyncTypeOK, CountsTypeOK, ListsInv
    <2>. QED
        BY <1>1, <1>2, <2>1
<1>. QED
    BY <1>1, <1>3

-----------------------------------------------------------------------------
(* The mutexes implement fair locks. *)

(* The state the lines are drawn from. *)
LEMMA LineUnchanged ==
    ASSUME owner' = owner, \A m \in Mutexes : waitList'[m] = waitList[m]
    PROVE  Line' = Line
    BY DEF Line

(* Taking a free mutex, or queueing up for one, joins its line. *)
LEMMA LockJoins ==
    ASSUME SchedInv, SyncInv, NEW m \in Mutexes,
           mutex_lock_free(m) \/ mutex_lock_blocks(m)
    PROVE  Fair!Next
<1>1. /\ waitList[m] \in Seq(Tasks) /\ OwnerHolds /\ ListsInv
      /\ m \in Waitables
      /\ waitList \in [Waitables -> Seq(Tasks)]
      /\ Mutexes \subseteq Waitables
      /\ owner \in [Mutexes -> Tasks \cup {None}]
    BY DEF SyncInv, SyncTypeOK, ListsInv, Waitables
<1>2. CASE mutex_lock_free(m)
    <2>1. /\ curr \in Tasks /\ locked[m] = 0
          /\ owner' = [owner EXCEPT ![m] = curr] /\ waitList' = waitList
        BY <1>2 DEF mutex_lock_free, TaskRuns
    <2>2. owner[m] = None /\ waitList[m] = <<>>
        BY <1>1, <2>1 DEF OwnerHolds
    <2>3. Line[m] = <<>>
        BY <2>2 DEF Line
    <2>4. curr # None
        BY <2>1, SyncAssumption
    <2>5. Line' = [Line EXCEPT ![m] = <<curr>>]
        <3>1. Line'[m] = <<curr>>
            BY <1>1, <2>1, <2>2, <2>4 DEF Line
        <3>2. \A k \in Mutexes : k # m => Line'[k] = Line[k]
            BY <1>1, <2>1 DEF Line
        <3>. QED
            BY <3>1, <3>2 DEF Line
    <2>6. Append(Line[m], curr) = <<curr>> /\ {Line[m][i] : i \in 1 .. Len(Line[m])} = {}
        BY <2>3
    <2>7. Fair!Join(curr, m)
        BY <2>5, <2>6 DEF Fair!Join
    <2>. QED
        BY <2>1, <2>7 DEF Fair!Next
<1>3. CASE mutex_lock_blocks(m)
    <2>1. locked[m] # 0 /\ owner[m] # curr /\ wait_on(m) /\ owner' = owner
        BY <1>3 DEF mutex_lock_blocks
    <2>2. /\ curr \in Tasks /\ curr \notin Nodes(waitList[m])
          /\ waitList' = [waitList EXCEPT ![m] = list_insert_last(waitList[m], curr)]
        BY <1>1, <2>1, WaitOnLists
    <2>3. owner[m] # None /\ owner[m] \in Tasks
        BY <1>1, <2>1 DEF OwnerHolds
    <2>4. Line[m] = <<owner[m]>> \o waitList[m]
        BY <2>3 DEF Line
    <2>5. Line' = [Line EXCEPT ![m] = Append(Line[m], curr)]
        <3>1. Line'[m] = <<owner[m]>> \o Append(waitList[m], curr)
            BY <1>1, <2>1, <2>2, <2>3 DEF Line, list_insert_last
        <3>2. <<owner[m]>> \o Append(waitList[m], curr) = Append(<<owner[m]>> \o waitList[m], curr)
            BY <1>1, <2>2, <2>3
        <3>3. \A k \in Mutexes : k # m => Line'[k] = Line[k]
            BY <1>1, <2>1, <2>2 DEF Line
        <3>. QED
            BY <2>4, <3>1, <3>2, <3>3, ZenonT(40) DEF Line
    <2>6. curr \notin {Line[m][i] : i \in 1 .. Len(Line[m])}
        <3>1. ASSUME NEW i \in 1 .. Len(Line[m]) PROVE Line[m][i] # curr
            <4>1. i = 1 => Line[m][i] = owner[m]
                BY <1>1, <2>3, <2>4
            <4>2. i > 1 => i - 1 \in 1 .. Len(waitList[m]) /\ Line[m][i] = waitList[m][i - 1]
                BY <1>1, <2>3, <2>4, <3>1
            <4>. QED
                BY <2>1, <2>2, <3>1, <4>1, <4>2 DEF Nodes
        <3>. QED
            BY <3>1
    <2>7. Fair!Join(curr, m)
        BY <2>5, <2>6 DEF Fair!Join
    <2>. QED
        BY <2>2, <2>7 DEF Fair!Next
<1>. QED
    BY <1>2, <1>3

(* The last unlock leaves the line, whether or not there is a successor. *)
LEMMA UnlockLeaves ==
    ASSUME SchedInv, SyncInv, NEW m \in Mutexes, mutex_unlock_last(m)
    PROVE  Fair!Next
<1>1. /\ waitList[m] \in Seq(Tasks) /\ OwnerHolds /\ ListsInv
      /\ m \in Waitables
      /\ waitList \in [Waitables -> Seq(Tasks)]
      /\ Mutexes \subseteq Waitables
      /\ owner \in [Mutexes -> Tasks \cup {None}]
    BY DEF SyncInv, SyncTypeOK, ListsInv, Waitables
<1>2. owner[m] # None /\ owner[m] \in Tasks
    <2>1. locked[m] = 1
        BY DEF mutex_unlock_last, mutex_unlock_frees, mutex_unlock_hands_over
    <2>. QED
        BY <1>1, <2>1 DEF OwnerHolds
<1>3. Line[m] = <<owner[m]>> \o waitList[m]
    BY <1>2 DEF Line
<1>4. Line[m] # <<>> /\ Tail(Line[m]) = waitList[m]
    BY <1>1, <1>2, <1>3
<1>5. Line' = [Line EXCEPT ![m] = waitList[m]]
    <2>1. CASE mutex_unlock_frees(m)
        <3>1. /\ waitList[m] = <<>> /\ waitList' = waitList
              /\ owner' = [owner EXCEPT ![m] = None]
            BY <2>1 DEF mutex_unlock_frees
        <3>2. Line'[m] = <<>>
            BY <1>1, <3>1 DEF Line
        <3>3. \A k \in Mutexes : k # m => Line'[k] = Line[k]
            BY <1>1, <3>1 DEF Line
        <3>. QED
            BY <3>1, <3>2, <3>3, ZenonT(40) DEF Line
    <2>2. CASE mutex_unlock_hands_over(m)
        <3>. DEFINE w == waitList[m]
        <3>1. /\ w # <<>> /\ wake_first(m)
              /\ owner' = [owner EXCEPT ![m] = list_first(w)]
            BY <2>2 DEF mutex_unlock_hands_over
        <3>2. /\ list_first(w) \in Tasks
              /\ waitList' = [waitList EXCEPT ![m] = list_remove_first(w)]
            BY <1>1, <3>1, WakeFirstLists
        <3>3. list_first(w) # None
            BY <3>2, SyncAssumption
        <3>4. Line'[m] = <<list_first(w)>> \o list_remove_first(w)
            BY <1>1, <3>1, <3>2, <3>3 DEF Line
        <3>5. <<list_first(w)>> \o list_remove_first(w) = w
            <4>1. list_remove_first(w) \in Seq(Tasks) /\ Len(list_remove_first(w)) = Len(w) - 1
                BY <1>1, <3>1 DEF list_remove_first
            <4>2. \A i \in 1 .. Len(w) - 1 : list_remove_first(w)[i] = w[i + 1]
                BY <1>1 DEF list_remove_first
            <4>. DEFINE c == <<list_first(w)>> \o list_remove_first(w)
            <4>3. c \in Seq(Tasks) /\ Len(c) = Len(w) /\ w \in Seq(Tasks)
                BY <1>1, <3>1, <3>2, <4>1
            <4>4. \A i \in 1 .. Len(w) : c[i] = w[i]
                BY <1>1, <3>1, <3>2, <4>1, <4>2 DEF list_first
            <4>. HIDE DEF c, w
            <4>5. c = w
                BY <4>3, <4>4
            <4>. QED
                BY <4>5 DEF c
        <3>6. \A k \in Mutexes : k # m => Line'[k] = Line[k]
            BY <1>1, <3>1, <3>2 DEF Line
        <3>. QED
            BY <3>4, <3>5, <3>6 DEF Line
    <2>. QED
        BY <2>1, <2>2 DEF mutex_unlock_last
<1>6. Fair!Leave(m)
    BY <1>4, <1>5 DEF Fair!Leave
<1>. QED
    BY <1>6 DEF Fair!Next

LEMMA FairStep == SchedInv /\ SyncInv /\ [SyncNext]_vars => [Fair!Next]_Line
<1>. SUFFICES ASSUME SchedInv, SyncInv, [SyncNext]_vars PROVE [Fair!Next]_Line
    OBVIOUS
<1>1. CASE SchedStep \/ UNCHANGED vars
    <2>1. owner' = owner /\ waitList' = waitList
        BY <1>1 DEF SchedStep, vars, syncVars
    <2>. QED
        BY <2>1, LineUnchanged
<1>2. ASSUME NEW s \in Sems, sem_wait(s) \/ sem_notify(s) PROVE Line' = Line
    <2>1. s \notin Mutexes
        BY SyncAssumption
    <2>2. owner' = owner
        BY <1>2 DEF sem_wait, sem_wait_takes, sem_wait_blocks, sem_notify,
                    sem_notify_wakes, sem_notify_counts
    <2>3. \/ waitList' = waitList
          \/ waitList' = [waitList EXCEPT ![s] = list_insert_last(waitList[s], curr)]
          \/ waitList' = [waitList EXCEPT ![s] = list_remove_first(waitList[s])]
        BY <1>2 DEF sem_wait, sem_wait_takes, sem_wait_blocks, sem_notify,
                    sem_notify_wakes, sem_notify_counts, wait_on, wake_first
    <2>4. \A m \in Mutexes : waitList'[m] = waitList[m]
        BY <2>1, <2>3 DEF SyncInv, SyncTypeOK, Waitables
    <2>. QED
        BY <2>2, <2>4, LineUnchanged
<1>3. ASSUME NEW m \in Mutexes, mutex_lock_again(m) \/ mutex_unlock_inner(m) PROVE Line' = Line
    <2>1. owner' = owner /\ waitList' = waitList
        BY <1>3 DEF mutex_lock_again, mutex_unlock_inner
    <2>. QED
        BY <2>1, LineUnchanged
<1>4. ASSUME NEW m \in Mutexes, mutex_lock(m) \/ mutex_unlock(m) PROVE [Fair!Next]_Line
    BY <1>3, <1>4, LockJoins, UnlockLeaves DEF mutex_lock, mutex_unlock
<1>. QED
    BY <1>1, <1>2, <1>4 DEF SyncNext, SyncStep

-----------------------------------------------------------------------------
(* The operations on semaphores are those of Semaphores. *)

Counts == <<count, [s \in Sems |-> waitList[s]]>>

LEMMA CountsUnchanged ==
    ASSUME SyncInv, count' = count,
           \A s \in Sems : waitList'[s] = waitList[s]
    PROVE  UNCHANGED Counts
    BY DEF Counts

(* The list operations are the same seen from Semaphores. *)
LEMMA SameListOperations ==
    /\ \A q : Counted!Nodes(q) = Nodes(q)
    /\ \A q, e : Counted!list_insert_last(q, e) = list_insert_last(q, e)
    /\ \A q : Counted!list_remove_first(q) = list_remove_first(q)
    BY DEF Counted!Nodes, Nodes, Counted!list_insert_last, list_insert_last,
           Counted!list_remove_first, list_remove_first

(* The caller of sem_wait is not suspended in another one. *)
LEMMA CallerNotSuspended ==
    ASSUME SchedInv, SyncInv, TaskRuns
    PROVE  curr \in Tasks /\ ~Counted!Suspended(curr)
<1>1. curr \in Tasks /\ Interruptible /\ curr # Idle
    BY SchedAssumption DEF TaskRuns
<1>2. curr \in Nodes(ready)
    BY <1>1, CurrOnReadyList
<1>3. curr \notin Blocked
    BY <1>2 DEF Blocked
<1>4. \A s \in Sems : curr \notin Nodes(waitList[s])
    BY <1>1, <1>3 DEF SyncInv, EveryTaskHasItsPlace, Waitables
<1>. QED
    BY <1>1, <1>4, SameListOperations DEF Counted!Suspended

LEMMA TaskTakes ==
    ASSUME NEW s \in Sems, NEW t \in Tasks, Counted!Take(s, t)
    PROVE  Counted!SemsNext
<1>1. Counted!Wait(s, t)
    BY DEF Counted!Wait
<1>. QED
    BY <1>1 DEF Counted!SemsNext

LEMMA TaskQueues ==
    ASSUME NEW s \in Sems, NEW t \in Tasks, ~Counted!Suspended(t),
           count[s] = 0, count' = count,
           waitList \in [Waitables -> Seq(Tasks)],
           waitList' = [waitList EXCEPT ![s] = list_insert_last(waitList[s], t)]
    PROVE  Counted!SemsNext
<1>. DEFINE W == [v \in Sems |-> waitList[v]]
<1>1. Sems \subseteq Waitables
    BY DEF Waitables
<1>2. W' = [W EXCEPT ![s] = list_insert_last(W[s], t)]
    BY <1>1
<1>3. Counted!Queue(s, t)
    BY <1>2, SameListOperations DEF Counted!Queue
<1>4. Counted!Wait(s, t)
    BY <1>3 DEF Counted!Wait
<1>. QED
    BY <1>4 DEF Counted!SemsNext

LEMMA WaitTakesOrQueues ==
    ASSUME SchedInv, SyncInv, NEW s \in Sems, sem_wait(s)
    PROVE  Counted!SemsNext
<1>1. TaskRuns
    BY DEF sem_wait, sem_wait_takes, sem_wait_blocks, wait_on, block_current
<1>2. curr \in Tasks /\ ~Counted!Suspended(curr)
    BY <1>1, CallerNotSuspended
<1>3. CASE sem_wait_takes(s)
    <2>1. /\ count[s] > 0 /\ count' = [count EXCEPT ![s] = @ - 1]
          /\ waitList' = waitList
        BY <1>3 DEF sem_wait_takes
    <2>2. Counted!Take(s, curr)
        BY <1>2, <2>1 DEF Counted!Take
    <2>. QED
        BY <1>2, <2>2, TaskTakes
<1>4. CASE sem_wait_blocks(s)
    <2>1. /\ count[s] = 0 /\ count' = count
          /\ waitList' = [waitList EXCEPT ![s] = list_insert_last(waitList[s], curr)]
        BY <1>4 DEF sem_wait_blocks, wait_on
    <2>2. waitList \in [Waitables -> Seq(Tasks)]
        BY DEF SyncInv, SyncTypeOK
    <2>. QED
        BY <1>2, <2>1, <2>2, TaskQueues
<1>. QED
    BY <1>3, <1>4 DEF sem_wait

LEMMA NotifyPosts ==
    ASSUME SchedInv, SyncInv, NEW s \in Sems, sem_notify(s)
    PROVE  Counted!SemsNext
<1>. DEFINE W == [v \in Sems |-> waitList[v]]
<1>1. s \in Waitables /\ Sems \subseteq Waitables /\ waitList \in [Waitables -> Seq(Tasks)]
    BY DEF Waitables, SyncInv, SyncTypeOK
<1>2. CASE sem_notify_wakes(s)
    <2>1. /\ waitList[s] # <<>> /\ count' = count
          /\ waitList' = [waitList EXCEPT ![s] = list_remove_first(waitList[s])]
        BY <1>2 DEF sem_notify_wakes, wake_first
    <2>2. W' = [W EXCEPT ![s] = list_remove_first(W[s])]
        BY <1>1, <2>1
    <2>3. Counted!Post(s)
        BY <2>1, <2>2, SameListOperations DEF Counted!Post
    <2>. QED
        BY <2>3 DEF Counted!SemsNext
<1>3. CASE sem_notify_counts(s)
    <2>1. /\ waitList[s] = <<>> /\ waitList' = waitList
          /\ count' = [count EXCEPT ![s] = @ + 1]
        BY <1>3 DEF sem_notify_counts
    <2>2. Counted!Post(s)
        BY <2>1 DEF Counted!Post
    <2>. QED
        BY <2>2 DEF Counted!SemsNext
<1>. QED
    BY <1>2, <1>3 DEF sem_notify

LEMMA SemsStep ==
    SchedInv /\ SyncInv /\ [SyncNext]_vars => [Counted!SemsNext]_Counts
<1>. SUFFICES ASSUME SchedInv, SyncInv, [SyncNext]_vars
              PROVE  [Counted!SemsNext]_Counts
    OBVIOUS
<1>1. CASE SchedStep \/ UNCHANGED vars
    <2>1. count' = count /\ waitList' = waitList
        BY <1>1 DEF SchedStep, vars, syncVars
    <2>. QED
        BY <2>1, CountsUnchanged
<1>2. ASSUME NEW s \in Sems, sem_wait(s) \/ sem_notify(s) PROVE Counted!SemsNext
    BY <1>2, WaitTakesOrQueues, NotifyPosts
<1>3. ASSUME NEW m \in Mutexes, mutex_lock(m) \/ mutex_unlock(m) PROVE UNCHANGED Counts
    <2>1. m \notin Sems
        BY SyncAssumption
    <2>2. count' = count
        BY <1>3 DEF mutex_lock, mutex_lock_free, mutex_lock_again, mutex_lock_blocks,
                    mutex_unlock, mutex_unlock_inner, mutex_unlock_last,
                    mutex_unlock_frees, mutex_unlock_hands_over
    <2>3. \/ waitList' = waitList
          \/ waitList' = [waitList EXCEPT ![m] = list_insert_last(waitList[m], curr)]
          \/ waitList' = [waitList EXCEPT ![m] = list_remove_first(waitList[m])]
        BY <1>3 DEF mutex_lock, mutex_lock_free, mutex_lock_again, mutex_lock_blocks,
                    mutex_unlock, mutex_unlock_inner, mutex_unlock_last,
                    mutex_unlock_frees, mutex_unlock_hands_over, wait_on, wake_first
    <2>4. \A s \in Sems : waitList'[s] = waitList[s]
        BY <2>1, <2>3 DEF SyncInv, SyncTypeOK, Waitables
    <2>. QED
        BY <2>2, <2>4, CountsUnchanged
<1>. QED
    BY <1>1, <1>2, <1>3 DEF SyncNext, SyncStep

-----------------------------------------------------------------------------
(* The theorems. *)

(* The inductive invariant: the scheduler's and that of the objects. *)
THEOREM SyncSafe == SyncSpec => [](SchedInv /\ SyncInv)
    BY SyncInitInv, SyncNextInv, PTL DEF SyncSpec

(* Every variable keeps its type: no count, no nesting depth is ever negative. *)
THEOREM SyncTypeCorrect == SyncSpec => []SyncTypeOK
<1>1. SyncInv => SyncTypeOK
    BY DEF SyncInv
<1>. QED
    BY <1>1, SyncSafe, PTL

(* A started task is ready, asleep, or waits in exactly one wait list. *)
THEOREM NoTaskIsLost == SyncSpec => []EveryTaskHasItsPlace
<1>1. SyncInv => EveryTaskHasItsPlace
    BY DEF SyncInv
<1>. QED
    BY <1>1, SyncSafe, PTL

(* A semaphore has a token or a waiter, never both. *)
THEOREM NoTokenIsLost == SyncSpec => []NoTokenBesideAWaiter
<1>1. SyncInv => NoTokenBesideAWaiter
    BY DEF SyncInv
<1>. QED
    BY <1>1, SyncSafe, PTL

(* Owner, nesting count and wait list of a mutex agree. *)
THEOREM OwnerIsRight == SyncSpec => []OwnerHolds
<1>1. SyncInv => OwnerHolds
    BY DEF SyncInv
<1>. QED
    BY <1>1, SyncSafe, PTL

(* With semaphores and mutexes the scheduler still behaves as Sched says. *)
THEOREM SyncSchedules == SyncSpec => StillScheduler
<1>1. SyncInit => SchedInit
    BY DEF SyncInit
<1>2. SyncInv /\ [SyncNext]_vars => [SchedNext]_schedVars
    BY SyncStepSchedules
<1>. QED
    BY <1>1, <1>2, SyncSafe, PTL DEF SyncSpec, SchedSpec, StillScheduler

(* The mutexes implement FairLocks: mutual exclusion, and the lock goes to the *)
(* task that asked first.                                                      *)
THEOREM MutexesImplementFairLocks == SyncSpec => MutexesAreFairLocks
<1>1. SyncInit => Fair!Init
    BY DEF SyncInit, Fair!Init, Line
<1>. QED
    BY <1>1, FairStep, SyncSafe, PTL DEF SyncSpec, Fair!Spec, MutexesAreFairLocks

(* The semaphores implement Semaphores: a token is neither lost nor made up,   *)
(* and the task that has waited longest gets it.                               *)
THEOREM SemaphoresImplementQueues == SyncSpec => SemaphoresAreQueues
<1>1. SyncInit => Counted!SemsInit
    BY DEF SyncInit, Counted!SemsInit, Waitables
<1>. QED
    BY <1>1, SemsStep, SyncSafe, PTL
    DEF SyncSpec, Counted!SemsSpec, Counted!semVars, SemaphoresAreQueues, Counts

-----------------------------------------------------------------------------
(* Processes: sys_fork, sys_exit and sys_wait. *)

\* Where a task owns task_table_mutex or queues for it.
HoldPoints == {"fork_scan", "exit_scan", "exit_unlock", "wait_scan", "wait_return",
               "wait_release"}

OnLists == Nodes(ready) \cup Nodes(sleeping)
Queue == waitList[TableMutex]

\* The states of the tasks on the scheduler's lists.
Plain == {"RUNNING", "SLEEP", "READY"}
PlainOnLists == \A t \in OnLists : state[t] \in Plain

\* What the scheduler does to the lists and to the states: the tasks of A are put
\* on the lists, those of B are taken off, and no state changes but those of the
\* tasks on the lists and of B.
Moves(A, B) ==
    /\ OnLists' = (OnLists \cup A) \ B
    /\ \A t \in OnLists' : state'[t] \in Plain
    /\ \A t \in Tasks \ (OnLists' \cup B) : state'[t] = state[t]

LEMMA DispatchPlain ==
    ASSUME NEW q \in Seq(Tasks), NEW st \in [AllTasks -> TaskState],
           \A t \in Nodes(q) : st[t] \in Plain, task_dispatch(q, st)
    PROVE  /\ ready' = q
           /\ \A t \in Nodes(q) : state'[t] \in Plain
           /\ \A t \in Tasks \ Nodes(q) : state'[t] = st[t]
<1>1. /\ ready' = q
      /\ state' = st \/ state' = [st EXCEPT ![task_next_run(q)] = "RUNNING"]
    BY DEF task_dispatch
<1>2. CASE q = <<>>
    <2>1. task_next_run(q) = Idle /\ Nodes(q) = {}
        BY <1>2 DEF task_next_run, Nodes
    <2>. QED
        BY <1>1, <2>1, SchedAssumption DEF AllTasks
<1>3. CASE q # <<>>
    <2>1. q[1] \in Nodes(q)
        BY <1>3, NodesOfSeq
    <2>2. task_next_run(q) = q[1] /\ Nodes(q) \subseteq Tasks
        BY <1>3, NodesOfSeq DEF task_next_run, list_first
    <2>3. \A t \in Tasks : t # q[1] => state'[t] = st[t]
        BY <1>1, <2>2 DEF AllTasks
    <2>4. state'[q[1]] = st[q[1]] \/ state'[q[1]] = "RUNNING"
        BY <1>1, <2>1, <2>2 DEF AllTasks
    <2>. QED
        BY <1>1, <2>1, <2>2, <2>3, <2>4 DEF Plain
<1>. QED
    BY <1>2, <1>3

(* The lists of the scheduler, as the lemmas below need them. *)
LEMMA ListFacts ==
    ASSUME SchedInv
    PROVE  /\ ready \in Seq(Tasks) /\ sleeping \in Seq(Tasks)
           /\ Distinct(ready) /\ Distinct(sleeping)
           /\ Nodes(ready) \subseteq Tasks /\ Nodes(sleeping) \subseteq Tasks
           /\ Nodes(ready) \cap Nodes(sleeping) = {}
           /\ state \in [AllTasks -> TaskState]
           /\ Tasks \subseteq AllTasks /\ Idle \notin Tasks
    BY NodesOfSeq, SchedAssumption DEF SchedInv, SchedTypeOK, OnePlace, AllTasks

(* The current task leaves the CPU, and others may have become ready before. *)
LEMMA LeaveInv ==
    ASSUME SchedInv, TaskRuns,
           NEW q \in Seq(Tasks), Distinct(q), Nodes(ready) \ {curr} \subseteq Nodes(q),
           Nodes(q) \cap Nodes(sleeping) = {},
           NEW st \in [AllTasks -> TaskState],
           \A t \in Nodes(q) \cup Nodes(sleeping) : st[t] # "CREATED",
           task_dispatch(q, st), UNCHANGED <<sleeping, sleepTicks, slice, owing, cursor>>
    PROVE  SchedInv'
<1>1. /\ ready' = q /\ curr' = task_next_run(q) /\ curr' \in AllTasks
      /\ state' \in [AllTasks -> TaskState]
      /\ \A t \in Tasks : st[t] # "CREATED" => state'[t] # "CREATED"
    BY Dispatch
<1>2. SchedTypeOK'
    BY <1>1 DEF SchedInv, SchedTypeOK
<1>3. CurrIsHead'
    BY <1>1 DEF CurrIsHead
<1>4. OnePlace'
    <2>1. Nodes(q) \subseteq Tasks /\ Nodes(sleeping) \subseteq Tasks
        BY NodesOfSeq, ListFacts
    <2>. QED
        BY <1>1, <2>1, ListFacts DEF OnePlace
<1>5. SleepersCount' /\ OwingIsReady'
    BY <1>1, SchedAssumption DEF SchedInv, SleepersCount, OwingIsReady, TaskRuns, Interruptible
<1>. QED
    BY <1>2, <1>3, <1>4, <1>5 DEF SchedInv

LEMMA StartMoves ==
    ASSUME SchedInv, PlainOnLists, NEW t \in Tasks, task_start(t)
    PROVE  Moves({t}, {})
<1>1. /\ ready' = task_set_ready(ready, t) /\ sleeping' = sleeping
      /\ state' = [state EXCEPT ![t] = "READY"] /\ t \notin Nodes(ready)
    BY SchedAssumption DEF task_start, set_ready_state, SchedInv, OnePlace
<1>2. Nodes(ready') = Nodes(ready) \cup {t}
    BY <1>1, MakeReady
<1>. QED
    BY <1>1, <1>2, ListFacts DEF Moves, PlainOnLists, OnLists, Plain

LEMMA UnblockMoves ==
    ASSUME SchedInv, PlainOnLists, NEW t \in Tasks, unblock(t)
    PROVE  Moves({t}, {})
<1>1. PICK q : q = task_set_ready(ready, t)
    OBVIOUS
<1>2. PICK st : st = [state EXCEPT ![t] = "READY"]
    OBVIOUS
<1>3. /\ t \notin Nodes(ready) /\ sleeping' = sleeping
      /\ task_dispatch(q, st)
    BY <1>1, <1>2, SchedAssumption DEF unblock, Blocked, set_ready_state
<1>4. q \in Seq(Tasks) /\ Nodes(q) = Nodes(ready) \cup {t}
    BY <1>1, <1>3, MakeReady
<1>5. st \in [AllTasks -> TaskState] /\ st[t] = "READY" /\ \A x \in Tasks : x # t => st[x] = state[x]
    BY <1>2, ListFacts DEF TaskState
<1>6. \A x \in Nodes(q) : st[x] \in Plain
    BY <1>4, <1>5, ListFacts DEF PlainOnLists, OnLists, Plain
<1>7. /\ ready' = q
      /\ \A x \in Nodes(q) : state'[x] \in Plain
      /\ \A x \in Tasks \ Nodes(q) : state'[x] = st[x]
    BY <1>3, <1>4, <1>5, <1>6, DispatchPlain
<1>. QED
    BY <1>3, <1>4, <1>5, <1>7, ListFacts DEF Moves, PlainOnLists, OnLists

(* The current task leaves the ready list. *)
LEMMA LeaveMoves ==
    ASSUME SchedInv, PlainOnLists, TaskRuns,
           NEW st \in [AllTasks -> TaskState], \A t \in Tasks \ {curr} : st[t] = state[t],
           task_dispatch(task_set_block(ready, curr), st), sleeping' = sleeping
    PROVE  Moves({}, {curr}) /\ state'[curr] = st[curr]
<1>1. PICK q : q = task_set_block(ready, curr)
    OBVIOUS
<1>2. /\ curr \in Tasks /\ curr \in Nodes(ready) /\ curr \notin Nodes(sleeping)
      /\ q \in Seq(Tasks) /\ Nodes(q) = Nodes(ready) \ {curr}
    BY <1>1, BlockCurrent, ListFacts
<1>3. \A x \in Nodes(q) : st[x] \in Plain
    BY <1>2, ListFacts DEF PlainOnLists, OnLists
<1>4. /\ ready' = q
      /\ \A x \in Nodes(q) : state'[x] \in Plain
      /\ \A x \in Tasks \ Nodes(q) : state'[x] = st[x]
    BY <1>1, <1>2, <1>3, DispatchPlain
<1>. QED
    BY <1>2, <1>4, ListFacts DEF Moves, PlainOnLists, OnLists

LEMMA SleepMoves ==
    ASSUME SchedInv, PlainOnLists, NEW ms \in 1 .. MaxSleep, sys_sleep(ms)
    PROVE  Moves({}, {})
<1>1. PICK q : q = task_set_block(ready, curr)
    OBVIOUS
<1>2. PICK st : st = [state EXCEPT ![curr] = "SLEEP"]
    OBVIOUS
<1>3. /\ TaskRuns /\ sleeping' = list_insert_last(sleeping, curr)
      /\ task_dispatch(q, st)
    BY <1>1, <1>2, SleepRoundsUp DEF sys_sleep
<1>4. /\ curr \in Tasks /\ curr \in Nodes(ready)
      /\ q \in Seq(Tasks) /\ Nodes(q) = Nodes(ready) \ {curr}
    BY <1>1, <1>3, BlockCurrent
<1>5. Nodes(sleeping') = Nodes(sleeping) \cup {curr}
    <2>1. sleeping \in Seq(Tasks)
        BY ListFacts
    <2>2. Nodes(list_insert_last(sleeping, curr)) = Nodes(sleeping) \cup {curr}
        BY <1>4, <2>1, InsertLast
    <2>. QED
        BY <1>3, <2>2
<1>6. /\ st \in [AllTasks -> TaskState] /\ st[curr] = "SLEEP"
      /\ \A x \in Tasks : x # curr => st[x] = state[x]
    BY <1>2, <1>4, ListFacts DEF TaskState
<1>7. \A x \in Nodes(q) : st[x] \in Plain
    BY <1>4, <1>6, ListFacts DEF PlainOnLists, OnLists, Plain
<1>8. /\ ready' = q
      /\ \A x \in Nodes(q) : state'[x] \in Plain
      /\ \A x \in Tasks \ Nodes(q) : state'[x] = st[x]
    BY <1>3, <1>4, <1>6, <1>7, DispatchPlain
<1>. QED
    BY <1>4, <1>5, <1>6, <1>8, ListFacts DEF Moves, PlainOnLists, OnLists, Plain

LEMMA TimerMoves ==
    ASSUME SchedInv, PlainOnLists, task_time_tick \/ walk
    PROVE  Moves({}, {})
<1>1. CASE tick_in_slice \/ walk_pass
    BY <1>1 DEF tick_in_slice, walk_pass, Moves, OnLists, PlainOnLists
<1>2. CASE tick_slice_over
    <2>1. PICK q : q = task_set_ready(task_set_block(ready, curr), curr)
        OBVIOUS
    <2>2. PICK st : st = set_ready_state(state, curr)
        OBVIOUS
    <2>3. Interruptible /\ task_dispatch(q, st) /\ sleeping' = sleeping
        BY <1>2, <2>1, <2>2 DEF tick_slice_over
    <2>4. q \in Seq(Tasks) /\ Nodes(q) = Nodes(ready)
        BY <2>1, <2>3, Rotate
    <2>5. curr = Idle \/ curr \in Nodes(ready)
        BY <2>3, CurrOnReadyList
    <2>6. /\ st \in [AllTasks -> TaskState]
          /\ \A x \in Tasks : st[x] = state[x] \/ (x \in Nodes(ready) /\ st[x] = "READY")
        BY <2>2, <2>5, ListFacts DEF set_ready_state, TaskState
    <2>7. \A x \in Nodes(q) : st[x] \in Plain
        BY <2>4, <2>6, ListFacts DEF PlainOnLists, OnLists, Plain
    <2>8. /\ ready' = q
          /\ \A x \in Nodes(q) : state'[x] \in Plain
          /\ \A x \in Tasks \ Nodes(q) : state'[x] = st[x]
        BY <2>3, <2>4, <2>6, <2>7, DispatchPlain
    <2>. QED
        BY <2>3, <2>4, <2>6, <2>8, ListFacts DEF Moves, PlainOnLists, OnLists
<1>3. CASE walk_wake
    <2>1. PICK x : x = sleeping[cursor]
        OBVIOUS
    <2>2. /\ Walking /\ ready' = task_set_ready(ready, x)
          /\ sleeping' = list_remove(sleeping, x) /\ state' = set_ready_state(state, x)
        BY <1>3, <2>1 DEF walk_wake
    <2>3. x \in Tasks /\ x \in Nodes(sleeping) /\ x \notin Nodes(ready)
        BY <2>1, <2>2, AtCursor
    <2>4. Nodes(ready') = Nodes(ready) \cup {x}
        BY <2>2, <2>3, MakeReady
    <2>5. Nodes(sleeping') = Nodes(sleeping) \ {x}
        BY <2>2, <2>3, ListFacts, RemoveNode
    <2>6. state' = [state EXCEPT ![x] = "READY"]
        BY <2>2, <2>3, ListFacts DEF set_ready_state
    <2>. QED
        BY <2>3, <2>4, <2>5, <2>6, ListFacts DEF Moves, PlainOnLists, OnLists, Plain
<1>4. CASE walk_end
    <2>1. task_dispatch(ready, state) /\ sleeping' = sleeping
        BY <1>4 DEF walk_end
    <2>2. /\ ready' = ready
          /\ \A x \in Nodes(ready) : state'[x] \in Plain
          /\ \A x \in Tasks \ Nodes(ready) : state'[x] = state[x]
        BY <2>1, ListFacts, DispatchPlain DEF PlainOnLists, OnLists
    <2>. QED
        BY <2>1, <2>2, ListFacts DEF Moves, PlainOnLists, OnLists
<1>. QED
    BY <1>1, <1>2, <1>3, <1>4 DEF task_time_tick, walk

-----------------------------------------------------------------------------
(* The invariant of the processes. *)

\* A task between mutex_lock and mutex_unlock in its program owns the mutex or
\* queues for it.
TableLock ==
    /\ Distinct(Queue)
    /\ owner[TableMutex] = None <=> locked[TableMutex] = 0
    /\ locked[TableMutex] <= 1
    /\ owner[TableMutex] = None => Queue = <<>>
    /\ owner[TableMutex] \notin Nodes(Queue)
    /\ \A t \in Tasks :
          pc[t] \in HoldPoints <=> (t = owner[TableMutex] \/ t \in Nodes(Queue))

\* What task->state tells of the place of a task.
Placed(t) ==
    /\ pc[t] \in {"free", "new"} => state[t] = "CREATED"
    /\ pc[t] = "dead" => state[t] = "ZOMBIE"
    /\ t \in Live => state[t] \in Plain \cup {"WAITTING"}
    /\ t \in Live <=> t \in OnLists \/ t \in Nodes(Queue) \/ state[t] = "WAITTING"
    /\ state[t] = "WAITTING" => t \notin OnLists
    /\ t \in Nodes(Queue) => t \notin OnLists /\ state[t] # "WAITTING"

Places == \A t \in Tasks : Placed(t)

\* The slot sys_fork has chosen stays free until task_init names it, and is the
\* child of the caller when it is started; two forks under way have chosen two
\* slots.
Chosen == {"fork_init", "fork_parent", "fork_start"}

Apart ==
    \A t, u \in Tasks :
        pc[t] \in Chosen /\ pc[u] \in Chosen /\ child[t] = child[u] => t = u

ForkOf(t) ==
    /\ pc[t] = "fork_init" => child[t] \in Slots /\ pc[child[t]] = "free"
    /\ pc[t] = "fork_parent" => child[t] \in Slots /\ pc[child[t]] = "new"
    /\ pc[t] = "fork_start" => child[t] \in Slots /\ pc[child[t]] = "new" /\ parent[child[t]] = t

Forks ==
    /\ Apart
    /\ \A t \in Tasks : ForkOf(t)
    /\ \A s \in Slots : used[s] <=> pc[s] # "free"

\* The children of a task that exits have exited, and then it has none.
Exits ==
    /\ First \in Live /\ pc[First] \notin ExitPoints
    /\ \A t \in Tasks :
          /\ pc[t] = "exit_scan" => \A c \in Children(t) : pc[c] = "dead"
          /\ pc[t] \in {"exit_unlock", "exit_last"} => Children(t) = {}

LifeTypes ==
    /\ pc \in [Tasks -> Points]
    /\ child \in [Tasks -> Slots \cup {None}]
    /\ moveChild \in [Tasks -> BOOLEAN]
    /\ used \in [Slots -> BOOLEAN]
    /\ parent \in [Tasks -> Tasks \cup {None}]
    /\ forks \in 0 .. MaxForks

\* The scheduler, the mutex and the places of the tasks; and the family.
Settled == SchedInv /\ SyncTypeOK /\ pc \in [Tasks -> Points] /\ TableLock /\ Places

LifeInv == Settled /\ LifeTypes /\ Forks /\ Exits /\ ParentIsLive

-----------------------------------------------------------------------------
(* The places of the tasks. *)

LEMMA PlacesPlain == ASSUME SchedInv, Places PROVE PlainOnLists
BY ListFacts DEF Places, Placed, PlainOnLists, OnLists

(* The task that has the CPU is alive and on the ready list. *)
LEMMA RunsLive ==
    ASSUME Settled, TaskRuns
    PROVE  /\ curr \in Tasks /\ curr \in Nodes(ready) /\ curr \in OnLists /\ curr \in Live
           /\ state[curr] \in Plain
           /\ curr \notin Nodes(Queue)
           /\ pc[curr] \in Points \ {"free", "new", "dead"}
           /\ pc[curr] \in HoldPoints <=> owner[TableMutex] = curr
           /\ TableMutex \in Mutexes /\ TableMutex \in Waitables
           /\ Queue \in Seq(Tasks) /\ Nodes(Queue) \subseteq Tasks
<1>1. curr \in Tasks /\ curr \in Nodes(ready)
    BY BlockCurrent DEF Settled
<1>2. curr \in OnLists
    BY <1>1 DEF OnLists
<1>3. /\ curr \in Live /\ curr \notin Nodes(Queue) /\ state[curr] \in Plain
    BY <1>1, <1>2 DEF Settled, Places, Placed
<1>4. TableMutex \in Mutexes /\ TableMutex \in Waitables
    BY LifeAssumption DEF Waitables
<1>5. Queue \in Seq(Tasks) /\ Nodes(Queue) \subseteq Tasks
    <2>1. Queue \in Seq(Tasks)
        BY <1>4 DEF Settled, SyncTypeOK, Queue
    <2>. QED
        BY <2>1, NodesOfSeq
<1>6. pc[curr] \in HoldPoints <=> owner[TableMutex] = curr
    BY <1>1, <1>3 DEF Settled, TableLock
<1>. QED
    BY <1>1, <1>2, <1>3, <1>4, <1>5, <1>6 DEF Live, Settled

(* Steps that move no task between the places. *)
LEMMA PlacesSame ==
    ASSUME Places, Moves({}, {}), Queue' = Queue, pc' = pc
    PROVE  Places'
<1>1. /\ OnLists' = OnLists
      /\ \A t \in OnLists : state'[t] \in Plain
      /\ \A t \in Tasks : t \notin OnLists => state'[t] = state[t]
    BY DEF Moves
<1>2. Live' = Live
    BY DEF Live
<1>. SUFFICES ASSUME NEW t \in Tasks PROVE Placed(t)'
    BY DEF Places
<1>3. Placed(t)
    BY DEF Places
<1>. QED
    BY <1>1, <1>2, <1>3 DEF Placed, Live, Plain

(* The task at the CPU goes on from one point to another. *)
LEMMA PlacesGo ==
    ASSUME Places, UNCHANGED <<ready, sleeping, state>>, Queue' = Queue,
           curr \in Live, pc \in [Tasks -> Points],
           NEW q \in Points \ {"free", "new", "dead"}, Goes(q)
    PROVE  Places' /\ Live' = Live
<1>1. Live' = Live
    BY DEF Live, Goes
<1>. SUFFICES ASSUME NEW t \in Tasks PROVE Placed(t)'
    BY <1>1 DEF Places
<1>2. Placed(t)
    BY DEF Places
<1>3. pc'[t] = pc[t] \/ (t = curr /\ pc'[t] = q)
    BY DEF Goes
<1>. QED
    BY <1>1, <1>2, <1>3 DEF Placed, Live, OnLists

(* mutex_lock on the way into the table. *)
LEMMA LockStep ==
    ASSUME Settled, TaskRuns, mutex_lock(TableMutex), pc[curr] \notin HoldPoints,
           NEW q \in HoldPoints, Goes(q)
    PROVE  /\ Settled'
           /\ Live' = Live
           /\ owner[TableMutex] = None => owner'[TableMutex] = curr
           /\ owner[TableMutex] # None => owner' = owner
<1>. DEFINE m == TableMutex
<1>1. /\ curr \in Tasks /\ curr \in OnLists /\ curr \in Live /\ curr \notin Nodes(Queue)
      /\ owner[m] # curr /\ m \in Mutexes /\ m \in Waitables /\ Queue \in Seq(Tasks)
      /\ state[curr] \in Plain /\ Nodes(Queue) \subseteq Tasks
    BY RunsLive
<1>2. /\ SchedInv /\ SyncTypeOK /\ pc \in [Tasks -> Points] /\ TableLock /\ Places
      /\ q \in Points \ {"free", "new", "dead"}
    BY DEF Settled, HoldPoints, Points, ForkPoints, ExitPoints, WaitPoints
<1>3. pc' \in [Tasks -> Points] /\ pc'[curr] = q /\ \A t \in Tasks : t # curr => pc'[t] = pc[t]
    BY <1>1, <1>2 DEF Goes
<1>4. Live' = Live
    BY <1>1, <1>2, <1>3 DEF Live
<1>5. CASE mutex_lock_free(m)
    <2>1. /\ locked[m] = 0 /\ locked' = [locked EXCEPT ![m] = 1]
          /\ owner' = [owner EXCEPT ![m] = curr]
          /\ UNCHANGED schedVars /\ UNCHANGED <<count, waitList>>
        BY <1>5 DEF mutex_lock_free
    <2>2. /\ owner[m] = None /\ Queue = <<>> /\ Queue' = Queue /\ Nodes(Queue) = {}
        BY <1>2, <2>1 DEF TableLock, Queue, Nodes
    <2>3. locked'[m] = 1 /\ owner'[m] = curr /\ curr # None /\ None \notin Tasks
        BY <1>1, <1>2, <2>1, SyncAssumption DEF SyncTypeOK
    <2>4. SchedInv'
        BY <1>2, <2>1, SchedNextInv
    <2>5. SyncTypeOK'
        BY <1>1, <1>2, <2>1, <2>4, SyncAssumption DEF SyncTypeOK, SchedInv
    <2>6. TableLock'
        <3>1. Nodes(Queue)' = {} /\ Distinct(Queue)'
            BY <1>2, <2>2 DEF TableLock
        <3>. QED
            BY <1>1, <1>2, <1>3, <2>2, <2>3, <3>1 DEF TableLock
    <2>7. Places'
        BY <1>1, <1>2, <2>1, <2>2, PlacesGo DEF schedVars
    <2>. QED
        BY <1>3, <1>4, <2>2, <2>3, <2>4, <2>5, <2>6, <2>7 DEF Settled
<1>6. CASE mutex_lock_blocks(m)
    <2>1. /\ locked[m] # 0 /\ block_current
          /\ waitList' = [waitList EXCEPT ![m] = list_insert_last(Queue, curr)]
          /\ UNCHANGED <<count, locked, owner>>
        BY <1>6 DEF mutex_lock_blocks, wait_on, Queue
    <2>2. SchedInv'
        BY <1>2, <2>1, BlockInv
    <2>3. Moves({}, {curr}) /\ state'[curr] = state[curr]
        <3>1. /\ task_dispatch(task_set_block(ready, curr), state) /\ sleeping' = sleeping
              /\ state \in [AllTasks -> TaskState]
            BY <1>2, <2>1, ListFacts DEF block_current
        <3>. QED
            BY <1>2, <3>1, PlacesPlain, LeaveMoves
    <2>4. /\ Queue' \in Seq(Tasks) /\ Nodes(Queue') = Nodes(Queue) \cup {curr} /\ Distinct(Queue')
          /\ Queue' = list_insert_last(Queue, curr)
        <3>1. Queue' = list_insert_last(Queue, curr)
            BY <1>1, <1>2, <2>1 DEF Queue, SyncTypeOK
        <3>2. Distinct(Queue)
            BY <1>2 DEF TableLock
        <3>3. list_insert_last(Queue, curr) \in Seq(Tasks)
              /\ Nodes(list_insert_last(Queue, curr)) = Nodes(Queue) \cup {curr}
            BY <1>1, InsertLast
        <3>4. Distinct(list_insert_last(Queue, curr))
            BY <1>1, <3>2, InsertLastDistinct
        <3>. QED
            BY <3>1, <3>3, <3>4
    <2>5. SyncTypeOK'
        BY <1>1, <1>2, <2>1, <2>2, <2>4 DEF SyncTypeOK, SchedInv, Queue
    <2>6. owner[m] # None
        BY <1>2, <2>1 DEF TableLock
    <2>7. TableLock'
        BY <1>1, <1>2, <1>3, <2>1, <2>4, <2>6 DEF TableLock
    <2>8. Places'
        <3>. SUFFICES ASSUME NEW t \in Tasks PROVE Placed(t)'
            BY DEF Places
        <3>1. Placed(t)
            BY <1>2 DEF Places
        <3>2. /\ t \in OnLists' <=> t \in OnLists /\ t # curr
              /\ t \in OnLists' => state'[t] \in Plain
              /\ t \notin OnLists' => state'[t] = state[t]
              /\ t \in Nodes(Queue') <=> t \in Nodes(Queue) \/ t = curr
            BY <2>3, <2>4 DEF Moves
        <3>3. /\ pc'[t] \in {"free", "new", "dead"} <=> pc[t] \in {"free", "new", "dead"}
              /\ t # curr => pc'[t] = pc[t]
            BY <1>1, <1>2, <1>3 DEF Live
        <3>4. CASE t = curr
            BY <1>1, <1>2, <1>3, <1>4, <3>2, <3>4 DEF Placed, Plain
        <3>5. CASE t # curr
            <4>1. t \in OnLists => pc[t] \notin {"free", "new", "dead"}
                BY <3>1 DEF Placed, Live
            <4>. QED
                BY <1>4, <3>1, <3>2, <3>3, <3>5, <4>1 DEF Placed, Plain
        <3>. QED
            BY <3>4, <3>5
    <2>. QED
        BY <1>3, <1>4, <2>1, <2>2, <2>5, <2>6, <2>7, <2>8 DEF Settled
<1>7. ~mutex_lock_again(m)
    BY <1>1 DEF mutex_lock_again
<1>. QED
    BY <1>5, <1>6, <1>7 DEF mutex_lock

(* mutex_unlock on the way out of the table. *)
LEMMA UnlockStep ==
    ASSUME Settled, TaskRuns, mutex_unlock(TableMutex), pc[curr] \in HoldPoints,
           NEW q \in Points \ (HoldPoints \cup {"free", "new", "dead"}), Goes(q)
    PROVE  Settled' /\ Live' = Live /\ owner[TableMutex] = curr
<1>. DEFINE m == TableMutex
<1>1. /\ curr \in Tasks /\ curr \in OnLists /\ curr \in Live /\ curr \notin Nodes(Queue)
      /\ owner[m] = curr /\ m \in Mutexes /\ m \in Waitables /\ Queue \in Seq(Tasks)
      /\ Nodes(Queue) \subseteq Tasks
    BY RunsLive
<1>2. SchedInv /\ SyncTypeOK /\ pc \in [Tasks -> Points] /\ TableLock /\ Places
    BY DEF Settled
<1>3. pc' \in [Tasks -> Points] /\ pc'[curr] = q /\ \A t \in Tasks : t # curr => pc'[t] = pc[t]
    BY <1>1, <1>2 DEF Goes
<1>4. Live' = Live
    BY <1>1, <1>2, <1>3 DEF Live
<1>5. ~mutex_unlock_inner(m)
    BY <1>1, <1>2 DEF mutex_unlock_inner, TableLock, SyncTypeOK
<1>6. CASE mutex_unlock_frees(m)
    <2>1. /\ Queue = <<>> /\ locked' = [locked EXCEPT ![m] = 0]
          /\ owner' = [owner EXCEPT ![m] = None]
          /\ UNCHANGED schedVars /\ UNCHANGED <<count, waitList>>
        BY <1>6 DEF mutex_unlock_frees, Queue
    <2>2. Queue' = Queue /\ Nodes(Queue) = {}
        BY <2>1 DEF Queue, Nodes
    <2>3. locked'[m] = 0 /\ owner'[m] = None /\ None \notin Tasks
        BY <1>1, <1>2, <2>1, SyncAssumption DEF SyncTypeOK
    <2>4. SchedInv'
        BY <1>2, <2>1, SchedNextInv
    <2>5. SyncTypeOK'
        BY <1>1, <1>2, <2>1, <2>4, SyncAssumption DEF SyncTypeOK, SchedInv
    <2>6. TableLock'
        BY <1>1, <1>2, <1>3, <2>1, <2>2, <2>3 DEF TableLock
    <2>7. Places'
        BY <1>1, <1>2, <2>1, <2>2, PlacesGo DEF schedVars
    <2>. QED
        BY <1>1, <1>3, <1>4, <2>4, <2>5, <2>6, <2>7 DEF Settled
<1>7. CASE mutex_unlock_hands_over(m)
    <2>1. PICK x : x = list_first(Queue)
        OBVIOUS
    <2>2. /\ Queue # <<>> /\ unblock(x)
          /\ waitList' = [waitList EXCEPT ![m] = list_remove_first(Queue)]
          /\ locked' = [locked EXCEPT ![m] = 1] /\ owner' = [owner EXCEPT ![m] = x]
          /\ count' = count
        BY <1>7, <2>1 DEF mutex_unlock_hands_over, wake_first, Queue
    <2>3. Distinct(Queue)
        BY <1>2 DEF TableLock
    <2>4. x \in Nodes(Queue) /\ x \in Tasks /\ list_remove_first(Queue) = list_remove(Queue, x)
        BY <1>1, <2>1, <2>2, <2>3, RemoveFirst
    <2>5. SchedInv'
        BY <1>2, <2>2, <2>4, UnblockInv
    <2>6. Moves({x}, {})
        BY <1>2, <2>2, <2>4, PlacesPlain, UnblockMoves
    <2>7. /\ Queue' \in Seq(Tasks) /\ Nodes(Queue') = Nodes(Queue) \ {x} /\ Distinct(Queue')
          /\ Queue' = list_remove(Queue, x)
        <3>1. Queue' = list_remove(Queue, x)
            BY <1>1, <1>2, <2>2, <2>4 DEF Queue, SyncTypeOK
        <3>. QED
            BY <1>1, <2>3, <2>4, <3>1, RemoveNode
    <2>8. locked'[m] = 1 /\ owner'[m] = x /\ x # curr /\ x # None
        BY <1>1, <1>2, <2>2, <2>4, SyncAssumption DEF SyncTypeOK
    <2>9. SyncTypeOK'
        BY <1>1, <1>2, <2>2, <2>4, <2>5, <2>7, SyncAssumption DEF SyncTypeOK, SchedInv, Queue
    <2>10. TableLock'
        BY <1>1, <1>2, <1>3, <2>4, <2>7, <2>8 DEF TableLock
    <2>11. Places'
        <3>. SUFFICES ASSUME NEW t \in Tasks PROVE Placed(t)'
            BY DEF Places
        <3>1. Placed(t)
            BY <1>2 DEF Places
        <3>2. /\ t \in OnLists' <=> t \in OnLists \/ t = x
              /\ t \in OnLists' => state'[t] \in Plain
              /\ t \notin OnLists' => state'[t] = state[t]
              /\ t \in Nodes(Queue') <=> t \in Nodes(Queue) /\ t # x
            BY <2>6, <2>7 DEF Moves
        <3>3. pc'[t] \in {"free", "new", "dead"} <=> pc[t] \in {"free", "new", "dead"}
            BY <1>1, <1>3 DEF Live
        <3>. QED
            BY <1>1, <1>3, <1>4, <2>4, <3>1, <3>2, <3>3 DEF Placed, Plain, Live
    <2>. QED
        BY <1>1, <1>3, <1>4, <2>5, <2>9, <2>10, <2>11 DEF Settled
<1>. QED
    BY <1>5, <1>6, <1>7 DEF mutex_unlock, mutex_unlock_last

-----------------------------------------------------------------------------
(* The steps of the processes. *)

LEMMA LifeInitInv == LifeInit => LifeInv
<1>. SUFFICES ASSUME LifeInit PROVE LifeInv
    OBVIOUS
<1>1. SchedInv /\ SyncInv
    BY SyncInitInv DEF LifeInit
<1>2. TableMutex \in Mutexes /\ TableMutex \in Waitables
    BY LifeAssumption DEF Waitables
<1>3. /\ First \in Tasks /\ First \notin Slots /\ Idle \notin Tasks /\ None \notin Tasks
      /\ Slots \subseteq Tasks
    BY SchedAssumption, SyncAssumption DEF Slots
<1>4. /\ \A t \in Tasks : pc[t] = IF t = First THEN "user" ELSE "free"
      /\ \A t \in Tasks : parent[t] = None
      /\ \A t \in Slots : ~used[t]
    BY DEF LifeInit
<1>5. LifeTypes /\ pc \in [Tasks -> Points]
    BY <1>3, LifeAssumption DEF LifeInit, LifeTypes, Points
<1>6. Queue = <<>> /\ Nodes(Queue) = {}
    BY <1>2 DEF LifeInit, SyncInit, Queue, Nodes
<1>7. owner[TableMutex] = None /\ locked[TableMutex] = 0
    BY <1>2 DEF LifeInit, SyncInit
<1>8. TableLock
    BY <1>3, <1>4, <1>6, <1>7 DEF TableLock, HoldPoints, Distinct, LifeInit
<1>9. Live = {First}
    BY <1>3, <1>4 DEF Live
<1>10. OnLists = {First}
    <2>1. ready = <<First>> /\ Len(ready) = 1 /\ ready[1] = First /\ sleeping = <<>>
        BY DEF LifeInit, SyncInit, SchedInit
    <2>. QED
        BY <2>1 DEF OnLists, Nodes
<1>11. \A t \in Tasks : state[t] = IF t = First THEN "READY" ELSE "CREATED"
    BY DEF LifeInit, SyncInit, SchedInit, AllTasks
<1>12. Places
    BY <1>3, <1>4, <1>6, <1>9, <1>10, <1>11 DEF Places, Placed, Plain
<1>13. Forks
    BY <1>3, <1>4 DEF Forks, Apart, Chosen, ForkOf
<1>14. Exits /\ ParentIsLive
    BY <1>3, <1>4, <1>9 DEF Exits, ExitPoints, ParentIsLive
<1>. QED
    BY <1>1, <1>5, <1>8, <1>12, <1>13, <1>14 DEF LifeInv, Settled, SyncInv

(* The timer, and a task that sleeps. *)
LEMMA TimerStep ==
    ASSUME LifeInv, task_time_tick \/ walk \/ (\E ms \in 1 .. MaxSleep : sys_sleep(ms)),
           UNCHANGED <<syncVars, lifeVars>>
    PROVE  LifeInv'
<1>1. Settled /\ SchedInv /\ SyncTypeOK /\ TableLock /\ Places
    BY DEF LifeInv, Settled
<1>2. /\ UNCHANGED <<count, locked, owner, waitList>>
      /\ UNCHANGED <<pc, child, moveChild, used, parent, forks>>
    BY DEF syncVars, lifeVars
<1>3. SchedInv'
    BY <1>1, SchedNextInv DEF SchedNext
<1>4. Moves({}, {})
    BY <1>1, PlacesPlain, TimerMoves, SleepMoves
<1>5. Places'
    BY <1>1, <1>2, <1>4, PlacesSame DEF Queue
<1>6. SyncTypeOK' /\ TableLock'
    BY <1>1, <1>2, <1>3 DEF SyncTypeOK, SchedInv, TableLock, Queue
<1>7. LifeTypes' /\ Forks' /\ Exits' /\ ParentIsLive' /\ pc' \in [Tasks -> Points]
    BY <1>1, <1>2 DEF LifeInv, Settled, LifeTypes, Forks, Apart, ForkOf, Exits, Children,
                      Live, ParentIsLive
<1>. QED
    BY <1>3, <1>5, <1>6, <1>7 DEF LifeInv, Settled

(* The rest of the invariant, for a step of the current task from one point to *)
(* another that changes no parent.                                            *)
LEMMA FamilyGoes ==
    ASSUME LifeInv, parent' = parent, Live' = Live, curr \in Live,
           NEW q \in Points \ {"free", "new", "dead"}, Goes(q),
           q \in ExitPoints => curr # First,
           q = "exit_scan" => \A c \in Children(curr) : pc[c] = "dead",
           q \in {"exit_unlock", "exit_last"} => Children(curr) = {}
    PROVE  Exits' /\ ParentIsLive'
<1>1. /\ pc \in [Tasks -> Points] /\ Exits /\ ParentIsLive
      /\ curr \in Tasks /\ pc[curr] \notin {"free", "new", "dead"} /\ Slots \subseteq Tasks
      /\ First \in Tasks
    BY SchedAssumption DEF LifeInv, Settled, Live, Slots
<1>2. pc'[curr] = q /\ \A t \in Tasks : t # curr => pc'[t] = pc[t]
    BY <1>1 DEF Goes
<1>3. \A t \in Tasks : Children(t)' = Children(t) /\ Children(t) \subseteq Slots
    BY DEF Children
<1>4. \A c \in Tasks : pc'[c] = "dead" <=> pc[c] = "dead"
    BY <1>1, <1>2
<1>5. Exits'
    BY <1>1, <1>2, <1>3, <1>4 DEF Exits
<1>6. ParentIsLive'
    BY <1>1, <1>4 DEF ParentIsLive
<1>. QED
    BY <1>5, <1>6

(* A step of the current task that is not on the way of a fork. *)
LEMMA ForksGo ==
    ASSUME LifeInv, UNCHANGED <<child, used, parent, forks>>, curr \in Live,
           NEW q \in Points \ (ForkPoints \cup {"free", "new", "dead"}), Goes(q),
           \A t \in Tasks \ {curr} : owner[TableMutex] = t => owner'[TableMutex] = t
    PROVE  Forks'
<1>1. /\ pc \in [Tasks -> Points] /\ Forks
      /\ curr \in Tasks /\ pc[curr] \notin {"free", "new", "dead"} /\ Slots \subseteq Tasks
    BY DEF LifeInv, Settled, Live, Slots
<1>2. pc'[curr] = q /\ \A t \in Tasks : t # curr => pc'[t] = pc[t]
    BY <1>1 DEF Goes
<1>3. Apart'
    BY <1>1, <1>2 DEF Forks, Apart, Chosen, ForkPoints
<1>4. ASSUME NEW t \in Tasks PROVE ForkOf(t)'
    <2>1. CASE t = curr
        BY <1>2, <2>1 DEF ForkOf, ForkPoints
    <2>2. CASE t # curr
        <3>1. ForkOf(t) /\ pc'[t] = pc[t]
            BY <1>1, <1>2, <2>2 DEF Forks
        <3>2. \A c \in Slots : pc[c] \in {"free", "new"} => pc'[c] = pc[c]
            BY <1>1, <1>2
        <3>. QED
            BY <2>2, <3>1, <3>2 DEF ForkOf
    <2>. QED
        BY <2>1, <2>2
<1>5. \A s \in Slots : used'[s] <=> pc'[s] # "free"
    BY <1>1, <1>2 DEF Forks
<1>. QED
    BY <1>3, <1>4, <1>5 DEF Forks

LEMMA GoesOn ==
    ASSUME LifeInv, Settled', UNCHANGED <<child, moveChild, used, parent, forks>>,
           Live' = Live, curr \in Live,
           NEW q \in Points \ (ForkPoints \cup {"free", "new", "dead"}), Goes(q),
           \A t \in Tasks \ {curr} : owner[TableMutex] = t => owner'[TableMutex] = t,
           q \in ExitPoints => curr # First,
           q = "exit_scan" => \A c \in Children(curr) : pc[c] = "dead",
           q \in {"exit_unlock", "exit_last"} => Children(curr) = {}
    PROVE  LifeInv'
<1>1. Forks'
    BY ForksGo
<1>2. Exits' /\ ParentIsLive'
    BY FamilyGoes
<1>3. LifeTypes'
    BY DEF LifeInv, LifeTypes, Settled
<1>. QED
    BY <1>1, <1>2, <1>3 DEF LifeInv

(* What the running task knows. *)
LEMMA AtFacts ==
    ASSUME LifeInv, NEW p, At(p)
    PROVE  /\ Settled /\ TaskRuns /\ pc[curr] = p /\ curr \in Live /\ curr \in Tasks
           /\ p \in HoldPoints <=> owner[TableMutex] = curr
           /\ ForkOf(curr) /\ Slots \subseteq Tasks /\ First \in Tasks /\ First \notin Slots
           /\ pc \in [Tasks -> Points]
<1>1. Settled /\ TaskRuns /\ pc[curr] = p /\ Forks
    BY DEF LifeInv, At
<1>2. /\ curr \in Live /\ curr \in Tasks
      /\ pc[curr] \in HoldPoints <=> owner[TableMutex] = curr
    BY <1>1, RunsLive
<1>3. Slots \subseteq Tasks /\ First \in Tasks /\ First \notin Slots
    BY SchedAssumption DEF Slots
<1>. QED
    BY <1>1, <1>2, <1>3 DEF Forks, Settled

(* The steps that go into the table and out of it, and those of a parent that *)
(* finds no zombie.                                                           *)
LEMMA WaitStep ==
    ASSUME LifeInv, wait_lock \/ wait_none \/ wait_return \/ wait_release
    PROVE  LifeInv'
<1>1. CASE wait_lock
    <2>1. PICK p \in {"user", "wait_again"} : At(p)
        BY <1>1 DEF wait_lock
    <2>2. /\ mutex_lock(TableMutex) /\ Goes("wait_scan")
          /\ UNCHANGED <<child, moveChild, used, parent, forks>>
        BY <1>1 DEF wait_lock
    <2>3. p \notin HoldPoints /\ "wait_scan" \in HoldPoints
        BY <2>1 DEF HoldPoints
    <2>4. Settled /\ TaskRuns /\ pc[curr] = p /\ curr \in Live
        BY <2>1, AtFacts
    <2>5. /\ Settled' /\ Live' = Live
          /\ owner[TableMutex] # None => owner' = owner
        BY <2>2, <2>3, <2>4, LockStep
    <2>6. None \notin Tasks
        BY SyncAssumption
    <2>7. \A t \in Tasks \ {curr} : owner[TableMutex] = t => owner'[TableMutex] = t
        BY <2>5, <2>6
    <2>8. "wait_scan" \in Points \ (ForkPoints \cup ExitPoints \cup {"free", "new", "dead"})
        BY DEF Points, ForkPoints, ExitPoints, WaitPoints
    <2>. QED
        BY <2>2, <2>4, <2>5, <2>7, <2>8, GoesOn DEF ExitPoints
<1>2. CASE wait_none
    <2>1. /\ At("wait_scan") /\ Goes("wait_release") /\ UNCHANGED vars
          /\ UNCHANGED <<child, moveChild, used, parent, forks>>
        BY <1>2 DEF wait_none
    <2>2. UNCHANGED schedVars /\ UNCHANGED <<count, locked, owner, waitList>>
        BY <2>1 DEF vars, syncVars
    <2>3. /\ "wait_release" \in Points \ (ForkPoints \cup ExitPoints \cup {"free", "new", "dead"})
          /\ "wait_scan" \in HoldPoints /\ "wait_release" \in HoldPoints
        BY DEF Points, ForkPoints, ExitPoints, WaitPoints, HoldPoints
    <2>4. /\ Settled /\ TaskRuns /\ pc[curr] = "wait_scan" /\ curr \in Live /\ curr \in Tasks
          /\ pc \in [Tasks -> Points]
        BY <2>1, AtFacts
    <2>5. SchedInv' /\ SyncTypeOK'
        BY <2>2, <2>4, SchedNextInv DEF Settled, SyncTypeOK, SchedInv
    <2>6. Places' /\ Live' = Live
        BY <2>1, <2>2, <2>3, <2>4, PlacesGo DEF Settled, Queue, schedVars
    <2>7. /\ pc' \in [Tasks -> Points] /\ pc'[curr] = "wait_release"
          /\ \A t \in Tasks : t # curr => pc'[t] = pc[t]
        BY <2>1, <2>3, <2>4 DEF Goes
    <2>8. TableLock'
        BY <2>2, <2>3, <2>4, <2>7 DEF Settled, TableLock, Queue
    <2>9. Settled'
        BY <2>5, <2>6, <2>7, <2>8 DEF Settled
    <2>. QED
        BY <2>1, <2>2, <2>3, <2>4, <2>6, <2>9, GoesOn DEF ExitPoints
<1>3. CASE wait_return \/ wait_release
    <2>1. PICK p \in {"wait_return", "wait_release"}, q \in {"user", "wait_block"} :
             At(p) /\ Goes(q)
        BY <1>3 DEF wait_return, wait_release
    <2>2. /\ mutex_unlock(TableMutex)
          /\ UNCHANGED <<child, moveChild, used, parent, forks>>
        BY <1>3 DEF wait_return, wait_release
    <2>3. /\ p \in HoldPoints
          /\ q \in Points \ (HoldPoints \cup {"free", "new", "dead"})
          /\ q \in Points \ (ForkPoints \cup ExitPoints \cup {"free", "new", "dead"})
        BY <2>1 DEF Points, ForkPoints, ExitPoints, WaitPoints, HoldPoints
    <2>4. Settled /\ TaskRuns /\ pc[curr] = p /\ curr \in Live
        BY <2>1, AtFacts
    <2>5. Settled' /\ Live' = Live /\ owner[TableMutex] = curr
        BY <2>1, <2>2, <2>3, <2>4, UnlockStep
    <2>. QED
        BY <2>1, <2>2, <2>3, <2>4, <2>5, GoesOn DEF ExitPoints
<1>. QED
    BY <1>1, <1>2, <1>3

(* The parent blocks. *)
LEMMA WaitBlockStep ==
    ASSUME LifeInv, wait_block
    PROVE  LifeInv'
<1>1. PICK st : st = [state EXCEPT ![curr] = "WAITTING"]
    OBVIOUS
<1>2. PICK q : q = task_set_block(ready, curr)
    OBVIOUS
<1>3. /\ At("wait_block") /\ Goes("wait_again") /\ task_dispatch(q, st)
      /\ UNCHANGED <<sleeping, sleepTicks, slice, owing, cursor>>
      /\ UNCHANGED <<count, locked, owner, waitList>>
      /\ UNCHANGED <<child, moveChild, used, parent, forks>>
    BY <1>1, <1>2 DEF wait_block, syncVars
<1>4. /\ Settled /\ TaskRuns /\ pc[curr] = "wait_block" /\ curr \in Live /\ curr \in Tasks
      /\ pc \in [Tasks -> Points]
    BY <1>3, AtFacts
<1>5. SchedInv /\ SyncTypeOK /\ TableLock /\ Places /\ PlainOnLists
    BY <1>4, PlacesPlain DEF Settled
<1>6. curr \in OnLists /\ curr \notin Nodes(Queue)
    BY <1>4, RunsLive
<1>7. /\ st \in [AllTasks -> TaskState] /\ st[curr] = "WAITTING"
      /\ \A t \in Tasks : t # curr => st[t] = state[t]
    BY <1>1, <1>4, <1>5, ListFacts DEF TaskState
<1>8. Moves({}, {curr}) /\ state'[curr] = "WAITTING"
    BY <1>2, <1>3, <1>4, <1>5, <1>7, LeaveMoves
<1>9. SchedInv'
    <2>1. /\ q \in Seq(Tasks) /\ Distinct(q) /\ Nodes(q) = Nodes(ready) \ {curr}
        BY <1>2, <1>4, <1>5, BlockCurrent
    <2>2. \A t \in Nodes(q) \cup Nodes(sleeping) : st[t] # "CREATED"
        BY <1>5, <1>7, <2>1, ListFacts DEF SchedInv, OnePlace
    <2>. QED
        BY <1>3, <1>4, <1>5, <1>7, <2>1, <2>2, ListFacts, LeaveInv
<1>10. /\ pc' \in [Tasks -> Points] /\ pc'[curr] = "wait_again"
       /\ \A t \in Tasks : t # curr => pc'[t] = pc[t]
    BY <1>3, <1>4 DEF Goes, Points, WaitPoints
<1>11. Live' = Live
    BY <1>4, <1>10 DEF Live
<1>12. TableLock' /\ SyncTypeOK'
    BY <1>3, <1>4, <1>5, <1>9, <1>10 DEF TableLock, SyncTypeOK, SchedInv, Queue, HoldPoints
<1>13. Places'
    <2>. SUFFICES ASSUME NEW t \in Tasks PROVE Placed(t)'
        BY DEF Places
    <2>1. Placed(t) /\ Queue' = Queue
        BY <1>3, <1>5 DEF Places, Queue
    <2>2. /\ t \in OnLists' <=> t \in OnLists /\ t # curr
          /\ t \in OnLists' => state'[t] \in Plain
          /\ t \notin OnLists' /\ t # curr => state'[t] = state[t]
        BY <1>8 DEF Moves
    <2>3. CASE t = curr
        BY <1>4, <1>6, <1>8, <1>10, <1>11, <2>1, <2>2, <2>3 DEF Placed
    <2>4. CASE t # curr
        <3>1. t \in OnLists => pc[t] \notin {"free", "new", "dead"}
            BY <2>1 DEF Placed, Live
        <3>. QED
            BY <1>10, <1>11, <2>1, <2>2, <2>4, <3>1 DEF Placed, Plain
    <2>. QED
        BY <2>3, <2>4
<1>14. Settled'
    BY <1>9, <1>10, <1>12, <1>13 DEF Settled
<1>15. "wait_again" \in Points \ (ForkPoints \cup ExitPoints \cup {"free", "new", "dead"})
    BY DEF Points, ForkPoints, ExitPoints, WaitPoints
<1>. QED
    BY <1>3, <1>4, <1>11, <1>14, <1>15, GoesOn DEF ExitPoints

(* sys_fork enters the table. *)
LEMMA ForkLockStep ==
    ASSUME LifeInv, fork_lock
    PROVE  LifeInv'
<1>1. /\ At("user") /\ mutex_lock(TableMutex) /\ Goes("fork_scan")
      /\ forks < MaxForks /\ forks' = forks + 1
      /\ UNCHANGED <<child, moveChild, used, parent>>
    BY DEF fork_lock
<1>2. /\ "user" \notin HoldPoints /\ "fork_scan" \in HoldPoints
      /\ "fork_scan" \in Points \ (ExitPoints \cup {"free", "new", "dead"})
    BY DEF Points, ForkPoints, ExitPoints, WaitPoints, HoldPoints
<1>3. /\ Settled /\ TaskRuns /\ pc[curr] = "user" /\ curr \in Live /\ curr \in Tasks
      /\ pc \in [Tasks -> Points] /\ Slots \subseteq Tasks
    BY <1>1, AtFacts
<1>4. /\ Settled' /\ Live' = Live
      /\ owner[TableMutex] = None => owner'[TableMutex] = curr
    BY <1>1, <1>2, <1>3, LockStep
<1>5. Exits' /\ ParentIsLive'
    BY <1>1, <1>2, <1>3, <1>4, FamilyGoes DEF ExitPoints
<1>6. pc'[curr] = "fork_scan" /\ \A t \in Tasks : t # curr => pc'[t] = pc[t]
    BY <1>1, <1>3 DEF Goes
<1>7. Forks'
    <2>1. Apart'
        BY <1>1, <1>3, <1>6 DEF LifeInv, Forks, Apart, Chosen
    <2>2. ASSUME NEW t \in Tasks PROVE ForkOf(t)'
        <3>1. CASE t = curr
            BY <1>6, <3>1 DEF ForkOf
        <3>2. CASE t # curr
            <4>1. ForkOf(t) /\ pc'[t] = pc[t]
                BY <1>6, <3>2 DEF LifeInv, Forks
            <4>2. \A c \in Slots : pc[c] \in {"free", "new"} => pc'[c] = pc[c]
                BY <1>3, <1>6
            <4>. QED
                BY <1>1, <4>1, <4>2 DEF ForkOf
        <3>. QED
            BY <3>1, <3>2
    <2>3. \A s \in Slots : used'[s] <=> pc'[s] # "free"
        BY <1>1, <1>3, <1>6 DEF LifeInv, Forks
    <2>. QED
        BY <2>1, <2>2, <2>3 DEF Forks
<1>8. LifeTypes'
    BY <1>1, <1>4, LifeAssumption DEF LifeInv, LifeTypes, Settled
<1>. QED
    BY <1>4, <1>5, <1>7, <1>8 DEF LifeInv

(* sys_fork leaves the table with a slot, or without. *)
LEMMA ForkScanStep ==
    ASSUME LifeInv, ~SlotsClash, fork_scan \/ fork_fails
    PROVE  LifeInv'
<1>1. PICK q \in {"fork_init", "user"} :
         /\ At("fork_scan") /\ mutex_unlock(TableMutex) /\ Goes(q)
         /\ UNCHANGED <<moveChild, used, parent, forks>>
         /\ \/ q = "user" /\ child' = child
            \/ /\ q = "fork_init"
               /\ \E s \in Slots : /\ ~used[s] /\ \A t \in Tasks : child[t] # s
                                    /\ child' = [child EXCEPT ![curr] = s]
    BY DEF fork_scan, fork_fails, alloc_task
<1>2. /\ "fork_scan" \in HoldPoints
      /\ q \in Points \ (HoldPoints \cup {"free", "new", "dead"})
      /\ q \in Points \ (ExitPoints \cup {"free", "new", "dead"})
    BY <1>1 DEF Points, ForkPoints, ExitPoints, WaitPoints, HoldPoints
<1>3. /\ Settled /\ TaskRuns /\ pc[curr] = "fork_scan" /\ curr \in Live /\ curr \in Tasks
      /\ pc \in [Tasks -> Points] /\ Slots \subseteq Tasks /\ ForkOf(curr)
    BY <1>1, AtFacts
<1>4. Settled' /\ Live' = Live /\ owner[TableMutex] = curr
    BY <1>1, <1>2, <1>3, UnlockStep
<1>5. Exits' /\ ParentIsLive'
    BY <1>1, <1>2, <1>3, <1>4, FamilyGoes DEF ExitPoints
<1>6. pc'[curr] = q /\ \A t \in Tasks : t # curr => pc'[t] = pc[t]
    BY <1>1, <1>3 DEF Goes
<1>7. CASE q = "user"
    <2>1. q \in Points \ (ForkPoints \cup {"free", "new", "dead"})
        BY <1>2, <1>7 DEF ForkPoints
    <2>2. Forks'
        BY <1>1, <1>3, <1>4, <1>7, <2>1, ForksGo
    <2>. QED
        BY <1>1, <1>4, <1>5, <1>7, <2>2 DEF LifeInv, LifeTypes, Settled
<1>8. CASE q = "fork_init"
    <2>1. PICK s \in Slots : /\ ~used[s] /\ \A t \in Tasks : child[t] # s
                              /\ child' = [child EXCEPT ![curr] = s]
        BY <1>1, <1>8
    <2>2. pc[s] = "free" /\ s # curr /\ pc'[s] = "free"
        BY <1>3, <1>6, <2>1 DEF LifeInv, Forks
    <2>4. /\ child' \in [Tasks -> Slots \cup {None}] /\ child'[curr] = s
          /\ \A t \in Tasks : t # curr => child'[t] = child[t]
        BY <1>3, <2>1 DEF LifeInv, LifeTypes
    <2>6. Forks'
        <3>1. Apart'
            BY <1>6, <2>1, <2>4 DEF LifeInv, Forks, Apart
        <3>2. ASSUME NEW t \in Tasks PROVE ForkOf(t)'
            <4>1. CASE t = curr
                BY <1>6, <1>8, <2>2, <2>4, <4>1 DEF ForkOf
            <4>2. CASE t # curr
                <5>1. ForkOf(t) /\ pc'[t] = pc[t] /\ child'[t] = child[t]
                    BY <1>6, <2>4, <4>2 DEF LifeInv, Forks
                <5>2. \A c \in Slots : pc[c] \in {"free", "new"} => pc'[c] = pc[c]
                    BY <1>3, <1>6
                <5>. QED
                    BY <1>1, <5>1, <5>2 DEF ForkOf
            <4>. QED
                BY <4>1, <4>2
        <3>3. \A x \in Slots : used'[x] <=> pc'[x] # "free"
            BY <1>1, <1>3, <1>6, <1>8 DEF LifeInv, Forks
        <3>. QED
            BY <3>1, <3>2, <3>3 DEF Forks
    <2>7. LifeTypes'
        BY <1>1, <1>4, <2>4 DEF LifeInv, LifeTypes, Settled
    <2>. QED
        BY <1>4, <1>5, <2>6, <2>7 DEF LifeInv
<1>. QED
    BY <1>1, <1>7, <1>8

(* task_init makes the slot a task that is not started yet. *)
LEMMA ForkInitStep ==
    ASSUME LifeInv, fork_init
    PROVE  LifeInv'
<1>1. PICK c : c = child[curr]
    OBVIOUS
<1>2. /\ At("fork_init")
      /\ used' = [used EXCEPT ![c] = TRUE] /\ parent' = [parent EXCEPT ![c] = None]
      /\ state' = [state EXCEPT ![c] = "CREATED"]
      /\ pc' = [pc EXCEPT ![c] = "new", ![curr] = "fork_parent"]
      /\ UNCHANGED <<curr, ready, sleeping, sleepTicks, slice, owing, cursor>>
      /\ UNCHANGED <<count, locked, owner, waitList>>
      /\ UNCHANGED <<child, moveChild, forks>>
    BY <1>1 DEF fork_init, syncVars
<1>3. /\ Settled /\ TaskRuns /\ pc[curr] = "fork_init" /\ curr \in Live /\ curr \in Tasks
      /\ pc \in [Tasks -> Points] /\ Slots \subseteq Tasks /\ ForkOf(curr)
      /\ First \in Tasks /\ First \notin Slots
    BY <1>2, AtFacts
<1>4. /\ SchedInv /\ SyncTypeOK /\ TableLock /\ Places /\ LifeTypes /\ Forks /\ Exits
      /\ ParentIsLive /\ None \notin Tasks
    BY <1>3, SyncAssumption DEF LifeInv, Settled
<1>5. /\ c \in Slots /\ c \in Tasks /\ pc[c] = "free" /\ c # curr
      /\ state[c] = "CREATED"
    BY <1>1, <1>3, <1>4 DEF ForkOf, Places, Placed
<1>6. state' = state
    BY <1>2, <1>4, <1>5, ListFacts
<1>7. /\ pc' \in [Tasks -> Points] /\ pc'[c] = "new" /\ pc'[curr] = "fork_parent"
      /\ \A t \in Tasks : t # c /\ t # curr => pc'[t] = pc[t]
    BY <1>2, <1>3, <1>5 DEF Points, ForkPoints
<1>8. Live' = Live
    BY <1>3, <1>5, <1>7 DEF Live
<1>9. SchedInv' /\ SyncTypeOK'
    <2>1. UNCHANGED schedVars
        BY <1>2, <1>6 DEF schedVars
    <2>2. SchedInv'
        BY <1>4, <2>1, SchedNextInv
    <2>. QED
        BY <1>2, <1>4, <2>2 DEF SyncTypeOK, SchedInv
<1>10. TableLock'
    BY <1>2, <1>3, <1>4, <1>5, <1>7 DEF TableLock, Queue, HoldPoints
<1>11. Places'
    <2>. SUFFICES ASSUME NEW t \in Tasks PROVE Placed(t)'
        BY DEF Places
    <2>1. Placed(t) /\ Queue' = Queue /\ OnLists' = OnLists
        BY <1>2, <1>4 DEF Places, Queue, OnLists
    <2>2. CASE t = c
        BY <1>5, <1>6, <1>7, <1>8, <2>1, <2>2 DEF Placed
    <2>3. CASE t = curr
        BY <1>3, <1>6, <1>7, <1>8, <2>1, <2>3 DEF Placed
    <2>4. CASE t # c /\ t # curr
        BY <1>6, <1>7, <1>8, <2>1, <2>4 DEF Placed
    <2>. QED
        BY <2>2, <2>3, <2>4
<1>12. LifeTypes'
    <2>1. /\ used' \in [Slots -> BOOLEAN] /\ parent' \in [Tasks -> Tasks \cup {None}]
        BY <1>2, <1>4 DEF LifeTypes
    <2>. QED
        BY <1>2, <1>4, <1>7, <2>1 DEF LifeTypes
<1>13. Forks'
    <2>1. \A t \in Tasks : pc'[t] \in Chosen => pc[t] \in Chosen
        BY <1>3, <1>5, <1>7 DEF Chosen
    <2>2. \A t \in Tasks : t # curr /\ pc[t] \in Chosen => child[t] # c
        BY <1>1, <1>3, <1>4 DEF Forks, Apart, Chosen
    <2>3. Apart'
        BY <1>2, <1>4, <2>1 DEF Forks, Apart
    <2>4. ASSUME NEW t \in Tasks PROVE ForkOf(t)'
        <3>1. CASE t = curr
            BY <1>1, <1>2, <1>5, <1>7, <3>1 DEF ForkOf
        <3>2. CASE t = c
            BY <1>5, <1>7, <3>2 DEF ForkOf
        <3>3. CASE t # curr /\ t # c
            <4>1. ForkOf(t) /\ pc'[t] = pc[t] /\ (pc[t] \in Chosen => child[t] # c)
                BY <1>4, <1>7, <2>2, <3>3 DEF Forks
            <4>2. \A x \in Slots : x # c /\ pc[x] \in {"free", "new"} =>
                                        pc'[x] = pc[x] /\ parent'[x] = parent[x]
                BY <1>2, <1>3, <1>4, <1>7 DEF LifeTypes
            <4>. QED
                BY <1>2, <4>1, <4>2 DEF ForkOf, Chosen
        <3>. QED
            BY <3>1, <3>2, <3>3
    <2>5. \A x \in Slots : used'[x] <=> pc'[x] # "free"
        BY <1>2, <1>3, <1>4, <1>5, <1>7 DEF Forks, LifeTypes
    <2>. QED
        BY <2>3, <2>4, <2>5 DEF Forks
<1>14. parent'[c] = None /\ \A t \in Tasks : t # c => parent'[t] = parent[t]
    BY <1>2, <1>4, <1>5 DEF LifeTypes
<1>15. Exits'
    <2>1. \A t \in Tasks : /\ Children(t)' \subseteq Children(t) /\ c \notin Children(t)'
                           /\ Children(t) \subseteq Slots
        BY <1>3, <1>4, <1>14 DEF Children
    <2>2. First # c /\ pc'[First] \notin ExitPoints
        BY <1>3, <1>4, <1>5, <1>7 DEF Exits, ExitPoints
    <2>. QED
        BY <1>3, <1>4, <1>7, <1>8, <2>1, <2>2 DEF Exits
<1>16. ParentIsLive'
    BY <1>3, <1>4, <1>5, <1>7, <1>8, <1>14 DEF ParentIsLive, Live
<1>. QED
    BY <1>7, <1>9, <1>10, <1>11, <1>12, <1>13, <1>15, <1>16 DEF LifeInv, Settled

LEMMA ForkParentStep ==
    ASSUME LifeInv, fork_parent
    PROVE  LifeInv'
<1>1. PICK c : c = child[curr]
    OBVIOUS
<1>2. /\ At("fork_parent") /\ Goes("fork_start")
      /\ parent' = [parent EXCEPT ![c] = curr]
      /\ UNCHANGED schedVars /\ UNCHANGED <<count, locked, owner, waitList>>
      /\ UNCHANGED <<child, moveChild, used, forks>>
    BY <1>1 DEF fork_parent, vars, syncVars
<1>3. /\ Settled /\ TaskRuns /\ pc[curr] = "fork_parent" /\ curr \in Live /\ curr \in Tasks
      /\ pc \in [Tasks -> Points] /\ Slots \subseteq Tasks /\ ForkOf(curr)
      /\ First \in Tasks /\ First \notin Slots
    BY <1>2, AtFacts
<1>4. /\ SchedInv /\ SyncTypeOK /\ TableLock /\ Places /\ LifeTypes /\ Forks /\ Exits
      /\ ParentIsLive
    BY <1>3 DEF LifeInv, Settled
<1>5. c \in Slots /\ c \in Tasks /\ pc[c] = "new" /\ c # curr
    BY <1>1, <1>3 DEF ForkOf
<1>6. /\ pc' \in [Tasks -> Points] /\ pc'[curr] = "fork_start"
      /\ \A t \in Tasks : t # curr => pc'[t] = pc[t]
    BY <1>2, <1>3 DEF Goes, Points, ForkPoints
<1>7. parent'[c] = curr /\ \A t \in Tasks : t # c => parent'[t] = parent[t]
    BY <1>2, <1>4, <1>5 DEF LifeTypes
<1>8. SchedInv' /\ SyncTypeOK'
    BY <1>2, <1>4, SchedNextInv DEF SyncTypeOK, SchedInv
<1>9. Places' /\ Live' = Live
    <2>1. "fork_start" \in Points \ {"free", "new", "dead"}
        BY DEF Points, ForkPoints
    <2>. QED
        BY <1>2, <1>3, <1>4, <2>1, PlacesGo DEF schedVars, Queue
<1>10. TableLock'
    BY <1>2, <1>3, <1>4, <1>6 DEF TableLock, Queue, HoldPoints
<1>11. LifeTypes'
    BY <1>2, <1>3, <1>4, <1>6 DEF LifeTypes
<1>12. Forks'
    <2>1. \A t \in Tasks : t # curr /\ pc[t] \in Chosen => child[t] # c
        BY <1>1, <1>3, <1>4 DEF Forks, Apart, Chosen
    <2>2. Apart'
        BY <1>2, <1>3, <1>4, <1>6 DEF Forks, Apart, Chosen
    <2>3. ASSUME NEW t \in Tasks PROVE ForkOf(t)'
        <3>1. CASE t = curr
            BY <1>1, <1>2, <1>5, <1>6, <1>7, <3>1 DEF ForkOf
        <3>2. CASE t # curr
            <4>1. ForkOf(t) /\ pc'[t] = pc[t] /\ (pc[t] \in Chosen => child[t] # c)
                BY <1>4, <1>6, <2>1, <3>2 DEF Forks
            <4>2. \A x \in Slots : x # c /\ pc[x] \in {"free", "new"} =>
                                        pc'[x] = pc[x] /\ parent'[x] = parent[x]
                BY <1>3, <1>6, <1>7
            <4>. QED
                BY <1>2, <4>1, <4>2 DEF ForkOf, Chosen
        <3>. QED
            BY <3>1, <3>2
    <2>4. \A x \in Slots : used'[x] <=> pc'[x] # "free"
        BY <1>2, <1>3, <1>4, <1>6 DEF Forks
    <2>. QED
        BY <2>2, <2>3, <2>4 DEF Forks
<1>13. Exits'
    <2>1. \A t \in Tasks : t # curr => Children(t)' \subseteq Children(t)
        BY <1>3, <1>7 DEF Children
    <2>2. pc'[First] \notin ExitPoints
        BY <1>3, <1>4, <1>6 DEF Exits, ExitPoints
    <2>3. \A t \in Tasks : Children(t) \subseteq Slots
        BY DEF Children
    <2>. QED
        BY <1>3, <1>4, <1>6, <1>9, <2>1, <2>2, <2>3 DEF Exits
<1>14. ParentIsLive'
    BY <1>3, <1>4, <1>5, <1>6, <1>7, <1>9 DEF ParentIsLive, Live
<1>. QED
    BY <1>6, <1>8, <1>9, <1>10, <1>11, <1>12, <1>13, <1>14 DEF LifeInv, Settled

(* The child is started, with a live parent. *)
LEMMA ForkStartStep ==
    ASSUME LifeInv, fork_start
    PROVE  LifeInv'
<1>1. PICK c : c = child[curr]
    OBVIOUS
<1>2. /\ At("fork_start") /\ task_start(c)
      /\ pc' = [pc EXCEPT ![c] = "user", ![curr] = "user"]
      /\ child' = [child EXCEPT ![curr] = None]
      /\ UNCHANGED <<count, locked, owner, waitList>>
      /\ UNCHANGED <<moveChild, used, parent, forks>>
    BY <1>1 DEF fork_start, syncVars
<1>3. /\ Settled /\ TaskRuns /\ pc[curr] = "fork_start" /\ curr \in Live /\ curr \in Tasks
      /\ pc \in [Tasks -> Points] /\ Slots \subseteq Tasks /\ ForkOf(curr)
      /\ First \in Tasks /\ First \notin Slots
    BY <1>2, AtFacts
<1>4. /\ SchedInv /\ SyncTypeOK /\ TableLock /\ Places /\ LifeTypes /\ Forks /\ Exits
      /\ ParentIsLive /\ PlainOnLists
    BY <1>3, PlacesPlain DEF LifeInv, Settled
<1>5. /\ c \in Slots /\ c \in Tasks /\ pc[c] = "new" /\ c # curr /\ parent[c] = curr
      /\ c \notin OnLists /\ c \notin Nodes(Queue)
    BY <1>1, <1>3, <1>4 DEF ForkOf, Places, Placed, Live
<1>6. /\ pc' \in [Tasks -> Points] /\ pc'[curr] = "user" /\ pc'[c] = "user"
      /\ \A t \in Tasks : t # curr /\ t # c => pc'[t] = pc[t]
    BY <1>2, <1>3, <1>5 DEF Points
<1>7. Live' = Live \cup {c}
    BY <1>3, <1>5, <1>6 DEF Live
<1>8. SchedInv' /\ Moves({c}, {})
    BY <1>2, <1>4, <1>5, StartInv, StartMoves
<1>9. SyncTypeOK'
    BY <1>2, <1>4, <1>8 DEF SyncTypeOK, SchedInv
<1>10. Places'
    <2>. SUFFICES ASSUME NEW t \in Tasks PROVE Placed(t)'
        BY DEF Places
    <2>1. Placed(t) /\ Queue' = Queue
        BY <1>2, <1>4 DEF Places, Queue
    <2>2. /\ t \in OnLists' <=> t \in OnLists \/ t = c
          /\ t \in OnLists' => state'[t] \in Plain
          /\ t \notin OnLists' => state'[t] = state[t]
        BY <1>8 DEF Moves
    <2>3. t \in OnLists => pc[t] \notin {"free", "new", "dead"}
        BY <2>1 DEF Placed, Live
    <2>4. CASE t = c
        BY <1>5, <1>6, <1>7, <2>1, <2>2, <2>4 DEF Placed, Plain
    <2>5. CASE t = curr
        BY <1>3, <1>5, <1>6, <1>7, <2>1, <2>2, <2>3, <2>5 DEF Placed, Plain
    <2>6. CASE t # c /\ t # curr
        BY <1>6, <1>7, <2>1, <2>2, <2>3, <2>6 DEF Placed, Plain
    <2>. QED
        BY <2>4, <2>5, <2>6
<1>11. TableLock'
    BY <1>2, <1>3, <1>4, <1>5, <1>6 DEF TableLock, Queue, HoldPoints
<1>12. LifeTypes'
    BY <1>2, <1>3, <1>4, <1>6 DEF LifeTypes
<1>13. Forks'
    <2>1. \A t \in Tasks : t # curr => child'[t] = child[t]
        BY <1>2, <1>4 DEF LifeTypes
    <2>2. Apart' /\ \A t \in Tasks : ForkOf(t)'
        <3>1. Apart'
            BY <1>4, <1>6, <2>1 DEF Forks, Apart, Chosen
        <3>2. ASSUME NEW t \in Tasks PROVE ForkOf(t)'
            <4>1. CASE t = curr \/ t = c
                BY <1>6, <4>1 DEF ForkOf
            <4>2. CASE t # curr /\ t # c
                <5>1. ForkOf(t) /\ pc'[t] = pc[t] /\ child'[t] = child[t]
                    BY <1>4, <1>6, <2>1, <4>2 DEF Forks
                <5>2. pc[t] \in Chosen => child[t] # c
                    BY <1>1, <1>3, <1>4, <4>2 DEF Forks, Apart, Chosen
                <5>3. \A x \in Slots : x # c /\ pc[x] \in {"free", "new"} => pc'[x] = pc[x]
                    BY <1>3, <1>6
                <5>. QED
                    BY <1>2, <5>1, <5>2, <5>3 DEF ForkOf, Chosen
            <4>. QED
                BY <4>1, <4>2
        <3>. QED
            BY <3>1, <3>2
    <2>3. \A x \in Slots : used'[x] <=> pc'[x] # "free"
        BY <1>2, <1>3, <1>4, <1>5, <1>6 DEF Forks
    <2>. QED
        BY <2>2, <2>3 DEF Forks
<1>14. Exits'
    <2>1. \A t \in Tasks : Children(t)' = Children(t) /\ Children(t) \subseteq Slots
        BY <1>2 DEF Children
    <2>2. pc'[First] \notin ExitPoints
        BY <1>3, <1>4, <1>6 DEF Exits, ExitPoints
    <2>3. \A x \in Tasks : pc[x] = "dead" => pc'[x] = "dead"
        BY <1>3, <1>5, <1>6
    <2>. QED
        BY <1>3, <1>4, <1>5, <1>6, <1>7, <2>1, <2>2, <2>3 DEF Exits
<1>15. ParentIsLive'
    BY <1>2, <1>3, <1>4, <1>5, <1>6, <1>7 DEF ParentIsLive
<1>. QED
    BY <1>6, <1>8, <1>9, <1>10, <1>11, <1>12, <1>13, <1>14, <1>15 DEF LifeInv, Settled

(* sys_exit enters the table when the children have exited, and leaves it when *)
(* there are none.                                                            *)
LEMMA ExitLockStep ==
    ASSUME LifeInv, ~LeavesOrphans, exit_lock \/ exit_unlock
    PROVE  LifeInv'
<1>1. CASE exit_lock
    <2>1. /\ At("user") /\ mutex_lock(TableMutex) /\ Goes("exit_scan") /\ curr # First
          /\ \A c \in Children(curr) : pc[c] = "dead"
          /\ UNCHANGED <<child, moveChild, used, parent, forks>>
        BY <1>1 DEF exit_lock
    <2>2. /\ "user" \notin HoldPoints /\ "exit_scan" \in HoldPoints
          /\ "exit_scan" \in Points \ (ForkPoints \cup {"free", "new", "dead"})
        BY DEF Points, ForkPoints, ExitPoints, WaitPoints, HoldPoints
    <2>3. Settled /\ TaskRuns /\ pc[curr] = "user" /\ curr \in Live
        BY <2>1, AtFacts
    <2>4. /\ Settled' /\ Live' = Live
          /\ owner[TableMutex] # None => owner' = owner
        BY <2>1, <2>2, <2>3, LockStep
    <2>5. \A t \in Tasks \ {curr} : owner[TableMutex] = t => owner'[TableMutex] = t
        BY <2>4, SyncAssumption
    <2>. QED
        BY <2>1, <2>2, <2>3, <2>4, <2>5, GoesOn
<1>2. CASE exit_unlock
    <2>1. /\ At("exit_unlock") /\ mutex_unlock(TableMutex) /\ Goes("exit_last")
          /\ UNCHANGED <<child, moveChild, used, parent, forks>>
        BY <1>2 DEF exit_unlock
    <2>2. /\ "exit_unlock" \in HoldPoints /\ "exit_unlock" \in ExitPoints
          /\ "exit_last" \in Points \ (HoldPoints \cup {"free", "new", "dead"})
          /\ "exit_last" \in Points \ (ForkPoints \cup {"free", "new", "dead"})
        BY DEF Points, ForkPoints, ExitPoints, WaitPoints, HoldPoints
    <2>3. Settled /\ TaskRuns /\ pc[curr] = "exit_unlock" /\ curr \in Live /\ curr \in Tasks
        BY <2>1, AtFacts
    <2>4. Settled' /\ Live' = Live /\ owner[TableMutex] = curr
        BY <2>1, <2>2, <2>3, UnlockStep
    <2>5. curr # First /\ Children(curr) = {}
        BY <2>2, <2>3 DEF LifeInv, Exits
    <2>. QED
        BY <2>1, <2>2, <2>3, <2>4, <2>5, GoesOn
<1>. QED
    BY <1>1, <1>2

(* first_task inherits the children that have exited. *)
LEMMA ExitScanStep ==
    ASSUME LifeInv, exit_scan
    PROVE  LifeInv'
<1>1. /\ At("exit_scan") /\ Goes("exit_unlock")
      /\ parent' = [t \in Tasks |-> IF t \in Children(curr) THEN First ELSE parent[t]]
      /\ state' = [t \in AllTasks |-> IF t \in Children(curr) THEN "ZOMBIE" ELSE state[t]]
      /\ moveChild' = [moveChild EXCEPT ![curr] = Children(curr) # {}]
      /\ UNCHANGED <<curr, ready, sleeping, sleepTicks, slice, owing, cursor>>
      /\ UNCHANGED <<count, locked, owner, waitList>>
      /\ UNCHANGED <<child, used, forks>>
    BY DEF exit_scan, syncVars
<1>2. /\ Settled /\ TaskRuns /\ pc[curr] = "exit_scan" /\ curr \in Live /\ curr \in Tasks
      /\ pc \in [Tasks -> Points] /\ Slots \subseteq Tasks
      /\ First \in Tasks /\ First \notin Slots
    BY <1>1, AtFacts
<1>3. /\ SchedInv /\ SyncTypeOK /\ TableLock /\ Places /\ LifeTypes /\ Forks /\ Exits
      /\ ParentIsLive
    BY <1>2 DEF LifeInv, Settled
<1>4. /\ curr # First /\ Children(curr) \subseteq Slots
      /\ \A c \in Children(curr) : pc[c] = "dead" /\ state[c] = "ZOMBIE"
    BY <1>2, <1>3 DEF Exits, ExitPoints, Places, Placed, Children
<1>5. state' = state
    BY <1>1, <1>3, <1>4, ListFacts
<1>6. /\ pc' \in [Tasks -> Points] /\ pc'[curr] = "exit_unlock"
      /\ \A t \in Tasks : t # curr => pc'[t] = pc[t]
    BY <1>1, <1>2 DEF Goes, Points, ExitPoints
<1>7. SchedInv' /\ SyncTypeOK'
    <2>1. UNCHANGED schedVars
        BY <1>1, <1>5 DEF schedVars
    <2>2. SchedInv'
        BY <1>3, <2>1, SchedNextInv
    <2>. QED
        BY <1>1, <1>3, <2>2 DEF SyncTypeOK, SchedInv
<1>8. Places' /\ Live' = Live
    <2>1. "exit_unlock" \in Points \ {"free", "new", "dead"}
        BY DEF Points, ExitPoints
    <2>. QED
        BY <1>1, <1>2, <1>3, <1>5, <2>1, PlacesGo DEF Queue
<1>9. TableLock'
    BY <1>1, <1>2, <1>3, <1>6 DEF TableLock, Queue, HoldPoints
<1>10. LifeTypes'
    BY <1>1, <1>2, <1>3, <1>6 DEF LifeTypes
<1>11. /\ \A s \in Slots : parent'[s] = IF s \in Children(curr) THEN First ELSE parent[s]
       /\ Children(curr)' = {}
       /\ \A t \in Tasks : t # First => Children(t)' \subseteq Children(t)
       /\ \A t \in Tasks : Children(t) \subseteq Slots
    <2>1. \A s \in Slots : parent'[s] = IF s \in Children(curr) THEN First ELSE parent[s]
        BY <1>1, <1>2
    <2>. QED
        BY <1>1, <1>2, <1>4, <2>1 DEF Children
<1>12. Forks'
    <2>1. \A t \in Tasks : pc'[t] \in Chosen => t # curr /\ pc[t] \in Chosen
        BY <1>2, <1>6 DEF Chosen
    <2>2. Apart'
        BY <1>1, <1>3, <2>1 DEF Forks, Apart
    <2>3. ASSUME NEW t \in Tasks PROVE ForkOf(t)'
        <3>1. CASE t = curr
            BY <1>6, <3>1 DEF ForkOf
        <3>2. CASE t # curr
            <4>1. ForkOf(t) /\ pc'[t] = pc[t]
                BY <1>3, <1>6, <3>2 DEF Forks
            <4>2. \A c \in Slots : pc[c] \in {"free", "new"} =>
                                        pc'[c] = pc[c] /\ parent'[c] = parent[c]
                BY <1>2, <1>4, <1>6, <1>11
            <4>. QED
                BY <1>1, <4>1, <4>2 DEF ForkOf
        <3>. QED
            BY <3>1, <3>2
    <2>4. \A x \in Slots : used'[x] <=> pc'[x] # "free"
        BY <1>1, <1>2, <1>3, <1>6 DEF Forks
    <2>. QED
        BY <2>2, <2>3, <2>4 DEF Forks
<1>13. Exits'
    <2>1. pc'[First] \notin ExitPoints
        BY <1>2, <1>3, <1>4, <1>6 DEF Exits
    <2>2. \A c \in Tasks : pc[c] = "dead" => pc'[c] = "dead"
        BY <1>2, <1>6
    <2>3. ASSUME NEW t \in Tasks
          PROVE  /\ pc'[t] = "exit_scan" => \A c \in Children(t)' : pc'[c] = "dead"
                 /\ pc'[t] \in {"exit_unlock", "exit_last"} => Children(t)' = {}
        <3>1. CASE t = curr
            BY <1>1, <1>6, <1>11, <3>1 DEF Children
        <3>2. CASE t = First
            BY <2>1, <3>2 DEF ExitPoints
        <3>3. CASE t # curr /\ t # First
            BY <1>2, <1>3, <1>6, <1>11, <2>2, <3>3 DEF Exits
        <3>. QED
            BY <3>1, <3>2, <3>3
    <2>. QED
        BY <1>3, <1>8, <2>1, <2>3 DEF Exits
<1>14. ParentIsLive'
    BY <1>2, <1>3, <1>6, <1>8, <1>11 DEF ParentIsLive, Exits
<1>. QED
    BY <1>6, <1>7, <1>8, <1>9, <1>10, <1>12, <1>13, <1>14 DEF LifeInv, Settled

(* A task that waits is put at the end of the ready list. *)
LEMMA Woken ==
    ASSUME NEW q \in Seq(Tasks), Distinct(q), NEW st \in [AllTasks -> TaskState],
           NEW t \in Tasks, t \notin Nodes(q)
    PROVE  /\ task_set_ready(q, t) \in Seq(Tasks) /\ Distinct(task_set_ready(q, t))
           /\ Nodes(task_set_ready(q, t)) = Nodes(q) \cup {t}
           /\ set_ready_state(st, t) \in [AllTasks -> TaskState]
           /\ set_ready_state(st, t)[t] = "READY"
           /\ \A x \in Tasks \ {t} : set_ready_state(st, t)[x] = st[x]
<1>1. t # Idle /\ t \in AllTasks
    BY SchedAssumption DEF AllTasks
<1>2. task_set_ready(q, t) = list_insert_last(q, t)
    BY <1>1 DEF task_set_ready
<1>3. set_ready_state(st, t) = [st EXCEPT ![t] = "READY"]
    BY <1>1 DEF set_ready_state
<1>4. /\ task_set_ready(q, t) \in Seq(Tasks)
      /\ Nodes(task_set_ready(q, t)) = Nodes(q) \cup {t}
    BY <1>2, InsertLast
<1>5. Distinct(task_set_ready(q, t))
    BY <1>2, InsertLastDistinct
<1>. QED
    BY <1>1, <1>3, <1>4, <1>5 DEF TaskState, AllTasks

(* The last step of sys_exit: the tasks of W are woken and the caller is gone. *)
LEMMA ExitMoves ==
    ASSUME LifeInv, exit_last
    PROVE  /\ SchedInv'
           /\ \E W \in SUBSET Waiting : Moves(W, {curr})
           /\ state'[curr] = "ZOMBIE"
<1>1. At("exit_last") /\ UNCHANGED <<sleeping, sleepTicks, slice, owing, cursor>>
    BY DEF exit_last
<1>2. /\ Settled /\ TaskRuns /\ pc[curr] = "exit_last" /\ curr \in Live /\ curr \in Tasks
      /\ First \in Tasks /\ First \notin Slots
    BY <1>1, AtFacts
<1>3. /\ SchedInv /\ Places /\ PlainOnLists /\ Exits /\ ParentIsLive
    BY <1>2, PlacesPlain DEF Settled, LifeInv
<1>4. curr \in Slots /\ curr \in OnLists /\ curr \in Nodes(ready)
    <2>1. curr # First
        BY <1>2, <1>3 DEF Exits, ExitPoints
    <2>. QED
        BY <1>2, <2>1, RunsLive DEF Slots
<1>5. PICK p : p = parent[curr]
    OBVIOUS
<1>6. p \in Live /\ p \in Tasks
    BY <1>2, <1>3, <1>4, <1>5 DEF ParentIsLive, Live
<1>7. \A t \in Tasks : state[t] = "WAITTING" =>
         t \in Waiting /\ t \notin Nodes(ready) /\ t \notin Nodes(sleeping) /\ t # curr
    BY <1>3, <1>4 DEF Places, Placed, Waiting, OnLists
<1>8. PICK q1 : q1 = IF WakesFirst THEN task_set_ready(ready, First) ELSE ready
    OBVIOUS
<1>9. PICK st1 : st1 = IF WakesFirst THEN set_ready_state(state, First) ELSE state
    OBVIOUS
<1>10. PICK q2 : q2 = IF WakesParent THEN task_set_ready(q1, p) ELSE q1
    OBVIOUS
<1>11. PICK st2 : st2 = IF WakesParent THEN set_ready_state(st1, p) ELSE st1
    OBVIOUS
<1>12. PICK q3 : q3 = task_set_block(q2, curr)
    OBVIOUS
<1>13. PICK st3 : st3 = [st2 EXCEPT ![curr] = "ZOMBIE"]
    OBVIOUS
<1>14. task_dispatch(q3, st3)
    BY <1>5, <1>8, <1>9, <1>10, <1>11, <1>12, <1>13 DEF exit_last
<1>15. PICK W1 : W1 = IF WakesFirst THEN {First} ELSE {}
    OBVIOUS
<1>16. PICK W2 : W2 = IF WakesParent THEN W1 \cup {p} ELSE W1
    OBVIOUS
<1>17. /\ WakesFirst => p # First /\ state[First] = "WAITTING"
       /\ WakesParent => state[p] = "WAITTING"
    BY <1>5 DEF WakesFirst, WakesParent
<1>18. /\ q1 \in Seq(Tasks) /\ Distinct(q1) /\ Nodes(q1) = Nodes(ready) \cup W1
       /\ st1 \in [AllTasks -> TaskState]
       /\ \A t \in W1 : st1[t] = "READY"
       /\ \A t \in Tasks \ W1 : st1[t] = state[t]
       /\ W1 \subseteq Waiting
    <2>1. CASE WakesFirst
        <3>1. First \notin Nodes(ready) /\ First \in Waiting
            BY <1>2, <1>7, <1>17, <2>1
        <3>. QED
            BY <1>2, <1>3, <1>8, <1>9, <1>15, <2>1, <3>1, ListFacts, Woken
    <2>2. CASE ~WakesFirst
        BY <1>3, <1>8, <1>9, <1>15, <2>2, ListFacts
    <2>. QED
        BY <2>1, <2>2
<1>19. /\ q2 \in Seq(Tasks) /\ Distinct(q2) /\ Nodes(q2) = Nodes(ready) \cup W2
       /\ st2 \in [AllTasks -> TaskState]
       /\ \A t \in W2 : st2[t] = "READY"
       /\ \A t \in Tasks \ W2 : st2[t] = state[t]
       /\ W2 \subseteq Waiting
    <2>1. CASE WakesParent
        <3>1. p \notin Nodes(ready) /\ p \in Waiting /\ p \notin W1
            BY <1>6, <1>7, <1>15, <1>17, <2>1
        <3>2. p \notin Nodes(q1)
            BY <1>18, <3>1
        <3>3. /\ q2 = task_set_ready(q1, p) /\ st2 = set_ready_state(st1, p)
              /\ W2 = W1 \cup {p}
            BY <1>10, <1>11, <1>16, <2>1
        <3>4. /\ q2 \in Seq(Tasks) /\ Distinct(q2) /\ Nodes(q2) = Nodes(q1) \cup {p}
              /\ st2 \in [AllTasks -> TaskState]
              /\ st2[p] = "READY"
              /\ \A x \in Tasks \ {p} : st2[x] = st1[x]
            BY <1>6, <1>18, <3>2, <3>3, Woken
        <3>. QED
            BY <1>18, <3>1, <3>3, <3>4 DEF Waiting, Live
    <2>2. CASE ~WakesParent
        BY <1>10, <1>11, <1>16, <1>18, <2>2
    <2>. QED
        BY <2>1, <2>2
<1>20. /\ q3 \in Seq(Tasks) /\ Distinct(q3)
       /\ Nodes(q3) = (Nodes(ready) \cup W2) \ {curr}
    <2>1. curr \in Nodes(q2) /\ curr # Idle
        BY <1>2, <1>4, <1>19, SchedAssumption
    <2>2. q3 = list_remove(q2, curr)
        BY <1>12, <2>1 DEF task_set_block
    <2>. QED
        BY <1>19, <2>1, <2>2, RemoveNode
<1>21. /\ st3 \in [AllTasks -> TaskState] /\ st3[curr] = "ZOMBIE"
       /\ \A t \in Tasks \ {curr} : st3[t] = st2[t]
    BY <1>2, <1>3, <1>13, <1>19, ListFacts DEF TaskState
<1>22. W2 \subseteq Tasks /\ curr \notin W2 /\ W2 \cap Nodes(sleeping) = {}
    BY <1>7, <1>19 DEF Waiting, Live
<1>23. \A t \in Nodes(q3) : t \in Tasks /\ st3[t] \in Plain
    BY <1>3, <1>19, <1>20, <1>21, <1>22, ListFacts DEF PlainOnLists, OnLists, Plain
<1>24. SchedInv'
    <2>1. Nodes(ready) \ {curr} \subseteq Nodes(q3) /\ Nodes(q3) \cap Nodes(sleeping) = {}
        BY <1>3, <1>20, <1>22, ListFacts
    <2>2. \A t \in Nodes(q3) \cup Nodes(sleeping) : st3[t] # "CREATED"
        <3>1. \A t \in Nodes(sleeping) :
                 t \in Tasks /\ t # curr /\ t \notin W2 /\ state[t] \in Plain
            BY <1>3, <1>4, <1>22, ListFacts DEF PlainOnLists, OnLists
        <3>. QED
            BY <1>19, <1>21, <1>23, <3>1 DEF Plain
    <2>. QED
        BY <1>1, <1>2, <1>3, <1>14, <1>20, <1>21, <2>1, <2>2, LeaveInv
<1>25. /\ ready' = q3
       /\ \A t \in Nodes(q3) : state'[t] \in Plain
       /\ \A t \in Tasks \ Nodes(q3) : state'[t] = st3[t]
    BY <1>14, <1>20, <1>21, <1>23, DispatchPlain
<1>26. curr \notin Nodes(sleeping)
    BY <1>3, <1>4, ListFacts
<1>27. OnLists' = (OnLists \cup W2) \ {curr}
    BY <1>1, <1>20, <1>25, <1>26 DEF OnLists
<1>28. ASSUME NEW t \in Nodes(sleeping) PROVE t \in Tasks /\ state'[t] \in Plain
    <2>1. /\ t \in Tasks /\ t # curr /\ t \notin W2 /\ state[t] \in Plain /\ t \notin Nodes(q3)
        BY <1>3, <1>20, <1>22, <1>26, ListFacts DEF PlainOnLists, OnLists
    <2>. QED
        BY <1>19, <1>21, <1>25, <2>1
<1>29. Moves(W2, {curr})
    <2>1. \A t \in OnLists' : state'[t] \in Plain
        BY <1>1, <1>25, <1>28 DEF OnLists
    <2>2. ASSUME NEW t \in Tasks, t \notin OnLists', t # curr PROVE state'[t] = state[t]
        BY <1>19, <1>20, <1>21, <1>25, <1>27, <2>2 DEF OnLists
    <2>. QED
        BY <1>27, <2>1, <2>2 DEF Moves
<1>30. state'[curr] = "ZOMBIE"
    BY <1>2, <1>20, <1>21, <1>25
<1>. QED
    BY <1>19, <1>24, <1>29, <1>30

(* A task exits: it has no children left, and leaves its place. *)
LEMMA ExitLastStep ==
    ASSUME LifeInv, exit_last
    PROVE  LifeInv'
<1>1. /\ At("exit_last") /\ Goes("dead")
      /\ moveChild' = [moveChild EXCEPT ![curr] = FALSE]
      /\ UNCHANGED <<count, locked, owner, waitList>>
      /\ UNCHANGED <<child, used, parent, forks>>
    BY DEF exit_last, syncVars
<1>2. /\ Settled /\ TaskRuns /\ pc[curr] = "exit_last" /\ curr \in Live /\ curr \in Tasks
      /\ pc \in [Tasks -> Points] /\ Slots \subseteq Tasks
      /\ First \in Tasks /\ First \notin Slots
    BY <1>1, AtFacts
<1>3. /\ SchedInv /\ SyncTypeOK /\ TableLock /\ Places /\ LifeTypes /\ Forks /\ Exits
      /\ ParentIsLive
    BY <1>2 DEF LifeInv, Settled
<1>4. curr # First /\ Children(curr) = {}
    BY <1>2, <1>3 DEF Exits, ExitPoints
<1>5. curr \in OnLists /\ curr \notin Nodes(Queue) /\ owner[TableMutex] # curr
    BY <1>2, RunsLive DEF HoldPoints
<1>6. SchedInv' /\ state'[curr] = "ZOMBIE"
    BY ExitMoves
<1>7. PICK W \in SUBSET Waiting : Moves(W, {curr})
    BY ExitMoves
<1>8. /\ pc' \in [Tasks -> Points] /\ pc'[curr] = "dead"
      /\ \A t \in Tasks : t # curr => pc'[t] = pc[t]
    BY <1>1, <1>2 DEF Goes, Points
<1>9. Live' = Live \ {curr}
    BY <1>8 DEF Live
<1>10. TableLock' /\ SyncTypeOK'
    BY <1>1, <1>2, <1>3, <1>5, <1>6, <1>8 DEF TableLock, SyncTypeOK, SchedInv, Queue, HoldPoints
<1>11. Places'
    <2>. SUFFICES ASSUME NEW t \in Tasks PROVE Placed(t)'
        BY DEF Places
    <2>1. Placed(t) /\ Queue' = Queue
        BY <1>1, <1>3 DEF Places, Queue
    <2>2. /\ t \in OnLists' <=> (t \in OnLists \/ t \in W) /\ t # curr
          /\ t \in OnLists' => state'[t] \in Plain
          /\ t \notin OnLists' /\ t # curr => state'[t] = state[t]
        BY <1>7 DEF Moves
    <2>3. t \in W => t \in Live /\ state[t] = "WAITTING"
        BY <1>7 DEF Waiting
    <2>4. CASE t = curr
        BY <1>5, <1>6, <1>8, <1>9, <2>1, <2>2, <2>4 DEF Placed, Plain
    <2>5. CASE t # curr
        <3>1. t \in OnLists \/ t \in W => pc[t] \notin {"free", "new", "dead"}
            BY <2>1, <2>3 DEF Placed, Live
        <3>. QED
            BY <1>8, <1>9, <2>1, <2>2, <2>3, <2>5, <3>1 DEF Placed, Plain
    <2>. QED
        BY <2>4, <2>5
<1>12. LifeTypes'
    BY <1>1, <1>3, <1>8 DEF LifeTypes
<1>13. Forks'
    <2>1. Apart'
        BY <1>1, <1>3, <1>8 DEF Forks, Apart, Chosen
    <2>2. ASSUME NEW t \in Tasks PROVE ForkOf(t)'
        <3>1. CASE t = curr
            BY <1>8, <3>1 DEF ForkOf
        <3>2. CASE t # curr
            <4>1. ForkOf(t) /\ pc'[t] = pc[t]
                BY <1>3, <1>8, <3>2 DEF Forks
            <4>2. \A c \in Slots : pc[c] \in {"free", "new"} => pc'[c] = pc[c]
                BY <1>2, <1>8
            <4>. QED
                BY <1>1, <4>1, <4>2 DEF ForkOf
        <3>. QED
            BY <3>1, <3>2
    <2>3. \A x \in Slots : used'[x] <=> pc'[x] # "free"
        BY <1>1, <1>2, <1>3, <1>8 DEF Forks
    <2>. QED
        BY <2>1, <2>2, <2>3 DEF Forks
<1>14. Exits'
    <2>1. \A t \in Tasks : Children(t)' = Children(t) /\ Children(t) \subseteq Slots
        BY <1>1 DEF Children
    <2>2. pc'[First] \notin ExitPoints /\ First \in Live'
        BY <1>2, <1>3, <1>4, <1>8, <1>9 DEF Exits
    <2>3. \A x \in Tasks : pc[x] = "dead" => pc'[x] = "dead"
        BY <1>8
    <2>4. ASSUME NEW t \in Tasks
          PROVE  /\ pc'[t] = "exit_scan" => \A c \in Children(t) : pc'[c] = "dead"
                 /\ pc'[t] \in {"exit_unlock", "exit_last"} => Children(t) = {}
        <3>1. t # curr => pc'[t] = pc[t]
            BY <1>8
        <3>2. \A c \in Children(t) : c \in Tasks
            BY <1>2, <2>1
        <3>. QED
            BY <1>3, <1>8, <2>3, <3>1, <3>2 DEF Exits
    <2>. QED
        BY <2>1, <2>2, <2>4 DEF Exits
<1>15. ParentIsLive'
    <2>. SUFFICES ASSUME NEW t \in Slots, pc'[t] = "dead" \/ t \in Live'
                  PROVE  parent[t] \in Live \ {curr}
        BY <1>1, <1>9 DEF ParentIsLive
    <2>1. parent[t] # curr
        BY <1>4 DEF Children
    <2>2. pc[t] = "dead" \/ t \in Live
        BY <1>2, <1>8, <1>9
    <2>. QED
        BY <1>3, <2>1, <2>2 DEF ParentIsLive
<1>. QED
    BY <1>6, <1>8, <1>10, <1>11, <1>12, <1>13, <1>14, <1>15 DEF LifeInv, Settled

(* A zombie is taken out of the table, by its parent and after it has exited. *)
LEMMA ReapFacts ==
    ASSUME LifeInv, wait_reap
    PROVE  \E c \in Slots :
              /\ pc[c] = "dead" /\ parent[c] = curr
              /\ used' = [used EXCEPT ![c] = FALSE]
              /\ parent' = [parent EXCEPT ![c] = None]
              /\ state' = [state EXCEPT ![c] = "CREATED"]
              /\ pc' = [pc EXCEPT ![c] = "free", ![curr] = "wait_return"]
<1>1. PICK c \in Slots :
         /\ Reapable(c)
         /\ used' = [used EXCEPT ![c] = FALSE]
         /\ parent' = [parent EXCEPT ![c] = None]
         /\ state' = [state EXCEPT ![c] = "CREATED"]
         /\ pc' = [pc EXCEPT ![c] = "free", ![curr] = "wait_return"]
    BY DEF wait_reap
<1>2. At("wait_scan")
    BY DEF wait_reap
<1>3. Placed(c) /\ pc \in [Tasks -> Points] /\ c \in Tasks
    BY <1>1, <1>2, AtFacts DEF LifeInv, Settled, Places
<1>4. parent[c] = curr /\ state[c] = "ZOMBIE"
    BY <1>1 DEF Reapable, Children
<1>5. pc[c] = "dead"
    BY <1>3, <1>4 DEF Placed, Live, Plain
<1>. QED
    BY <1>1, <1>4, <1>5

LEMMA WaitReapStep ==
    ASSUME LifeInv, wait_reap
    PROVE  LifeInv'
<1>1. PICK c \in Slots :
         /\ pc[c] = "dead" /\ parent[c] = curr
         /\ used' = [used EXCEPT ![c] = FALSE]
         /\ parent' = [parent EXCEPT ![c] = None]
         /\ state' = [state EXCEPT ![c] = "CREATED"]
         /\ pc' = [pc EXCEPT ![c] = "free", ![curr] = "wait_return"]
    BY ReapFacts
<1>2. /\ At("wait_scan")
      /\ UNCHANGED <<curr, ready, sleeping, sleepTicks, slice, owing, cursor>>
      /\ UNCHANGED <<count, locked, owner, waitList>>
      /\ UNCHANGED <<child, moveChild, forks>>
    BY DEF wait_reap, syncVars
<1>3. /\ Settled /\ TaskRuns /\ pc[curr] = "wait_scan" /\ curr \in Live /\ curr \in Tasks
      /\ pc \in [Tasks -> Points] /\ Slots \subseteq Tasks
      /\ First \in Tasks /\ First \notin Slots
      /\ "wait_scan" \in HoldPoints <=> owner[TableMutex] = curr
    BY <1>2, AtFacts
<1>4. /\ SchedInv /\ SyncTypeOK /\ TableLock /\ Places /\ LifeTypes /\ Forks /\ Exits
      /\ ParentIsLive /\ None \notin Tasks
    BY <1>3, SyncAssumption DEF LifeInv, Settled
<1>5. /\ c \in Tasks /\ c # curr /\ c # First /\ c \notin Live
      /\ c \notin OnLists /\ c \notin Nodes(Queue) /\ owner[TableMutex] = curr
    <2>1. c \in Tasks /\ c # curr /\ c # First /\ c \notin Live
        BY <1>1, <1>3 DEF Live
    <2>2. owner[TableMutex] = curr
        BY <1>3 DEF HoldPoints
    <2>. QED
        BY <1>4, <2>1, <2>2 DEF Places, Placed
<1>6. /\ state' \in [AllTasks -> TaskState] /\ state'[c] = "CREATED"
      /\ \A t \in AllTasks : t # c => state'[t] = state[t]
    BY <1>1, <1>4, <1>5, ListFacts DEF TaskState
<1>7. /\ pc' \in [Tasks -> Points] /\ pc'[c] = "free" /\ pc'[curr] = "wait_return"
      /\ \A t \in Tasks : t # c /\ t # curr => pc'[t] = pc[t]
    BY <1>1, <1>3, <1>5 DEF Points, WaitPoints
<1>8. Live' = Live
    BY <1>3, <1>5, <1>7 DEF Live
<1>9. SchedInv'
    <2>1. SchedTypeOK'
        BY <1>2, <1>4, <1>6 DEF SchedInv, SchedTypeOK
    <2>2. CurrIsHead' /\ SleepersCount' /\ OwingIsReady'
        BY <1>2, <1>4 DEF SchedInv, CurrIsHead, SleepersCount, OwingIsReady, Interruptible
    <2>3. OnePlace'
        BY <1>2, <1>4, <1>5, <1>6, ListFacts DEF SchedInv, OnePlace, OnLists
    <2>. QED
        BY <2>1, <2>2, <2>3 DEF SchedInv
<1>10. SyncTypeOK'
    BY <1>2, <1>4, <1>9 DEF SyncTypeOK, SchedInv
<1>11. TableLock'
    BY <1>2, <1>3, <1>4, <1>5, <1>7 DEF TableLock, Queue, HoldPoints
<1>12. Places'
    <2>. SUFFICES ASSUME NEW t \in Tasks PROVE Placed(t)'
        BY DEF Places
    <2>1. Placed(t) /\ Queue' = Queue /\ OnLists' = OnLists
        BY <1>2, <1>4 DEF Places, Queue, OnLists
    <2>2. CASE t = c
        BY <1>5, <1>6, <1>7, <1>8, <2>1, <2>2 DEF Placed
    <2>3. t # c => state'[t] = state[t]
        BY <1>4, <1>6, ListFacts
    <2>4. CASE t = curr
        BY <1>3, <1>5, <1>7, <1>8, <2>1, <2>3, <2>4 DEF Placed
    <2>5. CASE t # c /\ t # curr
        BY <1>7, <1>8, <2>1, <2>3, <2>5 DEF Placed
    <2>. QED
        BY <2>2, <2>4, <2>5
<1>13. LifeTypes'
    <2>1. /\ used' \in [Slots -> BOOLEAN] /\ parent' \in [Tasks -> Tasks \cup {None}]
        BY <1>1, <1>4 DEF LifeTypes
    <2>. QED
        BY <1>2, <1>4, <1>7, <2>1 DEF LifeTypes
<1>14. /\ parent'[c] = None /\ \A t \in Tasks : t # c => parent'[t] = parent[t]
       /\ ~used'[c] /\ \A t \in Slots : t # c => used'[t] = used[t]
    BY <1>1, <1>4, <1>5 DEF LifeTypes
<1>15. Forks'
    <2>1. \A t \in Tasks : pc'[t] \in Chosen => t # c /\ t # curr /\ pc'[t] = pc[t]
        BY <1>7 DEF Chosen
    <2>2. Apart'
        BY <1>2, <1>4, <2>1 DEF Forks, Apart
    <2>3. ASSUME NEW t \in Tasks PROVE ForkOf(t)'
        <3>1. CASE t = curr \/ t = c
            BY <1>7, <3>1 DEF ForkOf
        <3>2. CASE t # curr /\ t # c
            <4>1. ForkOf(t) /\ pc'[t] = pc[t] /\ owner[TableMutex] # t
                BY <1>4, <1>5, <1>7, <3>2 DEF Forks
            <4>2. \A x \in Slots : pc[x] \in {"free", "new"} =>
                                        pc'[x] = pc[x] /\ parent'[x] = parent[x]
                BY <1>1, <1>3, <1>7, <1>14
            <4>. QED
                BY <1>2, <4>1, <4>2 DEF ForkOf
        <3>. QED
            BY <3>1, <3>2
    <2>4. \A x \in Slots : used'[x] <=> pc'[x] # "free"
        BY <1>3, <1>4, <1>7, <1>14 DEF Forks
    <2>. QED
        BY <2>2, <2>3, <2>4 DEF Forks
<1>16. Exits'
    <2>1. \A t \in Tasks : /\ Children(t)' \subseteq Children(t) /\ c \notin Children(t)'
                           /\ Children(t) \subseteq Slots
        BY <1>3, <1>4, <1>14 DEF Children
    <2>2. pc'[First] \notin ExitPoints
        BY <1>3, <1>4, <1>5, <1>7 DEF Exits, ExitPoints
    <2>3. \A x \in Tasks : pc[x] = "dead" /\ x # c => pc'[x] = "dead"
        BY <1>3, <1>7
    <2>4. ASSUME NEW t \in Tasks
          PROVE  /\ pc'[t] = "exit_scan" => \A x \in Children(t)' : pc'[x] = "dead"
                 /\ pc'[t] \in {"exit_unlock", "exit_last"} => Children(t)' = {}
        <3>1. pc'[t] \in {"exit_scan", "exit_unlock", "exit_last"} => pc'[t] = pc[t]
            BY <1>7
        <3>. QED
            BY <1>3, <1>4, <2>1, <2>3, <3>1 DEF Exits
    <2>. QED
        BY <1>4, <1>8, <2>2, <2>4 DEF Exits
<1>17. ParentIsLive'
    <2>. SUFFICES ASSUME NEW t \in Slots, pc'[t] = "dead" \/ t \in Live
                  PROVE  parent'[t] \in Live
        BY <1>8 DEF ParentIsLive
    <2>1. t # c /\ (pc[t] = "dead" \/ t \in Live)
        BY <1>3, <1>5, <1>7
    <2>. QED
        BY <1>3, <1>4, <1>14, <2>1 DEF ParentIsLive
<1>. QED
    BY <1>7, <1>9, <1>10, <1>11, <1>12, <1>13, <1>15, <1>16, <1>17 DEF LifeInv, Settled

-----------------------------------------------------------------------------
(* The theorems about processes. *)

LEMMA LifeNextInv ==
    ASSUME ~SlotsClash, ~LeavesOrphans, LifeInv, [LifeNext]_allVars
    PROVE  LifeInv'
<1>1. CASE fork_lock \/ fork_scan \/ fork_fails \/ fork_init \/ fork_parent \/ fork_start
    BY <1>1, ForkLockStep, ForkScanStep, ForkInitStep, ForkParentStep, ForkStartStep
<1>2. CASE exit_lock \/ exit_scan \/ exit_unlock \/ exit_last
    BY <1>2, ExitLockStep, ExitScanStep, ExitLastStep
<1>3. CASE wait_lock \/ wait_none \/ wait_return \/ wait_release
    BY <1>3, WaitStep
<1>4. CASE wait_reap \/ wait_block
    BY <1>4, WaitReapStep, WaitBlockStep
<1>5. CASE user_sleep \/ timer
    BY <1>5, TimerStep DEF user_sleep, timer
<1>6. CASE UNCHANGED allVars
    <2>1. UNCHANGED schedVars /\ UNCHANGED <<count, locked, owner, waitList>>
        BY <1>6 DEF allVars, vars, syncVars
    <2>2. UNCHANGED <<pc, child, moveChild, used, parent, forks>>
        BY <1>6 DEF allVars, lifeVars
    <2>3. UNCHANGED <<curr, state, ready, sleeping>>
        BY <2>1 DEF schedVars
    <2>4. SchedInv'
        BY <2>1, SchedNextInv DEF LifeInv, Settled
    <2>5. SyncTypeOK' /\ TableLock' /\ pc' \in [Tasks -> Points]
        BY <2>1, <2>2, <2>4 DEF LifeInv, Settled, SyncTypeOK, SchedInv, TableLock, Queue
    <2>6. Places'
        BY <2>1, <2>2, <2>3 DEF LifeInv, Settled, Places, Placed, Live, OnLists, Queue
    <2>7. LifeTypes' /\ Forks' /\ Exits' /\ ParentIsLive'
        BY <2>1, <2>2 DEF LifeInv, LifeTypes, Forks, Apart, ForkOf, Exits, Children,
                          Live, ParentIsLive
    <2>. QED
        BY <2>4, <2>5, <2>6, <2>7 DEF LifeInv, Settled
<1>. QED
    BY <1>1, <1>2, <1>3, <1>4, <1>5, <1>6 DEF LifeNext, sys_fork, sys_exit, sys_wait

(* The inductive invariant of the processes.  Forks, exits and waits interleave *)
(* at every point.  It holds as long as two forks do not choose the same slot   *)
(* (alloc_task leaves the slot it has chosen free for the next one) and no task *)
(* exits before its children (line 660 makes zombies of them while they run).   *)
THEOREM LifeSafe ==
    ASSUME ~SlotsClash, ~LeavesOrphans
    PROVE  LifeSpec => []LifeInv
<1>1. LifeInv /\ [LifeNext]_allVars => LifeInv'
    BY LifeNextInv
<1>. QED
    BY <1>1, LifeInitInv, PTL DEF LifeSpec

(* A live task is in exactly one place: ready, asleep, queueing for the table, *)
(* or waiting for a child; nobody is put into the ready list twice, however     *)
(* many children wake him, and a task that has exited is nowhere.               *)
THEOREM EveryoneHasAPlace ==
    ASSUME ~SlotsClash, ~LeavesOrphans
    PROVE  LifeSpec => []LiveTasksHaveAPlace
<1>1. ASSUME LifeInv PROVE LiveTasksHaveAPlace
    <2>1. LifeTypeOK /\ OnePlace /\ Distinct(Queue)
        BY <1>1 DEF LifeInv, LifeTypes, LifeTypeOK, Settled, SchedInv, TableLock
    <2>2. ASSUME NEW t \in Tasks
          PROVE  /\ t \in Live <=> \/ t \in OnLists
                                   \/ t \in Nodes(Queue)
                                   \/ t \in Waiting
                 /\ t \in Waiting => t \notin OnLists
                 /\ t \in Nodes(Queue) => t \notin OnLists \cup Waiting
        BY <1>1 DEF LifeInv, Settled, Places, Placed, Waiting
    <2>. QED
        BY <2>1, <2>2 DEF LiveTasksHaveAPlace, OnLists, Queue
<1>. QED
    BY <1>1, LifeSafe, PTL

(* Every task that runs or has exited has a live parent that can wait for it:   *)
(* none is left with the address of a slot that was freed or taken again, though *)
(* the table is unlocked between the steps of a fork and a zombie changes hands  *)
(* when its parent exits.                                                        *)
THEOREM ParentsAreLive ==
    ASSUME ~SlotsClash, ~LeavesOrphans
    PROVE  LifeSpec => []ParentIsLive
<1>1. LifeInv => ParentIsLive
    BY DEF LifeInv
<1>. QED
    BY <1>1, LifeSafe, PTL

=============================================================================

------------------------------ MODULE FileTable -----------------------------
(***************************************************************************)
(* Open files: the file table of kernel/fs/file.c, the descriptors of the  *)
(* tasks (core/task.c) and the calls of kernel/fs/fs.c that create, share  *)
(* and drop them, over the device table.                                   *)
(*                                                                         *)
(* The calls run with interrupts on: any task takes the next step.  The    *)
(* bodies of file_alloc and file_free hold file_alloc_mutex and are one    *)
(* action each.  The count is also changed by "ref++" in file_inc_ref,     *)
(* which holds that mutex, and by "ref--" in sys_close, which does not;    *)
(* each is a load and a store (the kernel is built with -O0), and is cut   *)
(* there.  The mutex is held from the load to the store of an increment.   *)
(*                                                                         *)
(* Opens of device files are modelled; what read, write and seek do to an  *)
(* open file concerns neither the counts nor the tables.                   *)
(***************************************************************************)
EXTENDS DevTable

CONSTANTS Tasks,          \* the tasks
          First,          \* the task that is there from the start
          Fds,            \* 0 .. TASK_OFILE_NR - 1
          Files,          \* 0 .. FILE_TABLE_SIZE - 1
          None,           \* a null pointer
          ClosesOverlap   \* sys_close may overlap with the calls of other tasks

ASSUME FileAssumption ==
    /\ First \in Tasks
    /\ Fds \subseteq Nat /\ Files \subseteq Nat
    /\ IsFiniteSet(Fds) /\ IsFiniteSet(Files) /\ IsFiniteSet(Tasks)
    /\ None \notin Files \cup Fds \cup DevIds \cup Tasks
    /\ ClosesOverlap \in BOOLEAN

VARIABLES ref,        \* file->ref
          devId,      \* file->dev_id; None for a file that is not open yet
          fdTable,    \* task->file_table
          alive,      \* the tasks that exist
          pc,         \* where the task is in its call
          arg,        \* the call's fd, and the file and value it holds
          childOf     \* sys_fork: the child it is about to start

fileVars == <<ref, devId, fdTable, alive, pc, arg, childOf>>

allVars == <<devVars, fileVars>>

Lowest(S) == CHOOSE x \in S : \A y \in S : x <= y

FreeFds(t) == {i \in Fds : fdTable[t][i] = None}
FreeFiles == {f \in Files : ref[f] = 0}

NoArg == [fd |-> None, file |-> None, value |-> 0]

FileInit ==
    /\ DevInit
    /\ ref = [f \in Files |-> 0]
    /\ devId = [f \in Files |-> None]
    /\ fdTable = [t \in Tasks |-> [i \in Fds |-> None]]
    /\ alive = {First}
    /\ pc = [t \in Tasks |-> "user"]
    /\ arg = [t \in Tasks |-> NoArg]
    /\ childOf = [t \in Tasks |-> None]

ClosePoints == {"close_load", "close_store", "close_dev", "close_free", "close_fd"}

\* Task t makes a new call: in the runs where closes do not overlap, not while
\* another task is inside sys_close.
Calls(t) ==
    /\ t \in alive
    /\ pc[t] = "user"
    /\ ClosesOverlap \/ \A u \in Tasks : pc[u] \notin ClosePoints

\* Nobody holds file_alloc_mutex.
MutexFree == \A u \in Tasks : pc[u] \notin {"dup_store", "fork_store"}

Goes(t, p) == pc' = [pc EXCEPT ![t] = p]
Returns(t) == Goes(t, "user") /\ arg' = [arg EXCEPT ![t] = NoArg]

-----------------------------------------------------------------------------
(* sys_open *)

\* file_alloc clears the entry and sets its count to one, and task_alloc_fd
\* looks for a descriptor.
open_alloc(t) ==
    /\ Calls(t)
    /\ MutexFree
    /\ FreeFiles # {}
    /\ LET f == Lowest(FreeFiles)
           i == IF FreeFds(t) = {} THEN None ELSE Lowest(FreeFds(t))
       IN  /\ ref' = [ref EXCEPT ![f] = 1]
           /\ devId' = [devId EXCEPT ![f] = None]
           /\ fdTable' = IF i = None THEN fdTable ELSE [fdTable EXCEPT ![t][i] = f]
           /\ arg' = [arg EXCEPT ![t] = [NoArg EXCEPT !.fd = i, !.file = f]]
           /\ Goes(t, IF i = None THEN "open_free" ELSE "open_dev")
    /\ UNCHANGED <<devVars, alive, childOf>>

\* fs->op->open, that is devfs_open for the path of minor m.
open_dev(t, m) ==
    /\ pc[t] = "open_dev"
    /\ \E d \in DevIds :
         /\ dev_open_again(m, d) \/ dev_open_new(m, d)
         /\ devId' = [devId EXCEPT ![arg[t].file] = d]
    /\ Returns(t)
    /\ UNCHANGED <<ref, fdTable, alive, childOf>>

open_dev_fails(t, m) ==
    /\ pc[t] = "open_dev"
    /\ dev_open_fails(m)
    /\ Goes(t, "open_free")
    /\ UNCHANGED <<ref, devId, fdTable, alive, arg, childOf>>

file_free(f) == MutexFree /\ ref' = [ref EXCEPT ![f] = IF @ # 0 THEN @ - 1 ELSE 0]

\* Mutant: the entry of the file table is not given back.
open_free_leaks(t) ==
    /\ pc[t] = "open_free"
    /\ fdTable' = IF arg[t].fd = None THEN fdTable
                  ELSE [fdTable EXCEPT ![t][arg[t].fd] = None]
    /\ Returns(t)
    /\ UNCHANGED <<devVars, ref, devId, alive, childOf>>

\* sys_open_failed
open_free(t) ==
    /\ pc[t] = "open_free"
    /\ file_free(arg[t].file)
    /\ fdTable' = IF arg[t].fd = None THEN fdTable
                  ELSE [fdTable EXCEPT ![t][arg[t].fd] = None]
    /\ Returns(t)
    /\ UNCHANGED <<devVars, devId, alive, childOf>>

-----------------------------------------------------------------------------
(* sys_dup and the copies sys_fork makes *)

\* file_inc_ref, cut between the load of the count and its store.
inc_load(t, f) ==
    MutexFree /\ arg' = [arg EXCEPT ![t].file = f, ![t].value = ref[f]]
inc_store(t) == ref' = [ref EXCEPT ![arg[t].file] = arg[t].value + 1]

\* The new descriptor is in the table before the count is incremented.
dup_fd(t, i) ==
    /\ Calls(t)
    /\ fdTable[t][i] # None
    /\ FreeFds(t) # {}
    /\ fdTable' = [fdTable EXCEPT ![t][Lowest(FreeFds(t))] = fdTable[t][i]]
    /\ arg' = [arg EXCEPT ![t].file = fdTable[t][i]]
    /\ Goes(t, "dup_load")
    /\ UNCHANGED <<devVars, ref, devId, alive, childOf>>

dup_load(t) ==
    /\ pc[t] = "dup_load"
    /\ inc_load(t, arg[t].file)
    /\ Goes(t, "dup_store")
    /\ UNCHANGED <<devVars, ref, devId, fdTable, alive, childOf>>

dup_store(t) ==
    /\ pc[t] = "dup_store"
    /\ inc_store(t)
    /\ Returns(t)
    /\ UNCHANGED <<devVars, devId, fdTable, alive, childOf>>

\* sys_fork: task_init has cleared the child's table, copy_opened_files goes
\* over the parent's.
fork_init(t, c) ==
    /\ Calls(t)
    /\ c \notin alive
    /\ \A u \in Tasks : childOf[u] # c
    /\ childOf' = [childOf EXCEPT ![t] = c]
    /\ Goes(t, "fork_load")
    /\ UNCHANGED <<devVars, ref, devId, fdTable, alive, arg>>

FdsToCopy(t) ==
    {i \in Fds : fdTable[t][i] # None /\ fdTable[childOf[t]][i] = None}

fork_load(t) ==
    /\ pc[t] = "fork_load"
    /\ FdsToCopy(t) # {}
    /\ inc_load(t, fdTable[t][Lowest(FdsToCopy(t))])
    /\ Goes(t, "fork_store")
    /\ UNCHANGED <<devVars, ref, devId, fdTable, alive, childOf>>

fork_store(t) ==
    /\ pc[t] = "fork_store"
    /\ inc_store(t)
    /\ fdTable' = [fdTable EXCEPT ![childOf[t]][Lowest(FdsToCopy(t))] = arg[t].file]
    /\ Goes(t, "fork_load")
    /\ UNCHANGED <<devVars, devId, alive, arg, childOf>>

\* The child starts.
fork_end(t) ==
    /\ pc[t] = "fork_load"
    /\ FdsToCopy(t) = {}
    /\ alive' = alive \cup {childOf[t]}
    /\ childOf' = [childOf EXCEPT ![t] = None]
    /\ Returns(t)
    /\ UNCHANGED <<devVars, ref, devId, fdTable>>

-----------------------------------------------------------------------------
(* sys_close, also called by sys_exit for every descriptor *)

close_call(t, i) ==
    /\ Calls(t)
    /\ ClosesOverlap \/ \A u \in Tasks : pc[u] = "user"
    /\ fdTable[t][i] # None
    /\ arg' = [arg EXCEPT ![t] = [NoArg EXCEPT !.fd = i, !.file = fdTable[t][i]]]
    /\ Goes(t, "close_load")
    /\ UNCHANGED <<devVars, ref, devId, fdTable, alive, childOf>>

\* p_file->ref-- == 1, without the mutex: load ...
close_load(t) ==
    /\ pc[t] = "close_load"
    /\ arg' = [arg EXCEPT ![t].value = ref[arg[t].file]]
    /\ Goes(t, "close_store")
    /\ UNCHANGED <<devVars, ref, devId, fdTable, alive, childOf>>

close_last(v) == v = 1

\* ... and store.
close_store(t) ==
    /\ pc[t] = "close_store"
    /\ ref' = [ref EXCEPT ![arg[t].file] = arg[t].value - 1]
    /\ Goes(t, IF close_last(arg[t].value) THEN "close_dev" ELSE "close_fd")
    /\ UNCHANGED <<devVars, devId, fdTable, alive, arg, childOf>>

\* fs->op->close, that is dev_close of the file's device.
close_dev(t) ==
    /\ pc[t] = "close_dev"
    /\ LET d == devId[arg[t].file] IN
         IF d = None THEN UNCHANGED devVars ELSE dev_close(d)
    /\ Goes(t, "close_free")
    /\ UNCHANGED <<ref, devId, fdTable, alive, arg, childOf>>

close_free(t) ==
    /\ pc[t] = "close_free"
    /\ file_free(arg[t].file)
    /\ Goes(t, "close_fd")
    /\ UNCHANGED <<devVars, devId, fdTable, alive, arg, childOf>>

close_fd(t) ==
    /\ pc[t] = "close_fd"
    /\ fdTable' = [fdTable EXCEPT ![t][arg[t].fd] = None]
    /\ Returns(t)
    /\ UNCHANGED <<devVars, ref, devId, alive, childOf>>

\* sys_exit has closed every descriptor.
exit(t) ==
    /\ Calls(t)
    /\ t # First
    /\ FreeFds(t) = Fds
    /\ alive' = alive \ {t}
    /\ UNCHANGED <<devVars, ref, devId, fdTable, pc, arg, childOf>>

-----------------------------------------------------------------------------

FileNext ==
    \E t \in Tasks :
        \/ open_alloc(t) \/ open_free(t)
        \/ \E m \in Minors : open_dev(t, m) \/ open_dev_fails(t, m)
        \/ \E i \in Fds : dup_fd(t, i)
        \/ dup_load(t) \/ dup_store(t)
        \/ \E c \in Tasks : fork_init(t, c)
        \/ fork_load(t) \/ fork_store(t) \/ fork_end(t)
        \/ \E i \in Fds : close_call(t, i)
        \/ close_load(t) \/ close_store(t) \/ close_dev(t) \/ close_free(t) \/ close_fd(t)
        \/ exit(t)

FileSpec == FileInit /\ [][FileNext]_allVars

-----------------------------------------------------------------------------

Points == ClosePoints \cup {"user", "open_dev", "open_free", "dup_load", "dup_store",
                            "fork_load", "fork_store"}

\* The count is negative only where the decrements of two closes overlap.
FileTypeOK ==
    /\ DevTypeOK
    /\ ref \in [Files -> IF ClosesOverlap THEN Int ELSE Nat]
    /\ devId \in [Files -> DevIds \cup {None}]
    /\ fdTable \in [Tasks -> [Fds -> Files \cup {None}]]
    /\ alive \subseteq Tasks
    /\ pc \in [Tasks -> Points]
    /\ arg \in [Tasks -> [fd : Fds \cup {None}, file : Files \cup {None}, value : Int]]
    /\ childOf \in [Tasks -> Tasks \cup {None}]

\* The descriptors that name f, and those among them that the count does not
\* hold yet or no longer: of a sys_dup before its increment and of a sys_close
\* after its decrement.  A sys_open that got no descriptor holds a count too.
Named(f) == {x \in Tasks \X Fds : fdTable[x[1]][x[2]] = f}
Uncounted(f) ==
    {t \in Tasks : arg[t].file = f /\ pc[t] \in
                     {"dup_load", "dup_store", "close_dev", "close_free", "close_fd"}}
Unnamed(f) ==
    {t \in Tasks : arg[t].file = f /\ pc[t] = "open_free" /\ arg[t].fd = None}

\* The reference count of a file is the number of descriptors that name it,
\* over all tasks, through opens that fail half way, dup and fork.
RefIsNumberOfDescriptors ==
    /\ FileTypeOK
    /\ \A f \in Files :
         ref[f] = Cardinality(Named(f)) + Cardinality(Unnamed(f))
                                        - Cardinality(Uncounted(f))

\* A device has one entry, and its open count is the number of files open on it:
\* it is closed when the last of them is, and not before.
Using(d) ==
    {f \in Files : devId[f] = d /\
        (ref[f] # 0 \/ \E t \in Tasks : pc[t] = "close_dev" /\ arg[t].file = f)}

OpenCountIsNumberOfFiles ==
    /\ DeviceOpenOnce
    /\ \A d \in DevIds : openCount[d] = Cardinality(Using(d))

\* ASSERT(p_file->ref > 0) in sys_close: the file a descriptor names is in use.
\* The unguarded decrement breaks it when closes overlap with other calls.
CloseAssertion == \A t \in Tasks : pc[t] = "close_load" => ref[arg[t].file] > 0

=============================================================================

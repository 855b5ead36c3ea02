---------------------------- MODULE AddressSpace ----------------------------
(***************************************************************************)
(* The physical pages and the address spaces of the processes:             *)
(* kernel/core/memory.c, and what sys_fork, sys_execve, sys_sbrk and       *)
(* sys_wait of core/task.c and core/memory.c do with them.                 *)
(*                                                                         *)
(* A frame is a physical page.  "content" is what is in the frames that    *)
(* serve as page directories and page tables; a directory, a table, a      *)
(* mapped page and a kernel stack take a frame each.  Virtual pages are    *)
(* numbered from 0, addresses count bytes.  Entry 0 of a directory stands  *)
(* for the kernel's entries, which all directories share; user pages begin *)
(* with entry 1.                                                           *)
(*                                                                         *)
(* The calls run with interrupts on.  Every addr_alloc_page holds the      *)
(* allocator's mutex, so the calls are cut at the pages they allocate, a   *)
(* page together with the table it needs.                                  *)
(* Pages are released in one step: nobody else sees them in between, and   *)
(* an allocation that came half way would get other numbers only.          *)
(*                                                                         *)
(* Who may reap whom is the matter of TaskLife.  Here the memory lasts:    *)
(* without a free frame an allocation does not go on.  (The code goes on   *)
(* with the address -1, which none of its callers recognise.)              *)
(***************************************************************************)
EXTENDS Integers, Sequences, FiniteSets

CONSTANTS Tasks, First,   \* first_task and the slots of task_table
          Frames,         \* the physical pages
          None, Kernel,   \* no entry; the kernel's entry
          PAGE,           \* MEM_PAGE_SIZE
          ENTRIES,        \* PDE_COUNT = PTE_COUNT
          Programs,       \* the loadable segments of the programs
          Stack,          \* the pages of a new program's stack, as a segment
          MaxIncr,        \* bound on the argument of sys_sbrk
          HeapLimit,      \* bound: no heap is let grow beyond
          MaxForks,       \* bound on the calls of sys_fork
          HeapAfterFork,  \* a forked process may call sbrk before execve
          LateExecFails   \* execve may fail after a segment has been loaded

ASSUME MemAssumption ==
    /\ First \in Tasks
    /\ Frames \subseteq Nat /\ IsFiniteSet(Frames) /\ Cardinality(Frames) >= 4
    /\ None \notin Frames \cup Tasks /\ Kernel \notin Frames \cup {None}
    /\ PAGE \in Nat \ {0} /\ ENTRIES \in Nat \ {0, 1}
    /\ HeapAfterFork \in BOOLEAN /\ LateExecFails \in BOOLEAN

VARIABLES used,      \* paddr_alloc.bitmap: the frames that are allocated
          content,   \* the entries in the frames
          alive,     \* tasks that have been started and not been reaped
          dead,      \* those that have exited
          dir,       \* task->tss.cr3
          kstack,    \* task->tss.esp0 - MEM_PAGE_SIZE
          heapEnd,   \* task->heap_end
          pc,        \* where the task is in its call
          new,       \* the directory the call is building
          todo,      \* the pages it has still to map there
          segs,      \* sys_execve: the segments not loaded yet
          loaded,    \* sys_execve: the number of segments loaded
          end,       \* sys_sbrk: the heap's new end
          child,     \* sys_fork: the child
          lost,      \* frames that are allocated and no longer known to anyone
          forksLeft

workVars == <<new, todo, segs, loaded, end, child>>
vars == <<used, content, alive, dead, dir, kstack, heapEnd, pc, workVars, lost, forksLeft>>

Slots == Tasks \ {First}
Index == 0 .. ENTRIES - 1
NoEntries == [i \in Index |-> None]

Lowest(S) == CHOOSE x \in S : \A y \in S : x <= y
Sorted(S) == [i \in 1 .. Cardinality(S) |->
                 CHOOSE x \in S : Cardinality({y \in S : y < x}) = i - 1]

-----------------------------------------------------------------------------
(* The page tables. *)

pde_index(v) == v \div ENTRIES
pte_index(v) == v % ENTRIES

\* The table for page v in directory d, and the frame v is mapped to.
TableOf(d, v) == content[d][pde_index(v)]
Mapped(d, v) ==
    CASE TableOf(d, v) = Kernel -> Kernel
      [] TableOf(d, v) = None -> None
      [] OTHER -> content[TableOf(d, v)][pte_index(v)]

UserPages == ENTRIES .. ENTRIES * ENTRIES - 1
UserEntries == 1 .. ENTRIES - 1
Present(d) == {v \in UserPages : Mapped(d, v) # None}

\* What memory_destroy_uvm gives back.
Owned(d) == {d} \cup ({content[d][i] : i \in UserEntries} \ {None})
                \cup {Mapped(d, v) : v \in Present(d)}

\* memory_create_uvm
NewDirectory(f) == [NoEntries EXCEPT ![0] = Kernel]

\* The frame the allocator hands out next.
Free == Frames \ used
Page == Lowest(Free)

\* memory_alloc_for_page_dir: a frame for the next page and, in find_pte, one for
\* its table if there is none.
MapNext(t) ==
    LET d == new[t]  v == Head(todo[t])
        p == Page    table == Lowest(Free \ {p})
    IN  /\ IF TableOf(d, v) = None
           THEN /\ Cardinality(Free) > 1
                /\ used' = used \cup {p, table}
                /\ content' = [content EXCEPT
                       ![d][pde_index(v)] = table,
                       ![table] = [NoEntries EXCEPT ![pte_index(v)] = p]]
           ELSE /\ Free # {}
                /\ used' = used \cup {p}
                /\ content' = IF TableOf(d, v) = Kernel THEN content
                              ELSE [content EXCEPT ![TableOf(d, v)][pte_index(v)] = p]
        /\ todo' = [todo EXCEPT ![t] = Tail(@)]

\* The pages memory_alloc_for_page_dir maps for size bytes from address a: the
\* size is rounded up, whatever the place of a in its page.
PagesFor(a, size) == [i \in 1 .. (size + PAGE - 1) \div PAGE |-> a \div PAGE + i - 1]

\* The pages a segment lies in.
Segment == [at : Nat, size : Nat \ {0}]
FirstPage(s) == s.at \div PAGE
LastPage(s) == (s.at + s.size - 1) \div PAGE
SegPages(s) == FirstPage(s) .. LastPage(s)

\* What link.lds makes of the programs: a segment lies in the pages that are
\* mapped for it, and the segments follow one another in the user's pages, below
\* the heap's limit and the stack.
Fits(s) == /\ s \in Segment
           /\ (s.size + PAGE - 1) \div PAGE = LastPage(s) - FirstPage(s) + 1

ASSUME ProgramAssumption ==
    /\ MaxIncr \in Nat /\ HeapLimit \in Nat /\ HeapLimit <= PAGE * FirstPage(Stack)
    /\ Fits(Stack) /\ SegPages(Stack) \subseteq UserPages
    /\ \A program \in Programs :
         /\ program \in Seq(Segment) \ {<<>>}
         /\ \A i \in 1 .. Len(program) :
              /\ Fits(program[i])
              /\ ENTRIES <= FirstPage(program[i]) /\ LastPage(program[i]) < FirstPage(Stack)
              /\ \A j \in 1 .. i - 1 : LastPage(program[j]) < FirstPage(program[i])

-----------------------------------------------------------------------------

\* task_first_init: the first task has a page of its own.
MemInit ==
    LET s == Sorted(Frames)
        stack == s[1]  directory == s[2]  page == s[3]  table == s[4]
    IN
    /\ used = {stack, directory, page, table}
    /\ kstack = [t \in Tasks |-> IF t = First THEN stack ELSE None]
    /\ dir = [t \in Tasks |-> IF t = First THEN directory ELSE None]
    /\ content = [f \in Frames |->
                     CASE f = directory -> [NoEntries EXCEPT ![0] = Kernel, ![1] = table]
                       [] f = table -> [NoEntries EXCEPT ![0] = page]
                       [] OTHER -> NoEntries]
    /\ alive = {First} /\ dead = {}
    /\ heapEnd = [t \in Tasks |-> 0]
    /\ pc = [t \in Tasks |-> "user"]
    /\ new = [t \in Tasks |-> None]
    /\ todo = [t \in Tasks |-> <<>>]
    /\ segs = [t \in Tasks |-> <<>>]
    /\ loaded = [t \in Tasks |-> 0]
    /\ end = [t \in Tasks |-> 0]
    /\ child = [t \in Tasks |-> None]
    /\ lost = {}
    /\ forksLeft = MaxForks

At(t, p) == t \in alive \ dead /\ pc[t] = p
Goes(t, p) == pc' = [pc EXCEPT ![t] = p]

MapPage(t, p) ==
    /\ At(t, p)
    /\ todo[t] # <<>>
    /\ MapNext(t)
    /\ UNCHANGED <<alive, dead, dir, kstack, heapEnd, pc, new, segs, loaded, end, child, lost, forksLeft>>

-----------------------------------------------------------------------------
(* sys_fork.  The race for a slot is in TaskLife; here a slot that is being *)
(* filled is taken.                                                         *)

InFork == {c \in Slots : \E t \in Tasks : child[t] = c}

\* tss_init: the kernel stack, ...
fork_stack(t, c) ==
    /\ At(t, "user")
    /\ forksLeft > 0
    /\ c \in Slots \ (alive \cup InFork)
    /\ Free # {}
    /\ kstack' = [kstack EXCEPT ![c] = Page]
    /\ used' = used \cup {Page}
    /\ child' = [child EXCEPT ![t] = c]
    /\ heapEnd' = [heapEnd EXCEPT ![c] = 0]
    /\ forksLeft' = forksLeft - 1
    /\ Goes(t, "fork_dir")
    /\ UNCHANGED <<content, alive, dead, dir, new, todo, segs, loaded, end, lost>>

\* ... and a page directory.
fork_dir(t) ==
    /\ At(t, "fork_dir")
    /\ Free # {}
    /\ dir' = [dir EXCEPT ![child[t]] = Page]
    /\ used' = used \cup {Page}
    /\ content' = [content EXCEPT ![Page] = NewDirectory(Page)]
    /\ Goes(t, "fork_copy")
    /\ UNCHANGED <<alive, dead, kstack, heapEnd, workVars, lost, forksLeft>>

\* memory_copy_uvm makes a directory too and copies every page into it.
fork_copy(t) ==
    /\ At(t, "fork_copy")
    /\ Free # {}
    /\ new' = [new EXCEPT ![t] = Page]
    /\ used' = used \cup {Page}
    /\ content' = [content EXCEPT ![Page] = NewDirectory(Page)]
    /\ todo' = [todo EXCEPT ![t] = Sorted(Present(dir[t]))]
    /\ Goes(t, "fork_map")
    /\ UNCHANGED <<alive, dead, dir, kstack, heapEnd, segs, loaded, end, child, lost, forksLeft>>

\* It replaces the directory of tss_init, which is not given back.
fork_end(t) ==
    /\ At(t, "fork_map")
    /\ todo[t] = <<>>
    /\ lost' = lost \cup {dir[child[t]]}
    /\ dir' = [dir EXCEPT ![child[t]] = new[t]]
    /\ alive' = alive \cup {child[t]}
    /\ child' = [child EXCEPT ![t] = None]
    /\ new' = [new EXCEPT ![t] = None]
    /\ Goes(t, "user")
    /\ UNCHANGED <<used, content, dead, kstack, heapEnd, todo, segs, loaded, end, forksLeft>>

sys_fork(t) ==
    \/ \E c \in Slots : fork_stack(t, c)
    \/ fork_dir(t) \/ fork_copy(t) \/ MapPage(t, "fork_map") \/ fork_end(t)

-----------------------------------------------------------------------------
(* sys_execve *)

exec_start(t, program) ==
    /\ At(t, "user")
    /\ t # First
    /\ Free # {}
    /\ new' = [new EXCEPT ![t] = Page]
    /\ used' = used \cup {Page}
    /\ content' = [content EXCEPT ![Page] = NewDirectory(Page)]
    /\ segs' = [segs EXCEPT ![t] = program]
    /\ loaded' = [loaded EXCEPT ![t] = 0]
    /\ todo' = [todo EXCEPT ![t] = PagesFor(Head(program).at, Head(program).size)]
    /\ Goes(t, "load")
    /\ UNCHANGED <<alive, dead, dir, kstack, heapEnd, end, child, lost, forksLeft>>

\* load_phdr has mapped and read a segment: the heap begins behind it.
exec_loaded(t) ==
    LET seg == Head(segs[t])  rest == Tail(segs[t])
        next == IF rest = <<>> THEN Stack ELSE Head(rest)
    IN  /\ At(t, "load")
        /\ todo[t] = <<>>
        /\ heapEnd' = [heapEnd EXCEPT ![t] = seg.at + seg.size]
        /\ segs' = [segs EXCEPT ![t] = rest]
        /\ loaded' = [loaded EXCEPT ![t] = @ + 1]
        /\ todo' = [todo EXCEPT ![t] = PagesFor(next.at, next.size)]
        /\ Goes(t, IF rest = <<>> THEN "stack" ELSE "load")
        /\ UNCHANGED <<used, content, alive, dead, dir, kstack, new, end, child, lost, forksLeft>>

\* The file is not there, is not a program or cannot be read on; or, at the end,
\* the arguments do not fit.  What has been built is destroyed and the task goes
\* on with the pages it had, but not with the heap_end it had.
exec_fails(t) ==
    /\ \/ /\ At(t, "load")
          /\ todo[t] \in {<<>>, PagesFor(Head(segs[t]).at, Head(segs[t]).size)}
          /\ LateExecFails \/ loaded[t] = 0
       \/ /\ At(t, "stack")
          /\ todo[t] = <<>>
          /\ LateExecFails
    /\ used' = used \ Owned(new[t])
    /\ new' = [new EXCEPT ![t] = None]
    /\ todo' = [todo EXCEPT ![t] = <<>>]
    /\ segs' = [segs EXCEPT ![t] = <<>>]
    /\ loaded' = [loaded EXCEPT ![t] = 0]
    /\ Goes(t, "user")
    /\ UNCHANGED <<content, alive, dead, dir, kstack, heapEnd, end, child, lost, forksLeft>>

\* Mutants: the old space is kept; the new one is destroyed.
exec_done_keeps(t) ==
    /\ At(t, "stack")
    /\ todo[t] = <<>>
    /\ dir' = [dir EXCEPT ![t] = new[t]]
    /\ new' = [new EXCEPT ![t] = None]
    /\ loaded' = [loaded EXCEPT ![t] = 0]
    /\ Goes(t, "user")
    /\ UNCHANGED <<used, content, alive, dead, kstack, heapEnd, todo, segs, end, child, lost, forksLeft>>

exec_done_destroys_new(t) ==
    /\ At(t, "stack")
    /\ todo[t] = <<>>
    /\ dir' = [dir EXCEPT ![t] = new[t]]
    /\ used' = used \ Owned(new[t])
    /\ new' = [new EXCEPT ![t] = None]
    /\ loaded' = [loaded EXCEPT ![t] = 0]
    /\ Goes(t, "user")
    /\ UNCHANGED <<content, alive, dead, kstack, heapEnd, todo, segs, end, child, lost, forksLeft>>

\* The stack is mapped and the arguments are copied: the new space is entered
\* and the old one destroyed.
exec_done(t) ==
    /\ At(t, "stack")
    /\ todo[t] = <<>>
    /\ dir' = [dir EXCEPT ![t] = new[t]]
    /\ used' = used \ Owned(dir[t])
    /\ new' = [new EXCEPT ![t] = None]
    /\ loaded' = [loaded EXCEPT ![t] = 0]
    /\ Goes(t, "user")
    /\ UNCHANGED <<content, alive, dead, kstack, heapEnd, todo, segs, end, child, lost, forksLeft>>

sys_execve(t) ==
    \/ \E program \in Programs : exec_start(t, program)
    \/ MapPage(t, "load") \/ exec_loaded(t) \/ exec_fails(t)
    \/ MapPage(t, "stack") \/ exec_done(t)

-----------------------------------------------------------------------------
(* sys_sbrk *)

Offset(a) == a % PAGE

\* Mutant: a heap that ends with its page is taken to have room there.
FitsInPage_aligned(a, incr) == Offset(a) + incr <= PAGE

FitsInPage(a, incr) == Offset(a) # 0 /\ Offset(a) + incr <= PAGE

\* The first address that needs a new page.
NextPage(a) == IF Offset(a) = 0 THEN a ELSE a + PAGE - Offset(a)

sbrk_in_page(t, incr) ==
    /\ At(t, "user")
    /\ heapEnd[t] # 0
    /\ FitsInPage(heapEnd[t], incr)
    /\ heapEnd' = [heapEnd EXCEPT ![t] = @ + incr]
    /\ UNCHANGED <<used, content, alive, dead, dir, kstack, pc, workVars, lost, forksLeft>>

\* The first task never calls it.  A forked task has no heap before its execve:
\* its heap_end is 0, an address of the kernel.
sbrk_start(t, incr) ==
    LET from == NextPage(heapEnd[t])  to == heapEnd[t] + incr
    IN  /\ At(t, "user")
        /\ t # First
        /\ HeapAfterFork \/ heapEnd[t] # 0
        /\ ~FitsInPage(heapEnd[t], incr)
        /\ to <= HeapLimit
        /\ new' = [new EXCEPT ![t] = dir[t]]
        /\ todo' = [todo EXCEPT ![t] = PagesFor(from, to - from)]
        /\ end' = [end EXCEPT ![t] = to]
        /\ Goes(t, "sbrk")
        /\ UNCHANGED <<used, content, alive, dead, dir, kstack, heapEnd, segs, loaded, child, lost, forksLeft>>

sbrk_end(t) ==
    /\ At(t, "sbrk")
    /\ todo[t] = <<>>
    /\ heapEnd' = [heapEnd EXCEPT ![t] = end[t]]
    /\ new' = [new EXCEPT ![t] = None]
    /\ end' = [end EXCEPT ![t] = 0]
    /\ Goes(t, "user")
    /\ UNCHANGED <<used, content, alive, dead, dir, kstack, todo, segs, loaded, child, lost, forksLeft>>

sys_sbrk(t) ==
    \/ \E incr \in 1 .. MaxIncr : sbrk_in_page(t, incr) \/ sbrk_start(t, incr)
    \/ MapPage(t, "sbrk") \/ sbrk_end(t)

-----------------------------------------------------------------------------

\* sys_exit frees no memory, ...
sys_exit(t) ==
    /\ At(t, "user")
    /\ t # First
    /\ dead' = dead \cup {t}
    /\ UNCHANGED <<used, content, alive, dir, kstack, heapEnd, pc, workVars, lost, forksLeft>>

\* ... the parent's sys_wait does.
sys_wait(t, c) ==
    /\ At(t, "user")
    /\ c \in dead
    /\ used' = used \ (Owned(dir[c]) \cup {kstack[c]})
    /\ alive' = alive \ {c}
    /\ dead' = dead \ {c}
    /\ dir' = [dir EXCEPT ![c] = None]
    /\ kstack' = [kstack EXCEPT ![c] = None]
    /\ heapEnd' = [heapEnd EXCEPT ![c] = 0]
    /\ UNCHANGED <<content, pc, workVars, lost, forksLeft>>

MemNext ==
    \E t \in Tasks :
        \/ sys_fork(t) \/ sys_execve(t) \/ sys_sbrk(t) \/ sys_exit(t)
        \/ \E c \in Slots : sys_wait(t, c)

MemSpec == MemInit /\ [][MemNext]_vars

-----------------------------------------------------------------------------

Points == {"user", "fork_dir", "fork_copy", "fork_map", "load", "stack", "sbrk"}

\* The directories in use or being built.
Directories == ({dir[t] : t \in Tasks} \cup {new[t] : t \in Tasks}) \ {None}

\* All directories share the kernel.
MemTypeOK ==
    /\ used \subseteq Frames
    /\ dead \subseteq alive /\ alive \subseteq Tasks
    /\ content \in [Frames -> [Index -> Frames \cup {None, Kernel}]]
    /\ \A d \in Directories : content[d][0] = Kernel
    /\ dir \in [Tasks -> Frames \cup {None}]
    /\ kstack \in [Tasks -> Frames \cup {None}]
    /\ heapEnd \in [Tasks -> Nat]
    /\ pc \in [Tasks -> Points]

\* Everything that holds a frame, with the frame.
Claims ==
    {[by |-> <<"stack", t>>, frame |-> kstack[t]] : t \in {u \in Tasks : kstack[u] # None}}
    \cup {[by |-> <<"dir", t>>, frame |-> dir[t]] : t \in {u \in Tasks : dir[u] # None}}
    \cup {[by |-> <<"new", t>>, frame |-> new[t]] :
             t \in {u \in Tasks : new[u] # None /\ pc[u] # "sbrk"}}
    \cup {[by |-> <<"table", x>>, frame |-> content[x[1]][x[2]]] :
             x \in {y \in Directories \X UserEntries : content[y[1]][y[2]] # None}}
    \cup {[by |-> <<"page", x>>, frame |-> Mapped(x[1], x[2])] :
             x \in {y \in Directories \X UserPages : Mapped(y[1], y[2]) # None}}
    \cup {[by |-> <<"lost", f>>, frame |-> f] : f \in lost}

\* No frame serves two purposes or two processes: page tables, pages and kernel
\* stacks of the living, the dead and those that are just being made.
FramesOwnedOnce == \A a, b \in Claims : a.frame = b.frame => a = b

\* A frame is allocated exactly as long as something holds it: nothing is freed
\* too early, and nothing but the one directory per fork is lost.
FramesAccounted == used = {a.frame : a \in Claims}

\* Both, with the frames of those who fork, execute, exit and fail in between.
FramesExact == MemTypeOK /\ FramesOwnedOnce /\ FramesAccounted

\* ASSERT(pte->present == 0) in memory_create_map.
MapsOnlyUnmapped ==
    \A t \in Tasks : todo[t] # <<>> => Mapped(new[t], Head(todo[t])) = None

\* A heap ends in its last page: all of it is mapped, and nothing from there to
\* the stack.
HeapIsMapped ==
    \A t \in alive : heapEnd[t] # 0 /\ pc[t] = "user" =>
        /\ Mapped(dir[t], (heapEnd[t] - 1) \div PAGE) # None
        /\ \A v \in (heapEnd[t] + PAGE - 1) \div PAGE .. FirstPage(Stack) - 1 :
              Mapped(dir[t], v) = None

\* Both: what is mapped is what the segments, the heap and the stack say.
MappedExactly == MapsOnlyUnmapped /\ HeapIsMapped

\* A process keeps its pages whatever the others do: its memory changes only by
\* its own sbrk and execve.
OthersUntouched ==
    [][\A c \in alive \cap alive' :
          pc[c] \notin {"sbrk", "stack"} =>
              \A v \in UserPages : Mapped(dir[c], v)' = Mapped(dir[c], v)]_vars

=============================================================================

# LumosOS: formal models

LumosOS is a small x86 kernel with a shell: tasks with private page tables, a
round-robin scheduler, semaphores and mutexes, fork/exec/wait, a table of open
files over two file systems (devices and FAT16), a keyboard, text consoles and
an ATA disk. This directory holds TLA+ models of its kernel
(`src/source/kernel`) and its shell, TLC configurations that check them on small
instances, and TLAPS proofs of properties of the scheduler and its sleeps, the semaphores, the
mutexes, the processes, the open files and devices, the memory, the tty, the
disk driver and the shell for every number of tasks, files, devices and frames, of
the consoles and the keyboard for every size of the windows and every map of keys,
and of the linked lists and the ring buffers for every size. `PROJECT.json` maps every definition to the
lines it models, and lists runs, mutants, findings, hazards and theorems.

Paths below are relative to `src/source/kernel`.

## How the kernel executes, and what an action is

- There is one CPU. A system call comes through a call gate and leaves
  interrupts enabled, so kernel code can be preempted between any two
  instructions, except between `irq_enter_protection` and
  `irq_leave_protection`; interrupt handlers run with interrupts off.
- `task_dispatch` switches by a far jump to a TSS. Whoever called it is
  suspended right there and continues right there.
- Hence: a protected region is **one action** up to a `task_dispatch` in it, and
  code outside is cut at every point where another task could see or change
  what it uses. Where the code has no protection at all (`ref--` in `sys_close`)
  the cut is between load and store; the kernel is compiled with `-O0`.
- During the boot interrupts are off and there is no current task; the initial
  states are those after `task_first_init`.

## Inventory

| Component (files) | State | Operations | Who uses it | What is hard about it |
|---|---|---|---|---|
| scheduler (`core/task.c`, `dev/time.c`) | ready and sleep list, current task, slice and sleep counters, task states | `task_start`, `task_set_ready/block`, `task_dispatch`, `sys_yield`, `sys_sleep`, `task_time_tick` | everything that blocks | the timer handler dispatches in its middle; the second half runs later, in another order |
| lists (`tools/list.c`) | doubly linked nodes embedded in tasks | insert, remove | scheduler, semaphores, mutexes, `dev`/`fs` | one `run_node` per task for two lists |
| semaphores, mutexes (`ipc/sem.c`, `core/mutex.c`) | count or owner and nesting depth, wait list | wait, notify; lock, unlock | tty, disk, console, tables | hand-over to a waiter that does not run yet; notify from interrupt handlers |
| processes (`core/task.c`, `init/first_task.c`, `cpu/cpu.c`) | `task_table`, its mutex, parents | `sys_fork`, `sys_exit`, `sys_wait`, `sys_execve` | shell | races over a slot, over the scan of children and the block, over a parent that is gone |
| open files (`fs/file.c`, `fs/fs.c`, `fs/devfs`) | file table, reference counts, descriptors | open, dup, close, read, write, the copies of fork and exit | every program | counts changed without a lock; opens that fail half way |
| device table (`dev/dev.c`) | open counts | `dev_open`, `dev_close` | devfs, fatfs | one entry per device while it is open |
| tty (`dev/tty.c`) | input and output fifo with a semaphore each, echo flag | `tty_write`, `tty_read`, `tty_control`, `tty_in` | shell, log | several writers and readers, and an interrupt handler, on the same fifos |
| console (`dev/console.c`) | cursor, attributes, escape machine, display memory | `console_write`, `console_select` | tty | escape sequences cut in pieces; scrolling at the corner |
| keyboard (`dev/kbd.c`) | modifiers, scan code machine | `do_handler_kbd` | tty | the end of interrupt is sent after a possible dispatch |
| disk (`dev/disk.c`) | a mutex, a semaphore, `task_on_op` | `disk_read`, `disk_write`, the IRQ14 handler | fatfs | an interrupt that comes late, early or twice; errors in the middle |
| FAT16 (`fs/fatfs`) | FAT, directory, one cached sector, file positions | open, read, write, seek, close, readdir, unlink | `fs.c` | a failure in the middle of an update; cached sector and cached size |
| memory (`core/memory.c`, `tools/bitmap.c`) | page bitmap, page directories and tables | create, copy, destroy, `sbrk` | fork, exec, exit | exhaustion half way; pages freed twice or never |
| program loading (`core/task.c`) | ELF headers, new page directory | `sys_execve`, `load_elf_file` | shell | the old address space is gone only when the new one is complete |
| gate, interrupts, PIC (`core/syscall.c`, `cpu/irq.c`) | nothing of their own, the IF flag | dispatch by number | all | order of end of interrupt and dispatch |
| library, log (`tools/klib.c`, `tools/log.c`) | none, a mutex | strings, `itoa`, formatting | all | boundaries |
| boot, loader (`../boot`, `../loader`, `init/init.c`) | - | run once | - | not concurrent |
| applications (`../shell`, `../applib`, `../loop`) | descriptors, heap, `optind`, echo of the terminal | the commands, and the programs they start | users | a command that fails half way; a child that cannot execute |

What makes each modelled component correct is stated with its module and its run
below. `PROJECT.json` lists under `hazards` the places in the code that are hard
to test, each with the properties that watch it or the reason why none does.

## Modules

```
TaskList ── ListTheorems ───────────── SemTheorems ── Semaphores    FairLocks
   │              │                         │         (abstract)    (abstract)
 Sched            │                         │            │ │ \         │
   ├── SleepClock ──┐                       ├─ TtyProofs │ │  KernelSync implements both
   └── KernelSync ──┤                       │    Tty ────┘ │
          └── TaskLife ── TaskProofs        └─ DiskProofs  │
                                                 Disk ─────┘

 TaskList ── ListImpl ──┐
                │       ├── DataProofs     AddressSpace ── MemProofs
             RingFifo ──┤
 DevTable ── FileTable ─┘                  FatVolume ── FatFs

 Screens (abstract) <── Console ── Keyboard ──┐
                                     Shell ── UserProofs
 Klib, Paths, Bitmap, ListImpl, RingFifo ── Library
```

**TaskList** - the lists of `tools/list.c` as sequences, with
`list_insert_first`, `list_insert_last`, `list_remove_first` and `list_remove`
named as in the code.

**ListImpl** - the same lists with their pointers: `first`, `last`, `count` of a
list and `pre`, `next` of a node. `contents` is a history variable, the sequence
a list should be; that a caller removes a node only from the list it is on is the
guard of `Unlink`, and the invariants `OnePlace` and `EveryTaskHasItsPlace` of
the modules above show that the kernel's callers do.

**RingFifo** - `tty_fifo_put`, `tty_fifo_get` and `tty_fifo_init` with buffer,
indices and count; `held` is the sequence Tty takes the fifo for.

**Sched** - the scheduler. `ready`, `sleeping` and `curr` are the lists and
the pointer of `task_manager`; `slice`, `sleepTicks` and `state` are fields of
`task_t`. Each action is a composition of the functions of the code
(`task_set_ready`, `task_set_block`, `task_set_sleep`, `task_next_run`), which
are operators on lists. `owing` and `cursor` describe the one interrupted
function: `task_time_tick` calls `task_dispatch` at line 317 before it has
walked the sleep list. A task preempted there is in `owing`, and when it has the
CPU again nothing but its walk (`walk_pass`, `walk_wake`, `walk_end`) can
happen, with interrupts off. `block_current` and `unblock` are what a semaphore
or a mutex does to the scheduler; here they happen at any time.

**SleepClock** - Sched with history variables that count timer interrupts, to
say how long a sleep or a wait in the ready list really takes. They constrain
nothing, and are capped (`MaxHeard`, `MaxWaited`) above every value the code can
let them reach.

**KernelSync** - `sem_wait`, `sem_notify`, `mutex_lock`, `mutex_unlock` on top
of Sched, by any task in any order, `sem_notify` also by interrupt handlers.
A blocked caller needs no program counter: both kinds of object hand over
directly, so the call is over when the task runs again.

**Semaphores**, **FairLocks** - what these objects promise, without a
scheduler: a token goes to the task that has waited longest or is kept; the
users of a lock stand in line. KernelSync is shown to implement both, by TLC
(`SemaphoresAreQueues`, `MutexesAreFairLocks`) and by proof.

**TaskLife** - `sys_fork`, `sys_exit`, `sys_wait` with `task_table`, its mutex
(a mutex of KernelSync) and the scheduler. A slot is identified with its task.
`pc` cuts the calls between the mutex, the search for a slot, `task_init`,
`task_start`, the scan of the children and the block. TSS descriptors, which
nothing gives back, are not counted: `MaxForks` bounds the calls of fork.
`SlotsClash` (a fork may choose a slot that another fork has chosen and not named
yet) and `LeavesOrphans` (a task may exit before its children) name the two cases
in which the code goes wrong: see the findings. Everything else interleaves, the
steps of several forks too.

**DevTable**, **FileTable** - `dev_open`, `dev_close`; `sys_open`, `sys_dup`,
`sys_close` and what fork and exit do to descriptors. `sys_open` can fail at
each of its points. `file_alloc` and `file_free` hold `file_alloc_mutex` and are
one action; increments and decrements of `ref` are a load and a store.
`ClosesOverlap` says whether a `sys_close` may overlap with the calls of others.

**AddressSpace** - physical frames, page directories and page tables, and what
`sys_fork`, `sys_execve`, `sys_sbrk`, `sys_exit` and `sys_wait` do with them.
`used` is the bitmap, `content` the entries of the frames that serve as
directories or tables, `dir`, `kstack`, `heapEnd` are `cr3`, `esp0` and
`heap_end` of a task. A call is cut at each page it allocates (the allocator has
a mutex of its own); `new`, `todo`, `segs` are the directory being built, the
pages still to be mapped there and the segments still to be loaded. The entries
of the kernel, shared by all directories, are one entry. `lost` holds the
directories of `tss_init` that `sys_fork` overwrites. `HeapAfterFork` and
`LateExecFails` name two assumptions, see the findings; memory is assumed
to last.

**Tty** - `tty_write`, `tty_read`, `tty_control`, `tty_in` of one terminal
and the loop of `console_write`, over two semaphores of Semaphores. `pc` is the
point inside the call, `ofifo` and `ififo` are the fifos as sequences, `written`
and `screen` record what went in and what was shown. An echo is a `tty_write`
inside `tty_read`, told apart by `len >= 0`. How a character is drawn belongs to
Console, which terminal the keys reach to Keyboard.

**Disk** - `disk_read`, `disk_write` under the mutex of the channel, the IRQ14
handler, and the device. `pc` cuts a call where it waits: for the mutex, for
`op_sem`, and while it polls the status. `pending` is the interrupt the PIC has
not delivered, `kbdInService` an IRQ1 whose end of interrupt is still to come
(`kbd.c:215` sends it after `tty_in`, which may dispatch), so that the disk's
interrupt is held back. `task_on_op` is set by a call and tested by the handler.
`Drives` gives what `identify_disk` and `detect_part_info` find. Contents are
left out: `moved` is the list of the sectors that went through the data port.

**FatVolume**, **FatFs** - the file system. Every call of `fs.c` runs under the
file system's mutex, so each is one action, and the functions below it are operators
on a record `v`: the disk by sectors, `cur` and `buf` (`curr_sector`,
`fat_buffer`), and the results. A byte of a file is named after the file and the
position it was written at; data that goes through `fat_buffer` overwrites what
is there, as in the code. `Faults` are the transfers that may fail in a call. A
name is a value; what becomes of its characters is in Paths. `ChainOf`,
`OwnerStart` read the tables on the disk for the properties.

**Screens**, **Console**, **Keyboard** - Screens is what terminals promise: a
window and a cursor for each, and nothing done to one changes the others.
Console is `console.c`: one display memory `disp`, and per console its base,
cursor, saved cursor and escape machine. `write_char` and what it calls are
operators on a state of console and memory. Keyboard adds `kbd.c`: `wire` holds
the bytes the keyboard has sent, with the prefixes E0 and E1 and the shifts a
keyboard adds by itself, `do_handler_kbd` takes one at a time, in the middle of
any text a program writes, and `tty_select` changes the console. `held` and
`wanted` belong to the user: what is down, and what was meant.

**Shell** - the processes of a running system: `first_task`, a shell per
terminal (`shell/main.c`), the programs it starts. A process is its place in its
program and its image (descriptors, blocks of `malloc`, `optind`). The system
calls do what the modules above promise, and may fail where the code tests for
it. `wait` is cut as in TaskLife: the scan (`wait`, `wait_release`) and the block
(`wait_block`) are two steps, and a child that exits in between wakes nobody. The
place `forgotten` tells a process that has blocked beside such a child from one
that is `blocked` and will be woken; the code does not know the difference.

**Klib**, **Paths**, **Bitmap**, **Library** - pure functions of the kernel:
`kernel_itoa` on ints of `WIDTH` bits and `kernel_vsprintf`; the path functions,
`to_sfn`, the matching of directory entries, mount points and the minor number
of a path; the bitmap of pages. Library calls them on all their small inputs, and
runs ListImpl and RingFifo. `readdir` writes the names of one entry after the other
into the same block of `malloc`, of which `diritem_get_name` clears twelve bytes.

## Runs

| Run | Instance | What it shows |
|---|---|---|
| `sched` (MCSched) | 3 tasks and idle, slice 2 ticks, sleeps of 1 to 3 ms with a tick of 2 ms | lists and current task agree in every state (`QueuesAgree`: the current task is the head, nobody is in two places, no sleeper counts to zero unseen, a preempted walker is ready); no tick is lost or counted twice (`TicksConserved`), waits are bounded (`WaitIsBounded`), nobody is overtaken (`NoOvertaking`), nobody starves (`ReadyRuns`, `SleepersWake`) |
| `sync` (MCSync) | 3 tasks, a semaphore and a mutex, count up to 1, nesting up to 2 | no task lost (`EveryTaskHasItsPlace`); semaphores and mutexes implement their abstractions (`SemaphoresAreQueues`, `MutexesAreFairLocks`); a waiter is served (`LockServed`) |
| `task_life` (MCTaskLife) | `first_task` and a table of 3 slots, 4 forks, slots symmetric | a live task is in exactly one place (`LiveTasksHaveAPlace`), only the exited are zombies and parents are alive (`FamilyIsSound`), the exited are reaped by their parent (`ReapedByParent`) |
| `lost_wakeup` (MCTaskLife) | the same with 2 slots | the finding below |
| `file_table` (MCFileTable) | 3 tasks, 2 descriptors each, 3 files, 2 device entries, 3 minors of which one fails | reference counts equal descriptors (`RefIsNumberOfDescriptors`) and device counts equal open files, one entry per device (`OpenCountIsNumberOfFiles`), in every intermediate state |
| `tty` (MCTty) | 2 tasks, fifos of 2, reads of 2, one write, 3 keys | places and tokens match the fifos (`TokensMatch`), the screen shows what was put, in order (`ScreenInOrder`); a writer is stuck only when all are (`StuckOnlyTogether`) |
| `memory` (MCMemory) | `first_task` and 2 slots, 44 frames, pages of 2 bytes, 3 entries per table (6 user pages), 3 forks, 2 programs, any number of `execve` and `sbrk` | a frame has one owner and is allocated exactly as long as it has (`FramesExact`); nothing is mapped twice, heaps are mapped to their end and no further (`MappedExactly`), nobody's pages change by what others do (`OthersUntouched`) |
| `fatfs` (MCFatFs) | clusters 2 to 5 of two bytes, 4 bad, two table sectors, 3 directory items, 2 files, 2 handles, 3 opens, files up to 3 bytes | no two files share a cluster, no file has a free one, chains end and are long enough (`ChainsDisjoint`); both tables and the buffer agree (`TablesAndBufferAgree`); what is read was written there (`ReadsWhatWasWritten`); `readdir` and the search agree (`ListingAgrees`) |
| `disk` (MCDisk) | 3 tasks, a drive with one partition and an absent one, calls of 1 or 2 sectors | at most one token is left over (`DiskTypeOK`); a call moves its sectors and leaves the device idle (`MovesItsSectors`), and returns (`CallReturns`) |
| `terminal` (MCTerminal) | 2 consoles of 2 rows and 3 columns, 3 glyphs, 14 texts, keys and texts at a cost of 3 and 4 out of 12 | flags, terminal and characters are those the user meant (`KeyboardAgrees`); the display memory implements the screens (`ScreensSpec`) |
| `shell` (MCShell) | 2 shells, 3 slots, 2 files of which one is a program, files of up to 1 line | a shell at its prompt is as it was at first (`AtRest`), one process reads from a terminal (`OneReader`), every command ends, unless its shell has lost the wakeup (`CommandsEnd`) |
| `library` (MCLibrary) | ints of 6 bits, formats of up to 3 pieces, names at the limits of 8 and 3 characters, 8 pages, 2 lists and 4 nodes, a ring of 3 | numerals can be read back (`NumeralsAgree`), names lead back to what they name, also those read from a directory into a used block (`NamesAgree`), a free page is found and nothing else changes (`PagesFound`), pointers and indices agree with the sequences (`ListsLinked`, `FifoHoldsItsChars`) |

The modules with a state have a type invariant; in some it is the first conjunct of
another invariant, for ListImpl and RingFifo it is part of the proof. `QueuesAgree`, `FamilyIsSound`, `TokensMatch`, `FramesExact` and
`MappedExactly` are conjunctions of named parts.

### Why these bounds are enough

- *sched*: with three tasks one can run, one wait and one sleep or be blocked,
  and two can owe walks at once. A slice of two ticks distinguishes the tick
  that ends a slice from the one that does not. The sleeps are one tick and two
  ticks, one of them rounded up, so that sleepers with different counts meet.
- *sync*: three tasks give an owner and a queue of two. Nesting 2 tells the inner
  unlock from the last. A count above 1 adds no case: the code tests for zero.
  `TIME_SLICE` 1 makes every tick a preemption.
- *task_life*: three slots allow a parent with two children or a chain of three
  generations, a full table, and a slot used again. Four calls of fork fill the
  table and let one more fail, or use a slot again; the code is bound to about
  250, the descriptors of the GDT.
- *file_table*: two descriptors and three files: full descriptor tables before
  the file table is full, and the other way round when tasks share no file. Two
  device entries for three minors: a full device table.
- *tty*: a new line needs two places, so a fifo of two is full after it; three
  keys fill the input fifo of two while a token is on its way to a reader. With
  a single `tty_write` the echoes of the readers are the other writers.

- *memory*: six user pages in two tables: a program ends in the first table and
  its heap and stack lie in the second. Heaps of 10 to 15 bytes end inside a
  page, with it, and in the next table. Three forks with two slots: a slot used
  again, and a grandchild. Never more than 41 of the 44 frames are in use. `MemView` counts
  states that differ in the numbers of frames as one: each frame has one owner,
  so numbers only name them (whether that holds is part of the view).

- *fatfs*: three usable clusters: a file of two and one of one, and a full
  volume. The clusters lie in both sectors of the table, so a chain crosses from
  one to the other and the buffer changes between them. Three items are an
  entry, a free one before it and the end mark. Two handles are two readers, or
  a writer and the handle of the other file. One call in a behaviour meets a
  fault; after it, everything else must still hold. `MCView` leaves out buffer
  contents that nothing reads: those that `curr_sector` does not name.
- *disk*: two callers that compete for the channel, and a third that gets the
  keyboard's attention while they wait. Two sectors are the least with a token
  that is waited for in the middle of a call. Partition and bounds are numbers
  the code computes with, the sizes do not matter.
- *terminal*: two rows and three columns keep the code's fewer rows than
  columns. The key set has a member of every kind of scan code; three
  keys or texts interleaved byte by byte are a modifier, a key and its release
  around another. `ESC_PARAM_MAX` of 2 tells a full array from one with room.
- *shell*: three slots for two shells: one program at a time, and the other
  shell's fork fails. One line tells a key read inside `less` from the end of the file.
- *library*: six bits have a smallest int without a positive counterpart, and
  three digits in base 2, 8, 10 and 16 that carry. Eight pages are one byte of the
  bitmap: the code's shifts go no further than that. Four nodes on two lists: a
  first, a middle, a last and an only node. A ring of three wraps at every place.

### Deadlock

Checked everywhere except in four runs. `memory` stops at the bound on forks,
when all children have been reaped; the calls of AddressSpace wait for nothing.
In `tty`, when the bounded keys and writes have been used up, readers wait for a
key for ever, as they should, and a stuck writer is what `StuckOnlyTogether` is
about. In `shell` a system whose shells have all quit is finished: `first_task`
waits for ever, no shell is started again. `library` ends with its calls.

### Fairness

- `WF(task_time_tick)`, `WF(walk)`: the timer is programmed to fire for ever,
  and a CPU in an interrupt handler executes it. No fairness is given to any
  task: that a ready task runs must follow from the timer alone.
- `LockServed`: in addition, a task that gets the CPU again and again leaves its
  critical sections (`SF` on its unlocks). All critical sections of the kernel
  are loops over a table or a transfer. `LockServed` is modest: the waiter becomes the
  owner, or the owner itself waits on something else.
- *Tty*: `WF` for the next step of a task inside a call, `SF` for taking the
  console's mutex. Both follow from `ReadyRuns` and `LockServed` of the modules
  below. Nothing is assumed about keys or about a task calling anything.
- *Disk*: `WF` for a task inside a call and for the idle loop (the scheduler), and
  for the device. `SF` for the handler: the interrupt is held back only between a
  key and the end of interrupt for it, and keys are not pressed so fast that
  another is pending each time. `CallReturns` excepts the case the code does not
  exclude, that the task the key has woken never lets the idle loop run.
- *Shell*: `WF` for every process that can go on by itself; who is asked for a
  line or a key inside a command gives one. Nobody need type a command. The
  fairness does not make `wait` return: a process in `forgotten` can do nothing.
  So `CommandsEnd` has an exception, and it is the only one: a command ends, or its
  shell stays blocked for ever beside the child that exited between the scan and
  the block, and that child stays a zombie.

## Findings

`lost_wakeup` is a run in which TLC finds what the code says of itself violated
(`core/task.c:707`): the mutex is released before the parent blocks; a child
that exits in between wakes nobody. In the shell (`shell/main.c:323`) this means
that the command has ended and no prompt comes back: the exception in
`CommandsEnd`. The other models name in their constants
what programs must not do for the properties to hold. With the constant changed
in the `.cfg`, TLC shows each of these:

| Change | Property that fails | Where | What happens |
|---|---|---|---|
| `SlotsClash = TRUE` (task_life) | `SlotTakenOnce` | `core/task.c:88` | `alloc_task` marks nothing; a second fork before `task_init` gets the same slot |
| `LeavesOrphans = TRUE` (task_life) | `FamilyIsSound` | `core/task.c:660` | `=` for `==` makes living children of an exiting task zombies |
| `ClosesOverlap = TRUE` (file_table) | `CloseAssertion` | `fs/fs.c:361` | `ref--` outside the mutex; the entry is free while the last close is under way |
| `HeapAfterFork = TRUE` (memory) | `MappedExactly` | `core/task.c:162` | `heap_end` of a forked child is 0, its first `sbrk` maps over the kernel's pages |
| `LateExecFails = TRUE` (memory) | `MappedExactly` | `core/task.c:525` | a failed `execve` leaves the `heap_end` of the program that was not loaded |
| `Users <- OneUser`, `Lines <- LongLine` (tty) | `WriteReturns` | `dev/tty.c:139` | a text longer than the output fifo blocks its writer for ever |
| `Habits = {"overwrite"}` (fatfs) | `ChainsDisjoint` | `fs/fatfs/fatfs.c:572` | an overwriting write adds to the size all the same |
| `Habits = {"inside"}` (fatfs) | `ListingAgrees` | `fs/fatfs/fatfs.c:714` | `unlink` writes the end mark where the free mark belongs, later entries vanish |
| `Habits = {"share"}` (fatfs) | `ChainsDisjoint` | `fs/fatfs/fatfs.c:583` | a close writes a stale size and first cluster back |
| none (fatfs) | `ExpandsAtTheLastCluster` | `fs/fatfs/fatfs.c:214` | the write expands at the current cluster, though line 180 speaks of the end of the chain: clusters behind it are lost |
| `Habits = {"wrap"}` (terminal) | `CursorInWindow` | `dev/console.c:110` | the row is compared with the number of columns: text in the last place goes on in the next terminal's window |
| `Habits = {"outside"}`, `ESC [ 2 H` among `MCMessages` (terminal) | `CursorInWindow` | `dev/console.c` | `ESC [ r ; c H` is not compared with the window |
| `Habits = {"release"}` (terminal) | `KeyboardAgrees` | `dev/kbd.c:99` | the release of a function key selects a terminal as its press does |

Seen while translating, and not checked by a run because the lines say it all:

- A task that goes to sleep while a preempted task still owes its walk is
  counted down for a tick before its sleep began: a sleep may be one tick short
  per owed walk. `TicksConserved` and `SleepLasts` (TaskProofs)
  say what does hold.
- `fatfs.c`: `fatfs_readdir` hides read-only entries (the precedence in line
  262); `cluster_is_valid` takes the bad mark 0xFFF7 for a cluster; `disk_read`
  is not checked against the end of the partition; a write command is not
  preceded by a wait for the data port; `sys_unlink` passes the whole path on.
- `fatfs.c:302` clears twelve bytes, and a name of eight and three characters
  fills them with its dot: nothing ends it in `dirent.name`, which lies in a block
  that `malloc` does not clear. `NamesAgree` says that the text begins with the
  name, and that it is the name for every other entry.
- `fs.c`: `O_RDONLY | O_CREAT` passes the tests of the mode; `sys_open` of a bare
  mount point (`/home`) passes a null path; `path_begin_with` takes `/device`
  for `/dev`; in `devfs.c` the minor number of a name without digits is not
  initialised, `devfs_mount` returns nothing.
- A path that ends in a slash gives `sys_execve` an empty task name, and a slot
  with an empty name is free (`task.c:572`, `:87`).
- `klib.c`: `kernel_strncpy` drops the last character of a text of `size - 1`
  and writes one byte behind the buffer for longer ones; `kernel_strncmp` looks
  at the character behind `size`; `kernel_vsprintf` writes no terminator and
  drops `%%`. `bitmap.c`: for a count above one the search tests its first bit twice.
- `list.c`: `list_init` has `list->count - 0` and leaves the count; harmless,
  because the lists are static and nobody is on one that is initialised again.
- `tty.c`: `tty_open` accepts the minor number `TTY_NR`, one behind the last terminal.
- `kbd.c`: `map_table[0x1F]` has no capital S but a B; Pause also inputs a NUL.
- `syscall.c:46`: the handler for a number beyond the table is not initialised.
- The shell's `argv` has no bound in the loop that fills it; `console.c` accepts
  digits for a parameter number equal to `ESC_PARAM_MAX`.

## Proofs

TLAPS checks them for all values of the constants. They concern safety.

### What is assumed

The assumptions on the constants are stated where the constants are declared:

| Assumption | What it says |
|---|---|
| `SchedAssumption`, `ClockAssumption` | idle is no task, slice and tick are positive; for the clock there are finitely many tasks |
| `SyncAssumption`, `SemAssumption` | semaphores are not mutexes, initial counts are numbers within their bounds |
| `LifeAssumption` | the mutex of the table is a mutex, forks are bounded by a number |
| `FileAssumption`, `DevAssumption` | tasks, files, descriptors and device entries are finite sets, the last three numbered; the mark for an empty place is none of them |
| `MemAssumption` | there are at least the four frames the first task takes, a page has a positive size, a table at least two entries |
| `ProgramAssumption` | what `link.lds` makes of a program: a segment lies in the pages mapped for it, segments follow one another, in user pages below the stack |
| `TtyAssumption`, `DiskAssumption`, `ListAssumption`, `RingAssumption` | fifos, reads and calls have a positive size, the null pointer is no node |
| `ShellAssumption` | the first task is none of the numbered slots, the terminals of the shells are distinct, a program has more descriptors than the three it starts with need (`TASK_OFILE_NR` is 128) |
| `ConsoleAssumption` | there is a console, a window has fewer rows than columns (25 and 80), there are at least two parameters (`ESC_PARAM_MAX` is 10), the memory is as long as all windows, its cursor is in the first window at boot; a control character is no glyph, a blank is one |
| `KeyboardAssumption` | the scan codes of `kbd.h` and `map_table` are distinct; behind an E0 only the right control and alt keys have the codes of control and alt; a function key selects a console that exists |

The second line of `Fits` in `ProgramAssumption` is needed because
`memory_alloc_for_page_dir` rounds the size up but not the place: a segment
that begins in the middle of a page and reaches into one page more than
its size needs would end in a page that is not mapped. `link.lds` places the
sections one behind the other from 0x81000000: the first segment begins on a
page, and the linker begins another one only for a section that begins on a new
page (otherwise the section joins the segment before it).

Besides, some theorems name in `ASSUME ... PROVE` what programs do not do:
`~ClosesOverlap`, `~SlotsClash`, `~LeavesOrphans`, `~HeapAfterFork`,
`~LateExecFails`, and for the consoles and the keyboard that "wrap", "outside",
"params" and "release" are none of the `Habits`. Each is a constant of a model, and
with its opposite TLC shows a violation for all but "params" (see the findings):
those cannot be dropped. With "params" the code writes behind the end of an array.
`~LeavesOrphans` is what the programs of the repository do: `AtRest`, proved as
`ShellAtRest`, includes that no shell and no program has children where it may
exit (`NoOrphans`). Nothing in the code guarantees `~SlotsClash` and
`~ClosesOverlap`.

### The arguments

- **ListTheorems** - what the list operations return: nodes, length, order, no
  double nodes. All else cites them.
- **TaskProofs**, Sched - the inductive invariant `SchedInv` is the conjunction of
  `SchedTypeOK`, `CurrIsHead`, `OnePlace`, `SleepersCount` and `OwingIsReady`.
  None is inductive alone: `list_remove` is right only for a node that is on the
  list, `CurrIsHead` says that of the current task, and its exception (the idle
  task inside the handler) is harmless only because of `OwingIsReady`. One lemma
  per action; then the invariants and `NoOvertaking` as theorems of `SchedSpec`.
  `unblock` is only allowed for a task that is on no list.
- **TaskProofs**, SleepClock - `ClockInv` adds to it `TicksConserved`,
  `CursorHome` (a walk begins at the head of the sleep list) and
  `WaitersBounded`: a task at place p of the ready list has let pass only
  those that are now behind it or on no list, one slice each, and part of the
  slice of the first. The number of those shrinks exactly when the task
  moves forward. It gives `WaitIsBounded`, and `SleepLasts`: the ticks heard and
  the walks owed when it began are together the ticks asked for, or at most
  one more per other task.
- **TaskProofs**, KernelSync - that a waiter is on no scheduler list is just
  `EveryTaskHasItsPlace`, so `SchedInv /\ SyncInv` is proved inductive as one
  (`SyncSafe`). From it: the invariants of KernelSync, that it
  implements Sched (`SyncSchedules`), Semaphores
  (`SemaphoresImplementQueues`) and FairLocks (`MutexesImplementFairLocks`).
  The refinement mapping of the last puts the owner at the head of the line.
- **TaskProofs**, TaskLife - `LifeInv` says where a task is for each `pc`
  (`Settled`: ready, asleep, queueing for the table's mutex, waiting for a child,
  or nowhere), what each `sys_fork` under way knows of the child it is building
  and that two of them build two children (`Forks`, `Apart`), that the children of
  a task past its scan have moved on (`Exits`) and that parents are alive
  (`ParentIsLive`). From it `LiveTasksHaveAPlace` and `ParentIsLive`. The lost
  wakeup contradicts none of these: the parent that sleeps on is in its place.
  That zombies have exited and are reaped by their parent (the rest of
  `FamilyIsSound`, `ReapedByParent`) is left to the run: where nobody leaves
  orphans it follows from who writes the state.
- **DataProofs**, ListImpl and RingFifo - `ListsLinked` for any number of lists
  and nodes, inductive with the types of the pointers and `Apart`: no node is on
  two lists or twice on one, so the neighbours an operation writes to belong to
  its own list. `FifoHoldsItsChars` for a ring of any size.
- **DataProofs**, FileTable - `FileInv`. `Balanced` is the exact account in
  the middle of a call: `ref` of a file is the number of descriptors that name
  it, plus one for a file that `sys_open` gives back because no descriptor was
  free, minus one for each descriptor that `sys_dup` has written and not yet counted
  or `sys_close` no longer counts and has not cleared. It needs `OneAtATime` and
  `CallsKnow` (what the registers of a call hold between load and store) and
  `FreshIsPrivate` (what `file_alloc` gave is named by nobody). `DevicesBalanced`
  does the same for the device entries. Hypothesis: no `sys_close` overlaps
  with another call, because its `ref--` is outside the mutex.
- **MemProofs** - `MemInv`. `Owns(k, x, i, f)` says that `f` is claimed as the
  stack, directory, new directory, table, page or lost directory of some place;
  `Once` that no frame is claimed twice and `Accounted` that the bitmap holds exactly
  the claimed ones. To show them inductive the proof needs that
  directories hold tables and tables hold pages (`Tables`), what each call holds at
  each point (`Calls`), and what is still to be mapped (`Space`): `Todo` is
  disjoint from what is mapped; `Ends`, `Grows` and `Loads` relate the pages of a
  task that is at rest, in `sys_sbrk` or in `sys_execve` to its heap's end.
  From it `FramesExact`, `MappedExactly` and `OthersUntouched`, for
  any number of frames and processes and every program that `ProgramAssumption` admits.
- **SemTheorems** - who is suspended after each operation of a semaphore. The
  two drivers need it to say which task a token goes to.
- **TtyProofs** - `TtyInv` is `TokensMatch` and `ScreenInOrder` with what makes
  them inductive: the owner of the console's mutex is the one in
  `console_write` and holds at most one character (`ConsoleOwned`), and whoever is
  suspended stands between a semaphore and its fifo (`WaitersPlaced`). The
  tokens are counted against the sets of tasks at a point of the code; each
  step moves one task, or wakes one, so each set changes by at most one. Holds for
  fifos, texts and reads of any size.
- **DiskProofs** - `DiskInv` says that only the head of the mutex's line is on the
  device (`LineOK`), and that what the device has left is what its call has not
  moved (`DeviceOK`). Late and spurious interrupts do not disturb it because
  `ata_wait_data` polls. The bound on tokens needs the number of those
  who still expect an interrupt (`TokensOK`): a command adds one to both sides.
  From it, `DiskTypeOK` and `MovesItsSectors` for any number of tasks and sectors.

- **UserProofs**, Shell - `ShellInv` says what the image of a process holds at each
  place of its program (`Holds`: the descriptors a command has opened so far are
  those above 2, its blocks, `optind`), that a shell has a terminal to
  itself (`ShellOwns`), and what a waiting shell and its child know of each
  other (`ShellKids`): at most one child, on the same terminal, and none outside
  of `run_exec_file`. It gives `AtRest`, which is about the next command,
  `OneReader`, which is about two processes, and `ExitsWake`: a process that has
  blocked in `wait` has no zombie among its children, as long as it is blocked.
  That is the part of `CommandsEnd` that can be proved: a wakeup is lost
  between the scan and the block and nowhere else.
- **UserProofs**, Console - `TerminalsAreScreens`. The windows are ranges of one
  display memory, so the first half is arithmetic of places: distinct consoles have
  disjoint ranges, and what a function writes it writes at places of its own
  (`View` and `Result` say what a window shows before and behind each function).
  `ConsoleInv` keeps the cursor and the saved one in the window and the number of
  parameters in the array between two bytes. Then each byte is a step of Screens on
  its own window or does not show, whatever the escape machine was in the middle of.
- **UserProofs**, Keyboard - `KeyboardIsRight`. What the handler knows and what the
  user means differ while bytes are on the way, in the middle of a prefix too,
  so the invariant cannot relate them directly. It says that the bytes on the wire
  lead the handler from where it is to where the user wants it (`Leads`):
  a key adds bytes that lead from what was meant to what is meant now, for each
  kind of key (`PressLeads`, `ReleaseLeads`), and the handler takes one step of the
  way. `OneFunctionKey` is needed because a released function key is obeyed again.

### Only model-checked

- Everything about liveness (`ReadyRuns`, `SleepersWake`, `LockServed`,
  `StuckOnlyTogether`, `CallReturns`, `CommandsEnd`): fairness and `ENABLED` are
  out of the prover's reach.
- FatFs, Klib, Bitmap and Library: chains, numerals and bitmaps are computed by
  recursion over data, for which the prover has no induction.

## Not modelled

- Boot, loader, protected-mode set-up: run once, with interrupts off, before
  anything is concurrent.
- Exceptions, which print and stop; the log; the system call gate, a constant
  table.
- The contents of data where nothing depends on it: colours, the hardware
  cursor, times in directory entries, the parameter block of the volume, the
  fields of IDENTIFY, ELF headers (a file is a program or not).
- Exhausted memory: the callers of `addr_alloc_page` test for 0, it returns -1,
  and there is nothing to check behind it.
- `sys_sleep` of less than a millisecond: the application library refuses it.
- The effect of reaping a living task on the lists, after an orphan's parent.

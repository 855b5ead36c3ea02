-------------------------------- MODULE Disk --------------------------------
(***************************************************************************)
(* The ATA driver, kernel/dev/disk.c: disk_read and disk_write under the   *)
(* mutex of the channel, one token of op_sem per sector, posted by the     *)
(* interrupt of the disk, then the status polled and the data moved.       *)
(*                                                                         *)
(* The device is idle, busy, or holds the data port ready ("ready"); it    *)
(* asks for an interrupt whenever a sector has come or gone, or failed.    *)
(*                                                                         *)
(* The interrupt may come early, late or never:                            *)
(*   - the sectors read at boot, with interrupts off, leave one pending;   *)
(*   - the keyboard's handler sends its EOI after tty_in (kbd.c:215).      *)
(*     When it has interrupted the idle loop, tty_in dispatches to the     *)
(*     reader, and until nothing else is ready and the idle loop goes on,  *)
(*     the PIC holds back the disk's interrupt;                            *)
(*   - polling the status takes the device's request back, which the PIC   *)
(*     may or may not have kept.                                           *)
(***************************************************************************)
EXTENDS Semaphores, Integers, FiniteSets

CONSTANTS Drives,      \* the drives of the channel, 0 master and 1 slave: [sectors, mbr], sectors = 0 if absent
          Minors,      \* the minor device numbers somebody opens
          MaxCount,    \* bound on the sectors of one call
          NoOp

ASSUME DiskAssumption ==
    /\ Sems = {"op"} /\ Start = [s \in Sems |-> 0]
    /\ MaxCount \in Nat \ {0}
    /\ DOMAIN Drives = 0 .. 1 /\ Minors \subseteq 160 .. 255
    /\ \A d \in 0 .. 1 : Drives[d].sectors \in Nat /\ DOMAIN Drives[d].mbr = 1 .. 4
    /\ \A d \in 0 .. 1 : \A i \in 1 .. 4 : Drives[d].mbr[i].relative_sectors \in Nat
    /\ IsFiniteSet(Users)

VARIABLES line,        \* mutex: the holder and those who wait for it
          task_on_op,
          pc,          \* where a task is; "key": it waits for the keyboard
          op,          \* its call: kind, part, start_sector, count
          moved,       \* the sectors moved so far, read_cnt or cnt of them
          device,      \* state, kind, at (sector), left (sectors), error
          pending,     \* IRQ14 requested
          kbdInService \* IRQ1 has had no EOI yet

diskVars == <<line, task_on_op, pc, op, moved, device, pending, kbdInService>>
vars == <<semVars, diskVars>>

At(t, p) == pc[t] = p /\ ~Suspended(t)
Goes(t, p) == pc' = [pc EXCEPT ![t] = p]
InCall(t) == pc[t] \notin {"user", "key"}
Holds(t) == line # <<>> /\ Head(line) = t

\* No task can run: the idle loop does.
Idle == \A t \in Users : Suspended(t) \/ pc[t] = "key" \/ (pc[t] = "lock" /\ ~Holds(t))

\* disk_init has read every drive by polling, with interrupts off.
DiskInit ==
    /\ SemsInit
    /\ line = <<>>
    /\ task_on_op = 1               \* fatfs_mount has called disk_read
    /\ pc = [t \in Users |-> "user"]
    /\ op = [t \in Users |-> NoOp]
    /\ moved = [t \in Users |-> <<>>]
    /\ device = [state |-> "idle", kind |-> "read", at |-> 0, left |-> 0, error |-> FALSE]
    /\ pending \in BOOLEAN
    /\ kbdInService = FALSE

(***************************************************************************)
(* The partitions of a drive, as identify_disk (0, the whole drive) and    *)
(* detect_part_info (1 to 4, from the boot record) have found them.  Minor *)
(* number 0xb1 is partition 1 of the second drive.                         *)
(***************************************************************************)
detect_part_info(item) ==
    IF item.system_id = 0 THEN [start |-> 0, total |-> 0]
    ELSE [start |-> item.relative_sectors, total |-> item.total_sectors]

partinfo(d, i) == IF i = 0 THEN [start |-> 0, total |-> Drives[d].sectors]
                  ELSE detect_part_info(Drives[d].mbr[i])

Drive(minor) == minor \div 16 - 10
Partition(minor) == partinfo(Drive(minor), minor % 16)

disk_open(minor) ==
    /\ Drive(minor) < 2 /\ minor % 16 < 5
    /\ Drives[Drive(minor)].sectors # 0
    /\ Partition(minor).total # 0

Calls == {[kind |-> k, part |-> m, start |-> s, count |-> n] :
            k \in {"read", "write"}, m \in {p \in Minors : disk_open(p)},
            s \in 0 .. MaxCount - 1, n \in 1 .. MaxCount}

\* disk_read, disk_write
Call(t, c) ==
    /\ At(t, "user")
    /\ c.start + c.count <= Partition(c.part).total
    /\ op' = [op EXCEPT ![t] = c]
    /\ moved' = [moved EXCEPT ![t] = <<>>]
    /\ line' = Append(line, t)                    \* mutex_lock
    /\ Goes(t, "lock")
    /\ UNCHANGED <<semVars, task_on_op, device, pending, kbdInService>>

\* ata_send_cmd.  A device told to write holds its data port ready at once.
ata_send_cmd(t) ==
    /\ At(t, "lock") /\ Holds(t)
    /\ task_on_op' = 1
    /\ device' = [state |-> IF op[t].kind = "write" THEN "ready" ELSE "busy",
                  kind |-> op[t].kind, left |-> op[t].count, error |-> FALSE,
                  at |-> Partition(op[t].part).start + op[t].start]
    /\ Goes(t, IF op[t].kind = "write" THEN "data" ELSE "wait")
    /\ UNCHANGED <<semVars, line, op, moved, pending, kbdInService>>

\* Mutant: no wait when the device is ready already.
op_wait_IfBusy(t) ==
    /\ At(t, "wait")
    /\ IF device.state = "busy" THEN Wait("op", t) ELSE UNCHANGED semVars
    /\ Goes(t, "poll")
    /\ UNCHANGED <<line, task_on_op, op, moved, device, pending, kbdInService>>

op_wait(t) ==
    /\ At(t, "wait")
    /\ Wait("op", t)
    /\ Goes(t, "poll")
    /\ UNCHANGED <<line, task_on_op, op, moved, device, pending, kbdInService>>

\* Mutant: off by one.
Done_OneEarly(t, n) == n + 1 >= op[t].count

\* The sectors of the call are done: a sector read counts when its data is taken,
\* a sector written when its status has been seen.
Done(t, n) == n = op[t].count
AfterSector(t, n) == IF Done(t, n) THEN "unlock" ELSE IF op[t].kind = "read" THEN "wait" ELSE "data"

\* ata_wait_data: the loop ends when the device is not busy.
ata_wait_data(t) ==
    /\ At(t, "poll")
    /\ device.state # "busy"
    /\ pending' \in {pending, FALSE}
    /\ Goes(t, IF device.error THEN "unlock"
               ELSE IF op[t].kind = "read" THEN "data" ELSE AfterSector(t, Len(moved[t])))
    /\ UNCHANGED <<semVars, line, task_on_op, op, moved, device, kbdInService>>

\* ata_read_data, ata_write_data: whatever the state of the device.
ata_data(t) ==
    /\ At(t, "data")
    /\ moved' = [moved EXCEPT ![t] = Append(@, IF device.state = "ready" THEN device.at ELSE -1)]
    /\ device' = IF device.state # "ready" THEN device
                 ELSE [device EXCEPT !.at = @ + 1, !.left = @ - 1,
                          !.state = IF device.kind = "read" /\ device.left = 1 THEN "idle" ELSE "busy"]
    /\ Goes(t, IF op[t].kind = "write" THEN "wait" ELSE AfterSector(t, Len(moved[t]) + 1))
    /\ UNCHANGED <<semVars, line, task_on_op, op, pending, kbdInService>>

Return(t) ==
    /\ At(t, "unlock")
    /\ line' = Tail(line)                         \* mutex_unlock
    /\ Goes(t, "user")
    /\ op' = [op EXCEPT ![t] = NoOp]
    /\ moved' = [moved EXCEPT ![t] = <<>>]
    /\ UNCHANGED <<semVars, task_on_op, device, pending, kbdInService>>

\* The device has the next sector, has taken the last one, or fails.
DeviceReady ==
    /\ device.state = "busy"
    /\ \E error \in BOOLEAN :
          device' = [device EXCEPT !.error = error,
                        !.state = IF error \/ (device.kind = "write" /\ device.left = 0)
                                  THEN "idle" ELSE "ready"]
    /\ pending' = TRUE
    /\ UNCHANGED <<semVars, line, task_on_op, pc, op, moved, kbdInService>>

\* Mutant: the interrupt is taken for a late one when nobody waits.
do_handler_ide_primary_OnlyWaiters ==
    /\ pending /\ ~kbdInService
    /\ pending' = FALSE
    /\ IF waiting["op"] # <<>> THEN Post("op") ELSE UNCHANGED semVars
    /\ UNCHANGED <<line, task_on_op, pc, op, moved, device, kbdInService>>

\* The PIC holds IRQ14 back while IRQ1 is in service.
do_handler_ide_primary ==
    /\ pending /\ ~kbdInService
    /\ pending' = FALSE
    /\ IF task_on_op = 1 THEN Post("op") ELSE UNCHANGED semVars
    /\ UNCHANGED <<line, task_on_op, pc, op, moved, device, kbdInService>>

\* A task reads the keyboard; a key wakes it.  From the idle loop the handler
\* switches to it before the EOI.
ReadKey(t) ==
    /\ At(t, "user")
    /\ Goes(t, "key")
    /\ UNCHANGED <<semVars, line, task_on_op, op, moved, device, pending, kbdInService>>

do_handler_kbd(t) ==
    /\ pc[t] = "key" /\ ~kbdInService
    /\ Goes(t, "user")
    /\ kbdInService' = Idle
    /\ UNCHANGED <<semVars, line, task_on_op, op, moved, device, pending>>

pic_send_eoi ==
    /\ kbdInService /\ Idle
    /\ kbdInService' = FALSE
    /\ UNCHANGED <<semVars, line, task_on_op, pc, op, moved, device, pending>>

Step(t) ==
    \/ ata_send_cmd(t) \/ op_wait(t) \/ ata_wait_data(t) \/ ata_data(t) \/ Return(t)

Next ==
    \/ \E t \in Users : Step(t) \/ ReadKey(t) \/ do_handler_kbd(t) \/ \E c \in Calls : Call(t, c)
    \/ DeviceReady \/ do_handler_ide_primary \/ pic_send_eoi

\* The scheduler runs a ready task, the device answers, the idle loop goes on.  The
\* disk's interrupt is held back again and again, and taken all the same: keys are
\* not pressed so fast that IRQ1 is pending at every EOI.
Fairness ==
    /\ \A t \in Users : WF_vars(Step(t))
    /\ WF_vars(DeviceReady) /\ SF_vars(do_handler_ide_primary) /\ WF_vars(pic_send_eoi)

DiskSpec == DiskInit /\ [][Next]_vars /\ Fairness

(***************************************************************************)
(* Properties.                                                             *)
(***************************************************************************)
\* The types, and the bound on the tokens: at most one is left over when no call
\* is under way, however many calls are made and however late the interrupts.
DiskTypeOK ==
    /\ tokens["op"] + (IF pending THEN 1 ELSE 0)
          <= 1 + Cardinality({t \in Users : pc[t] \in {"wait", "poll"}})
    /\ tokens["op"] \in Nat /\ task_on_op \in {0, 1}
    /\ pc \in [Users -> {"user", "key", "lock", "data", "wait", "poll", "unlock"}]
    /\ \A t \in Users : op[t] = NoOp \/ op[t] \in Calls
    /\ device.state \in {"idle", "busy", "ready"} /\ device.left \in 0 .. MaxCount

\* However early or late the interrupts come, the sectors a call has moved are
\* those it was asked for, in order, and at its end all of them unless the device
\* has reported an error: the data port is never used before it is ready.  It
\* returns when the device is through, so the next command finds it idle.
MovesItsSectors ==
    \A t \in Users : InCall(t) =>
        /\ moved[t] = [i \in 1 .. Len(moved[t]) |-> Partition(op[t].part).start + op[t].start + i - 1]
        /\ pc[t] = "unlock" => Done(t, Len(moved[t])) \/ device.error
        /\ pc[t] = "unlock" \/ (pc[t] = "lock" /\ Holds(t)) => device.state = "idle"

\* Every call returns, unless a task that the keyboard has woken keeps the CPU and
\* with it the disk's interrupt.
HeldBack == kbdInService /\ ~Idle
CallReturns == \A t \in Users : ([]<>~InCall(t)) \/ <>[]HeldBack
=============================================================================

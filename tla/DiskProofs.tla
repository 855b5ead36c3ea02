----------------------------- MODULE DiskProofs -----------------------------
(***************************************************************************)
(* The safety of the disk driver, for any number of tasks, any partitions  *)
(* and calls of any length: however early, late or spurious the interrupts *)
(* are, a call moves the sectors it was asked for.                         *)
(*                                                                         *)
(* Only the holder of the mutex is between the command and the end of its  *)
(* call, so the device works for it alone, and what the device has left is *)
(* what the call has not moved.  The tokens do not matter for that: a task *)
(* that an old token lets through polls until the device is not busy.      *)
(***************************************************************************)
EXTENDS Disk, SemTheorems, FiniteSetTheorems, SequenceTheorems

OnDevice == {"wait", "poll", "data"}
Active == OnDevice \cup {"unlock"}
Where == {"user", "key", "lock", "data", "wait", "poll", "unlock"}

First(t) == Partition(op[t].part).start + op[t].start

TypesOK ==
    /\ task_on_op = 1
    /\ pending \in BOOLEAN
    /\ line \in Seq(Users)
    /\ pc \in [Users -> Where]
    /\ op \in [Users -> Calls \cup {NoOp}]
    /\ moved \in [Users -> Seq(Int)]
    /\ device \in [state : {"idle", "busy", "ready"}, kind : {"read", "write"},
                   at : Int, left : 0 .. MaxCount, error : BOOLEAN]

\* Those in a call are in the mutex's line, and only its head is past mutex_lock.
LineOK ==
    /\ Distinct(line)
    /\ \A t \in Users : t \in Nodes(line) <=> pc[t] \in Active \cup {"lock"}
    /\ \A t \in Users : pc[t] \in Active => Holds(t)

CallsOK ==
    \A t \in Users : InCall(t) =>
        /\ op[t] \in Calls
        /\ pc[t] = "lock" => moved[t] = <<>>
        /\ \A i \in 1 .. Len(moved[t]) : moved[t][i] = First(t) + i - 1

\* The device is at the sector that comes next, and ready only for one to come.
AtWork(t) ==
    /\ device.kind = op[t].kind
    /\ device.at = First(t) + Len(moved[t])
    /\ device.left = op[t].count - Len(moved[t])
    /\ device.error => device.state = "idle"
    /\ device.state = "idle" /\ ~device.error => device.kind = "write" /\ device.left = 0
    /\ device.state = "ready" \/ device.kind = "read" => device.left > 0
    /\ pc[t] = "data" => device.state = "ready"

DeviceOK ==
    /\ (\A t \in Users : pc[t] \notin OnDevice) => device.state = "idle"
    /\ \A t \in Users : pc[t] \in OnDevice => AtWork(t)
    /\ \A t \in Users : pc[t] = "unlock" => Done(t, Len(moved[t])) \/ device.error

\* The tasks whose interrupt is still to come, as far as they know.
Expecting == {t \in Users : pc[t] = "wait" \/ (pc[t] = "poll" /\ Suspended(t))}

TokensOK ==
    /\ SemsOK
    /\ \A u \in Users : Suspended(u) => pc[u] = "poll"
    /\ tokens["op"] + (IF pending THEN 1 ELSE 0) + (IF device.state = "busy" THEN 1 ELSE 0)
           <= 1 + Cardinality(Expecting)

DiskInv == TypesOK /\ LineOK /\ CallsOK /\ DeviceOK /\ TokensOK

-----------------------------------------------------------------------------

(* The first sector of a partition somebody may open is a number. *)
LEMMA PartitionStart ==
    ASSUME NEW c \in Calls
    PROVE  /\ Partition(c.part).start + c.start \in Nat
           /\ c.count \in 1 .. MaxCount
           /\ c.kind \in {"read", "write"}
<1>1. PICK m \in Minors, s \in 0 .. MaxCount - 1, n \in 1 .. MaxCount, k \in {"read", "write"} :
          /\ disk_open(m)
          /\ c = [kind |-> k, part |-> m, start |-> s, count |-> n]
    BY DEF Calls
<1>2. MaxCount \in Nat \ {0} /\ m \in 160 .. 255
    BY DiskAssumption
<1>3. Drive(m) \in 0 .. 1 /\ m % 16 \in 0 .. 4
    BY <1>1, <1>2 DEF disk_open, Drive
<1>4. Partition(m).start \in Nat
    <2>1. CASE m % 16 = 0
        BY <2>1 DEF Partition, partinfo
    <2>2. CASE m % 16 # 0
        <3>1. m % 16 \in 1 .. 4
            BY <1>3, <2>2
        <3>2. Drives[Drive(m)].mbr[m % 16].relative_sectors \in Nat
            BY <1>3, <3>1, DiskAssumption
        <3>. QED
            BY <2>2, <3>2 DEF Partition, partinfo, detect_part_info
    <2>. QED
        BY <2>1, <2>2
<1>. QED
    BY <1>1, <1>2, <1>4

(* Two tasks are not past mutex_lock together. *)
LEMMA OneActive ==
    ASSUME LineOK, NEW t \in Users, NEW u \in Users, pc[t] \in Active, pc[u] \in Active
    PROVE  u = t
    BY DEF LineOK, Holds

LEMMA ExpectingFinite ==
    IsFiniteSet(Expecting) /\ Cardinality(Expecting) \in Nat
<1>1. Expecting \in SUBSET Users /\ IsFiniteSet(Users)
    BY DiskAssumption DEF Expecting
<1>. QED
    BY <1>1, FS_Subset, FS_CardinalityType

(* With the holder of the mutex before its command, nobody is on the device. *)
LEMMA HolderAlone ==
    ASSUME LineOK, NEW t \in Users, Holds(t), NEW u \in Users, u # t
    PROVE  pc[u] \notin Active
    BY DEF LineOK, Holds

LEMMA GoesMovesOne ==
    ASSUME TypesOK, NEW t \in Users, NEW q \in Where, Goes(t, q)
    PROVE  /\ pc' \in [Users -> Where]
           /\ pc'[t] = q
           /\ \A u \in Users : u # t => pc'[u] = pc[u]
    BY DEF Goes, TypesOK

(* The holder's steps leave the line alone. *)
LEMMA LineKept ==
    ASSUME LineOK, NEW t \in Users, Holds(t), line' = line,
           pc[t] \in Active \cup {"lock"}, pc'[t] \in Active,
           \A u \in Users : u # t => pc'[u] = pc[u]
    PROVE  LineOK'
    BY DEF LineOK, Holds

(* The tokens are a matter of the semaphore, the device and the interrupt. *)
LEMMA TokensKept ==
    ASSUME TokensOK, UNCHANGED semVars, NEW t \in Users,
           \A u \in Users : u # t => pc'[u] = pc[u],
           pc[t] \notin {"wait"}, ~Suspended(t), pc'[t] \notin {"wait"},
           pending' => pending, device'.state = "busy" => device.state = "busy"
    PROVE  TokensOK'
<1>1. SemsOK' /\ \A u : Suspended(u)' <=> Suspended(u)
    BY SameSems DEF TokensOK
<1>2. \A u \in Users : Suspended(u)' => pc'[u] = "poll"
    BY <1>1 DEF TokensOK
<1>3. Expecting' = Expecting
    BY <1>1 DEF Expecting
<1>4. tokens' = tokens /\ tokens["op"] \in Nat
    BY DiskAssumption DEF semVars, TokensOK, SemsOK
<1>5. tokens'["op"] + (IF pending' THEN 1 ELSE 0) + (IF device'.state = "busy" THEN 1 ELSE 0)
          <= 1 + Cardinality(Expecting')
    <2>1. tokens["op"] + (IF pending THEN 1 ELSE 0) + (IF device.state = "busy" THEN 1 ELSE 0)
              <= 1 + Cardinality(Expecting)
        BY DEF TokensOK
    <2>2. Cardinality(Expecting') = Cardinality(Expecting) /\ Cardinality(Expecting) \in Nat
        BY <1>3, ExpectingFinite
    <2>. QED
        BY <1>4, <2>1, <2>2
<1>. QED
    BY <1>1, <1>2, <1>5 DEF TokensOK

(* What a task has on the device is a matter of the device and its call. *)
LEMMA AtWorkKept ==
    ASSUME NEW u, AtWork(u), device' = device,
           op'[u] = op[u], moved'[u] = moved[u], pc'[u] = pc[u]
    PROVE  AtWork(u)'
<1>1. First(u)' = First(u)
    BY DEF First
<1>. QED
    BY <1>1 DEF AtWork

(* A call waits in the mutex's line. *)
LEMMA CallInv ==
    ASSUME DiskInv, NEW t \in Users, NEW c \in Calls, Call(t, c)
    PROVE  DiskInv'
<1>1. /\ At(t, "user") /\ Goes(t, "lock") /\ "lock" \in Where
      /\ op' = [op EXCEPT ![t] = c]
      /\ moved' = [moved EXCEPT ![t] = <<>>]
      /\ line' = Append(line, t)
      /\ UNCHANGED <<semVars, task_on_op, device, pending>>
    BY DEF Call, Where
<1>2. TypesOK /\ LineOK /\ CallsOK /\ DeviceOK /\ TokensOK
    BY DEF DiskInv
<1>3. /\ pc' \in [Users -> Where]
      /\ pc[t] = "user" /\ pc'[t] = "lock" /\ ~Suspended(t)
      /\ \A u \in Users : u # t => pc'[u] = pc[u]
    BY <1>1, <1>2, GoesMovesOne DEF At
<1>4. /\ op' \in [Users -> Calls \cup {NoOp}] /\ op'[t] = c
      /\ moved' \in [Users -> Seq(Int)] /\ moved'[t] = <<>>
      /\ \A u \in Users : u # t => op'[u] = op[u] /\ moved'[u] = moved[u]
    BY <1>1, <1>2 DEF TypesOK
<1>5. line \in Seq(Users) /\ Distinct(line) /\ t \notin Nodes(line)
    BY <1>2, <1>3 DEF TypesOK, LineOK, Active, OnDevice
<1>6. /\ line' \in Seq(Users)
      /\ Nodes(line') = Nodes(line) \cup {t}
      /\ Distinct(line')
    BY <1>1, <1>5, InsertLast, InsertLastDistinct DEF list_insert_last
<1>7. \A u \in Users : Holds(u) => line' # <<>> /\ Head(line') = u
    BY <1>1, <1>5 DEF Holds
<1>8. TypesOK'
    BY <1>1, <1>2, <1>3, <1>4, <1>6 DEF TypesOK
<1>9. LineOK'
    <2>1. \A u \in Users : u \in Nodes(line') <=> pc'[u] \in Active \cup {"lock"}
        BY <1>2, <1>3, <1>6 DEF LineOK
    <2>2. \A u \in Users : pc'[u] \in Active => Holds(u)
        BY <1>2, <1>3 DEF LineOK, Active, OnDevice
    <2>. QED
        BY <1>6, <1>7, <2>1, <2>2 DEF LineOK, Holds
<1>10. CallsOK'
    <2>1. \A u \in Users : u # t => (First(u)' = First(u))
        BY <1>4 DEF First
    <2>2. ASSUME NEW u \in Users, u # t, InCall(u)'
          PROVE  /\ op'[u] \in Calls
                 /\ pc'[u] = "lock" => moved'[u] = <<>>
                 /\ \A i \in 1 .. Len(moved'[u]) : moved'[u][i] = First(u)' + i - 1
        <3>1. /\ InCall(u) /\ pc'[u] = pc[u] /\ op'[u] = op[u] /\ moved'[u] = moved[u]
              /\ First(u)' = First(u)
            BY <1>3, <1>4, <2>1, <2>2 DEF InCall
        <3>2. /\ op[u] \in Calls
              /\ pc[u] = "lock" => moved[u] = <<>>
              /\ \A i \in 1 .. Len(moved[u]) : moved[u][i] = First(u) + i - 1
            BY <1>2, <3>1 DEF CallsOK
        <3>. QED
            BY <3>1, <3>2
    <2>3. op'[t] \in Calls /\ moved'[t] = <<>> /\ 1 .. Len(moved'[t]) = {}
        BY <1>4
    <2>. QED
        BY <2>2, <2>3 DEF CallsOK
<1>11. DeviceOK'
    <2>1. \A u \in Users : pc'[u] \in Active => u # t /\ pc[u] = pc'[u]
        BY <1>3 DEF Active, OnDevice
    <2>2. (\A u \in Users : pc'[u] \notin OnDevice) => \A u \in Users : pc[u] \notin OnDevice
        BY <1>3 DEF OnDevice
    <2>3. \A u \in Users : pc'[u] \in OnDevice => AtWork(u)'
        <3>1. ASSUME NEW u \in Users, pc'[u] \in OnDevice PROVE AtWork(u)'
            <4>1. u # t /\ pc'[u] = pc[u] /\ AtWork(u)
                BY <1>2, <2>1, <3>1 DEF DeviceOK, Active
            <4>. QED
                BY <1>1, <1>4, <4>1, AtWorkKept
        <3>. QED
            BY <3>1
    <2>4. \A u \in Users : pc'[u] = "unlock" => (Done(u, Len(moved[u])) \/ device.error)'
        BY <1>1, <1>2, <1>4, <2>1 DEF DeviceOK, Done, Active
    <2>. QED
        BY <1>1, <1>2, <2>2, <2>3, <2>4 DEF DeviceOK
<1>12. TokensOK'
    BY <1>1, <1>2, <1>3, TokensKept
<1>. QED
    BY <1>8, <1>9, <1>10, <1>11, <1>12 DEF DiskInv

(* What has been moved stays moved. *)
LEMMA CallsKept ==
    ASSUME CallsOK, UNCHANGED <<op, moved>>,
           \A u \in Users : InCall(u)' => InCall(u) /\ (pc'[u] = "lock" => pc[u] = "lock")
    PROVE  CallsOK'
<1>1. \A u : First(u)' = First(u)
    BY DEF First
<1>. QED
    BY <1>1 DEF CallsOK

(* The device gets its command when nobody else is on it. *)
LEMMA SendInv ==
    ASSUME DiskInv, NEW t \in Users, ata_send_cmd(t)
    PROVE  DiskInv'
<1>0. PICK q : q = IF op[t].kind = "write" THEN "data" ELSE "wait"
    OBVIOUS
<1>1. /\ At(t, "lock") /\ Holds(t) /\ Goes(t, q) /\ q \in Where
      /\ task_on_op' = 1
      /\ UNCHANGED <<semVars, line, op, moved, pending>>
    BY <1>0 DEF ata_send_cmd, Where
<1>2. TypesOK /\ LineOK /\ CallsOK /\ DeviceOK /\ TokensOK
    BY DEF DiskInv
<1>3. /\ pc' \in [Users -> Where]
      /\ pc[t] = "lock" /\ pc'[t] = q /\ ~Suspended(t)
      /\ \A u \in Users : u # t => pc'[u] = pc[u]
    BY <1>1, <1>2, GoesMovesOne DEF At
<1>4. op[t] \in Calls /\ moved[t] = <<>>
    BY <1>2, <1>3 DEF CallsOK, InCall
<1>5. /\ First(t) \in Nat /\ op[t].count \in 1 .. MaxCount /\ op[t].kind \in {"read", "write"}
      /\ MaxCount \in Nat
    BY <1>4, PartitionStart, DiskAssumption, SMTT(30) DEF First
<1>6. /\ device'.state = IF op[t].kind = "write" THEN "ready" ELSE "busy"
      /\ device'.kind = op[t].kind
      /\ device'.left = op[t].count
      /\ device'.error = FALSE
      /\ device'.at = First(t)
      /\ device' \in [state : {"idle", "busy", "ready"}, kind : {"read", "write"},
                      at : Int, left : 0 .. MaxCount, error : BOOLEAN]
    <2>1. device' = [state |-> IF op[t].kind = "write" THEN "ready" ELSE "busy",
                     kind |-> op[t].kind, left |-> op[t].count, error |-> FALSE, at |-> First(t)]
        BY DEF ata_send_cmd, First
    <2>. QED
        BY <1>5, <2>1
<1>7. \A u \in Users : pc[u] \notin Active
    BY <1>1, <1>2, <1>3, HolderAlone DEF Active, OnDevice
<1>8. q \in OnDevice /\ q # "poll"
    BY <1>0 DEF OnDevice
<1>9. TypesOK'
    BY <1>1, <1>2, <1>3, <1>6 DEF TypesOK
<1>10. LineOK'
    BY <1>1, <1>2, <1>3, <1>8, LineKept DEF Active
<1>11. CallsOK'
    BY <1>1, <1>2, <1>3, <1>8, CallsKept DEF InCall, OnDevice
<1>12. DeviceOK'
    <2>1. \A u \in Users : pc'[u] \in Active => u = t
        BY <1>3, <1>7
    <2>2. AtWork(t)'
        <3>1. First(t)' = First(t) /\ op'[t] = op[t] /\ moved'[t] = <<>>
            BY <1>1, <1>4 DEF First
        <3>2. q = "data" => op[t].kind = "write"
            BY <1>0
        <3>3. /\ device'.at = First(t) + Len(moved'[t])
              /\ device'.left = op[t].count - Len(moved'[t])
              /\ device'.left > 0
            BY <1>5, <1>6, <3>1
        <3>. QED
            BY <1>3, <1>5, <1>6, <3>1, <3>2, <3>3 DEF AtWork
    <2>3. pc'[t] # "unlock"
        BY <1>3, <1>8 DEF OnDevice
    <2>. QED
        BY <1>3, <1>8, <2>1, <2>2, <2>3 DEF DeviceOK, Active
<1>13. TokensOK'
    <2>1. SemsOK' /\ \A u : Suspended(u)' <=> Suspended(u)
        BY <1>1, <1>2, SameSems DEF TokensOK
    <2>2. \A u \in Users : Suspended(u)' => pc'[u] = "poll"
        BY <1>2, <1>3, <2>1 DEF TokensOK
    <2>3. device.state = "idle"
        BY <1>2, <1>7 DEF DeviceOK, Active
    <2>4. /\ tokens' = tokens /\ tokens["op"] \in Nat /\ pending' = pending
          /\ tokens["op"] + (IF pending THEN 1 ELSE 0) <= 1 + Cardinality(Expecting)
          /\ Cardinality(Expecting) \in Nat
        BY <1>1, <1>2, <2>3, ExpectingFinite, DiskAssumption, SMTT(30) DEF TokensOK, SemsOK, semVars
    <2>5. CASE q = "data"
        <3>1. Expecting' = Expecting
            BY <1>3, <2>1, <2>5 DEF Expecting
        <3>2. device'.state # "busy" /\ Cardinality(Expecting') = Cardinality(Expecting)
            BY <1>0, <1>6, <2>5, <3>1
        <3>. QED
            BY <2>1, <2>2, <2>4, <3>2 DEF TokensOK
    <2>6. CASE q = "wait"
        <3>1. Expecting' = Expecting \cup {t} /\ t \notin Expecting
            BY <1>3, <2>1, <2>6 DEF Expecting
        <3>2. Cardinality(Expecting') = Cardinality(Expecting) + 1
            BY <3>1, ExpectingFinite, FS_AddElement
        <3>3. tokens'["op"] + (IF pending' THEN 1 ELSE 0) + (IF device'.state = "busy" THEN 1 ELSE 0)
                  <= 1 + Cardinality(Expecting')
            BY <2>4, <3>2
        <3>. QED
            BY <2>1, <2>2, <3>3 DEF TokensOK
    <2>. QED
        BY <1>0, <2>5, <2>6
<1>. QED
    BY <1>9, <1>10, <1>11, <1>12, <1>13 DEF DiskInv

(* A token taken or awaited. *)
LEMMA OpWaitInv ==
    ASSUME DiskInv, NEW t \in Users, op_wait(t)
    PROVE  DiskInv'
<1>1. /\ At(t, "wait") /\ Wait("op", t) /\ Goes(t, "poll") /\ "poll" \in Where /\ "op" \in Sems
      /\ UNCHANGED <<line, task_on_op, op, moved, device, pending>>
    BY DiskAssumption DEF op_wait, Where
<1>2. TypesOK /\ LineOK /\ CallsOK /\ DeviceOK /\ TokensOK
    BY DEF DiskInv
<1>3. /\ pc' \in [Users -> Where]
      /\ pc[t] = "wait" /\ pc'[t] = "poll" /\ ~Suspended(t)
      /\ \A u \in Users : u # t => pc'[u] = pc[u]
    BY <1>1, <1>2, GoesMovesOne DEF At
<1>4. TypesOK'
    BY <1>1, <1>2, <1>3 DEF TypesOK
<1>5. Holds(t)
    BY <1>2, <1>3 DEF LineOK, Active, OnDevice
<1>6. LineOK'
    BY <1>1, <1>2, <1>3, <1>5, LineKept DEF Active, OnDevice
<1>7. CallsOK'
    BY <1>1, <1>2, <1>3, CallsKept DEF InCall
<1>8. DeviceOK'
    <2>1. \A u \in Users : pc'[u] \in Active => u = t
        BY <1>2, <1>3, <1>5, HolderAlone
    <2>2. AtWork(t)
        BY <1>2, <1>3 DEF DeviceOK, OnDevice
    <2>3. AtWork(t)'
        <3>1. First(t)' = First(t)
            BY <1>1 DEF First
        <3>. QED
            BY <1>1, <1>3, <2>2, <3>1 DEF AtWork
    <2>. QED
        BY <1>3, <2>1, <2>3 DEF DeviceOK, Active, OnDevice
<1>9. TokensOK'
    <2>1. /\ tokens["op"] \in Nat
          /\ tokens["op"] + (IF pending THEN 1 ELSE 0) + (IF device.state = "busy" THEN 1 ELSE 0)
                 <= 1 + Cardinality(Expecting)
          /\ Cardinality(Expecting) \in Nat
        BY <1>1, <1>2, ExpectingFinite DEF TokensOK, SemsOK
    <2>2. CASE Take("op", t)
        <3>1. /\ SemsOK'
              /\ \A u : Suspended(u)' <=> Suspended(u)
              /\ tokens["op"] \in Nat \ {0}
              /\ tokens' = [tokens EXCEPT !["op"] = tokens["op"] - 1]
            BY <1>1, <1>2, <2>2, TakeSuspendsNobody DEF TokensOK
        <3>2. tokens'["op"] = tokens["op"] - 1
            BY <1>1, <1>2, <3>1 DEF TokensOK, SemsOK
        <3>3. Expecting' = Expecting \ {t} /\ t \in Expecting
            BY <1>3, <3>1 DEF Expecting
        <3>4. Cardinality(Expecting') = Cardinality(Expecting) - 1
            BY <3>3, ExpectingFinite, FS_RemoveElement
        <3>5. tokens'["op"] + (IF pending' THEN 1 ELSE 0) + (IF device'.state = "busy" THEN 1 ELSE 0)
                  <= 1 + Cardinality(Expecting')
            BY <1>1, <2>1, <3>2, <3>4
        <3>6. \A u \in Users : Suspended(u)' => pc'[u] = "poll"
            BY <1>2, <1>3, <3>1 DEF TokensOK
        <3>. QED
            BY <3>1, <3>5, <3>6 DEF TokensOK
    <2>3. CASE Queue("op", t)
        <3>1. /\ SemsOK'
              /\ Suspended(t)'
              /\ \A u : u # t => (Suspended(u)' <=> Suspended(u))
              /\ tokens' = tokens
            BY <1>1, <1>2, <2>3, QueueSuspends DEF TokensOK
        <3>2. Expecting' = Expecting
            BY <1>3, <3>1 DEF Expecting
        <3>3. \A u \in Users : Suspended(u)' => pc'[u] = "poll"
            BY <1>2, <1>3, <3>1 DEF TokensOK
        <3>4. tokens'["op"] + (IF pending' THEN 1 ELSE 0) + (IF device'.state = "busy" THEN 1 ELSE 0)
                  <= 1 + Cardinality(Expecting')
            BY <1>1, <2>1, <3>1, <3>2
        <3>. QED
            BY <3>1, <3>3, <3>4 DEF TokensOK
    <2>. QED
        BY <1>1, <2>2, <2>3 DEF Wait
<1>. QED
    BY <1>4, <1>6, <1>7, <1>8, <1>9 DEF DiskInv

(* The poll ends with the sector's data ready, the write done, or an error. *)
LEMMA WaitDataInv ==
    ASSUME DiskInv, NEW t \in Users, ata_wait_data(t)
    PROVE  DiskInv'
<1>0. PICK q : q = IF device.error THEN "unlock"
                   ELSE IF op[t].kind = "read" THEN "data" ELSE AfterSector(t, Len(moved[t]))
    OBVIOUS
<1>1. /\ At(t, "poll") /\ device.state # "busy" /\ Goes(t, q)
      /\ pending' \in {pending, FALSE}
      /\ UNCHANGED <<semVars, line, task_on_op, op, moved, device>>
    BY <1>0 DEF ata_wait_data
<1>2. TypesOK /\ LineOK /\ CallsOK /\ DeviceOK /\ TokensOK
    BY DEF DiskInv
<1>3. pc[t] = "poll" /\ ~Suspended(t)
    BY <1>1 DEF At
<1>4. AtWork(t)
    BY <1>2, <1>3 DEF DeviceOK, OnDevice
<1>5. op[t] \in Calls
    BY <1>2, <1>3 DEF CallsOK, InCall
<1>6. /\ op[t].count \in Nat /\ op[t].kind \in {"read", "write"}
      /\ Len(moved[t]) \in Nat
      /\ device.state \in {"idle", "ready"}
    <2>1. op[t].count \in Nat /\ op[t].kind \in {"read", "write"}
        BY <1>5, PartitionStart, DiskAssumption
    <2>. QED
        BY <1>1, <1>2, <2>1 DEF TypesOK
<1>7. \/ q = "unlock" /\ device.error
      \/ q = "unlock" /\ Done(t, Len(moved[t])) /\ ~device.error /\ op[t].kind = "write"
      \/ q = "data" /\ ~device.error /\ (op[t].kind = "read" \/ ~Done(t, Len(moved[t])))
    BY <1>0, <1>6 DEF AfterSector
<1>8. /\ q \in {"unlock", "data"} /\ q \in Where
      /\ q = "unlock" => device.state = "idle" /\ (Done(t, Len(moved[t])) \/ device.error)
      /\ q = "data" => device.state = "ready"
    BY <1>4, <1>6, <1>7 DEF AtWork, Done, Where
<1>9. /\ pc' \in [Users -> Where]
      /\ pc'[t] = q
      /\ \A u \in Users : u # t => pc'[u] = pc[u]
    BY <1>1, <1>2, <1>8, GoesMovesOne
<1>10. TypesOK'
    BY <1>1, <1>2, <1>9 DEF TypesOK
<1>11. Holds(t)
    BY <1>2, <1>3 DEF LineOK, Active, OnDevice
<1>12. LineOK'
    BY <1>1, <1>2, <1>3, <1>8, <1>9, <1>11, LineKept DEF Active, OnDevice
<1>13. CallsOK'
    BY <1>1, <1>2, <1>3, <1>8, <1>9, CallsKept DEF InCall
<1>14. DeviceOK'
    <2>1. \A u \in Users : pc'[u] \in Active => u = t
        BY <1>2, <1>9, <1>11, HolderAlone
    <2>2. CASE q = "data"
        <3>1. First(t)' = First(t)
            BY <1>1 DEF First
        <3>2. AtWork(t)'
            BY <1>1, <1>4, <1>8, <1>9, <2>2, <3>1 DEF AtWork
        <3>. QED
            BY <1>9, <2>1, <2>2, <3>2 DEF DeviceOK, Active, OnDevice
    <2>3. CASE q = "unlock"
        <3>1. \A u \in Users : pc'[u] \notin OnDevice
            BY <1>9, <2>1, <2>3 DEF Active, OnDevice
        <3>2. \A u \in Users : pc'[u] = "unlock" => u = t
            BY <2>1 DEF Active
        <3>3. (Done(t, Len(moved[t])) \/ device.error)'
            BY <1>1, <1>8, <2>3 DEF Done
        <3>. QED
            BY <1>1, <1>8, <2>3, <3>1, <3>2, <3>3 DEF DeviceOK
    <2>. QED
        BY <1>8, <2>2, <2>3
<1>15. TokensOK'
    <2>1. pending' = pending \/ pending' = FALSE
        BY <1>1
    <2>2. pending' => pending
        BY <2>1, Zenon
    <2>3. /\ pc[t] # "wait" /\ pc'[t] # "wait"
          /\ device'.state = "busy" => device.state = "busy"
        BY <1>1, <1>3, <1>8, <1>9
    <2>. QED
        BY <1>1, <1>2, <1>3, <1>9, <2>2, <2>3, TokensKept
<1>. QED
    BY <1>10, <1>12, <1>13, <1>14, <1>15 DEF DiskInv

LEMMA OneMore ==
    ASSUME NEW first \in Int, NEW count \in Int, NEW n \in Nat
    PROVE  /\ (first + n) + 1 = first + (n + 1)
           /\ (count - n) - 1 = count - (n + 1)
    OBVIOUS

(* A sector goes through the data port that the device holds ready. *)
LEMMA DataInv ==
    ASSUME DiskInv, NEW t \in Users, ata_data(t)
    PROVE  DiskInv'
<1>0. PICK q : q = IF op[t].kind = "write" THEN "wait" ELSE AfterSector(t, Len(moved[t]) + 1)
    OBVIOUS
<1>1. /\ At(t, "data") /\ Goes(t, q)
      /\ UNCHANGED <<semVars, line, task_on_op, op, pending>>
    BY <1>0 DEF ata_data
<1>2. TypesOK /\ LineOK /\ CallsOK /\ DeviceOK /\ TokensOK
    BY DEF DiskInv
<1>3. pc[t] = "data" /\ ~Suspended(t)
    BY <1>1 DEF At
<1>4. AtWork(t) /\ device.state = "ready" /\ device.left > 0 /\ ~device.error
    BY <1>2, <1>3 DEF DeviceOK, OnDevice, AtWork
<1>5. op[t] \in Calls
    BY <1>2, <1>3 DEF CallsOK, InCall
<1>6. /\ op[t].count \in Nat /\ op[t].kind \in {"read", "write"}
      /\ First(t) \in Nat
      /\ moved[t] \in Seq(Int) /\ Len(moved[t]) \in Nat
      /\ device.left \in 0 .. MaxCount /\ MaxCount \in Nat /\ device.at \in Int
    <2>1. op[t].count \in Nat /\ op[t].kind \in {"read", "write"} /\ First(t) \in Nat /\ MaxCount \in Nat
        BY <1>5, PartitionStart, DiskAssumption DEF First
    <2>. QED
        BY <1>2, <2>1 DEF TypesOK
<1>7. /\ device.kind = op[t].kind
      /\ device.at = First(t) + Len(moved[t])
      /\ device.left = op[t].count - Len(moved[t])
    BY <1>4 DEF AtWork
<1>8. /\ moved' = [moved EXCEPT ![t] = Append(moved[t], device.at)]
      /\ device' = [device EXCEPT !.at = device.at + 1, !.left = device.left - 1,
                      !.state = IF device.kind = "read" /\ device.left = 1 THEN "idle" ELSE "busy"]
    BY <1>4 DEF ata_data
<1>9. /\ device'.at = device.at + 1 /\ device'.left = device.left - 1
      /\ device'.kind = device.kind /\ device'.error = device.error
      /\ device'.state = IF device.kind = "read" /\ device.left = 1 THEN "idle" ELSE "busy"
      /\ device' \in [state : {"idle", "busy", "ready"}, kind : {"read", "write"},
                      at : Int, left : 0 .. MaxCount, error : BOOLEAN]
    <2>1. device \in [state : {"idle", "busy", "ready"}, kind : {"read", "write"},
                      at : Int, left : 0 .. MaxCount, error : BOOLEAN]
        BY <1>2 DEF TypesOK
    <2>2. device.at + 1 \in Int /\ device.left - 1 \in 0 .. MaxCount
        BY <1>4, <1>6
    <2>. QED
        BY <1>8, <2>1, <2>2
<1>10. /\ moved' \in [Users -> Seq(Int)]
       /\ Len(moved'[t]) = Len(moved[t]) + 1
       /\ \A i \in 1 .. Len(moved[t]) : moved'[t][i] = moved[t][i]
       /\ moved'[t][Len(moved[t]) + 1] = device.at
       /\ \A u \in Users : u # t => moved'[u] = moved[u]
    <2>1. moved \in [Users -> Seq(Int)]
        BY <1>2 DEF TypesOK
    <2>2. /\ Append(moved[t], device.at) \in Seq(Int)
          /\ Len(Append(moved[t], device.at)) = Len(moved[t]) + 1
          /\ \A i \in 1 .. Len(moved[t]) : Append(moved[t], device.at)[i] = moved[t][i]
          /\ Append(moved[t], device.at)[Len(moved[t]) + 1] = device.at
        BY <1>6
    <2>3. moved'[t] = Append(moved[t], device.at)
        BY <1>8, <2>1
    <2>4. moved' \in [Users -> Seq(Int)] /\ \A u \in Users : u # t => moved'[u] = moved[u]
        BY <1>8, <2>1, <2>2
    <2>. QED
        BY <2>2, <2>3, <2>4
<1>11. /\ q \in {"wait", "unlock"} /\ q \in Where
       /\ q = "unlock" <=> (op[t].kind = "read" /\ device.left = 1)
    <2>1. device.left = 1 <=> Len(moved[t]) + 1 = op[t].count
        BY <1>6, <1>7
    <2>. QED
        BY <1>0, <1>6, <2>1 DEF AfterSector, Done, Where
<1>12. /\ pc' \in [Users -> Where]
       /\ pc'[t] = q
       /\ \A u \in Users : u # t => pc'[u] = pc[u]
    BY <1>1, <1>2, <1>11, GoesMovesOne
<1>13. Holds(t)
    BY <1>2, <1>3 DEF LineOK, Active, OnDevice
<1>14. TypesOK'
    BY <1>1, <1>2, <1>9, <1>10, <1>12 DEF TypesOK
<1>15. LineOK'
    BY <1>1, <1>2, <1>3, <1>11, <1>12, <1>13, LineKept DEF Active, OnDevice
<1>16. CallsOK'
    <2>1. \A u : First(u)' = First(u)
        BY <1>1 DEF First
    <2>2. ASSUME NEW u \in Users, u # t, InCall(u)'
          PROVE  /\ op'[u] \in Calls
                 /\ pc'[u] = "lock" => moved'[u] = <<>>
                 /\ \A i \in 1 .. Len(moved'[u]) : moved'[u][i] = First(u)' + i - 1
        <3>1. InCall(u) /\ pc'[u] = pc[u] /\ op'[u] = op[u] /\ moved'[u] = moved[u]
            BY <1>1, <1>10, <1>12, <2>2 DEF InCall
        <3>. QED
            BY <1>2, <2>1, <3>1 DEF CallsOK
    <2>3. op'[t] \in Calls /\ pc'[t] # "lock"
        BY <1>1, <1>5, <1>11, <1>12
    <2>4. \A i \in 1 .. Len(moved'[t]) : moved'[t][i] = First(t)' + i - 1
        <3>1. ASSUME NEW i \in 1 .. Len(moved[t]) + 1 PROVE moved'[t][i] = First(t) + i - 1
            <4>1. CASE i = Len(moved[t]) + 1
                BY <1>6, <1>7, <1>10, <4>1
            <4>2. CASE i # Len(moved[t]) + 1
                <5>1. i \in 1 .. Len(moved[t])
                    BY <1>6, <4>2
                <5>2. moved[t][i] = First(t) + i - 1
                    BY <1>2, <1>3, <5>1 DEF CallsOK, InCall
                <5>. QED
                    BY <1>10, <5>1, <5>2
            <4>. QED
                BY <4>1, <4>2
        <3>. QED
            BY <1>10, <2>1, <3>1
    <2>. QED
        BY <2>2, <2>3, <2>4 DEF CallsOK
<1>17. DeviceOK'
    <2>1. \A u \in Users : pc'[u] \in Active => u = t
        BY <1>2, <1>12, <1>13, HolderAlone
    <2>2. CASE q = "wait"
        <3>1. First(t)' = First(t) /\ op'[t] = op[t]
            BY <1>1 DEF First
        <3>2. device'.state = "busy" /\ device'.error = FALSE
            <4>1. device.error = FALSE
                BY <1>2, <1>4 DEF TypesOK
            <4>. QED
                BY <1>7, <1>9, <1>11, <2>2, <4>1
        <3>3. device'.at = First(t) + Len(moved'[t]) /\ device'.left = op[t].count - Len(moved'[t])
            <4>1. Len(moved'[t]) = Len(moved[t]) + 1
                BY <1>10
            <4>2. device'.at = device.at + 1 /\ device'.left = device.left - 1
                BY <1>9
            <4>3. Len(moved[t]) \in Nat /\ First(t) \in Int /\ op[t].count \in Int
                BY <1>6
            <4>4. device.at = First(t) + Len(moved[t]) /\ device.left = op[t].count - Len(moved[t])
                BY <1>7
            <4>5. /\ (First(t) + Len(moved[t])) + 1 = First(t) + (Len(moved[t]) + 1)
                  /\ (op[t].count - Len(moved[t])) - 1 = op[t].count - (Len(moved[t]) + 1)
                BY <4>3, OneMore
            <4>. QED
                BY ONLY <4>1, <4>2, <4>4, <4>5, Zenon
        <3>4. device'.kind = "read" => device'.left > 0
            <4>1. device.kind = "read" => device.left # 1
                BY <1>7, <1>11, <2>2
            <4>2. device.left \in Nat /\ device.left > 0
                BY <1>4, <1>6
            <4>3. device'.left = device.left - 1 /\ device'.kind = device.kind
                BY <1>9
            <4>. QED
                BY <4>1, <4>2, <4>3
        <3>5. AtWork(t)'
            BY <1>7, <1>9, <1>12, <2>2, <3>1, <3>2, <3>3, <3>4 DEF AtWork
        <3>. QED
            BY <1>12, <2>1, <2>2, <3>5 DEF DeviceOK, Active, OnDevice
    <2>3. CASE q = "unlock"
        <3>1. device'.state = "idle"
            BY <1>7, <1>9, <1>11, <2>3
        <3>2. \A u \in Users : pc'[u] \notin OnDevice
            BY <1>12, <2>1, <2>3 DEF Active, OnDevice
        <3>3. \A u \in Users : pc'[u] = "unlock" => u = t
            BY <2>1 DEF Active
        <3>4. Done(t, Len(moved[t]))'
            BY <1>1, <1>6, <1>7, <1>10, <1>11, <2>3, SMTT(30) DEF Done
        <3>. QED
            BY <3>1, <3>2, <3>3, <3>4 DEF DeviceOK
    <2>. QED
        BY <1>11, <2>2, <2>3
<1>18. TokensOK'
    <2>1. SemsOK' /\ \A u : Suspended(u)' <=> Suspended(u)
        BY <1>1, <1>2, SameSems DEF TokensOK
    <2>2. \A u \in Users : Suspended(u)' => pc'[u] = "poll"
        BY <1>2, <1>3, <1>12, <2>1 DEF TokensOK
    <2>3. /\ tokens' = tokens /\ tokens["op"] \in Nat /\ pending' = pending
          /\ tokens["op"] + (IF pending THEN 1 ELSE 0) <= 1 + Cardinality(Expecting)
          /\ Cardinality(Expecting) \in Nat
        BY <1>1, <1>2, <1>4, ExpectingFinite, DiskAssumption, SMTT(30) DEF TokensOK, SemsOK, semVars
    <2>4. CASE q = "unlock"
        <3>1. Expecting' = Expecting
            BY <1>3, <1>12, <2>1, <2>4 DEF Expecting
        <3>2. device'.state # "busy" /\ Cardinality(Expecting') = Cardinality(Expecting)
            BY <1>7, <1>9, <1>11, <2>4, <3>1
        <3>. QED
            BY <2>1, <2>2, <2>3, <3>2 DEF TokensOK
    <2>5. CASE q = "wait"
        <3>1. Expecting' = Expecting \cup {t} /\ t \notin Expecting
            BY <1>3, <1>12, <2>1, <2>5 DEF Expecting
        <3>2. Cardinality(Expecting') = Cardinality(Expecting) + 1
            BY <3>1, ExpectingFinite, FS_AddElement
        <3>3. tokens'["op"] + (IF pending' THEN 1 ELSE 0) + (IF device'.state = "busy" THEN 1 ELSE 0)
                  <= 1 + Cardinality(Expecting')
            BY <2>3, <3>2
        <3>. QED
            BY <2>1, <2>2, <3>3 DEF TokensOK
    <2>. QED
        BY <1>11, <2>4, <2>5
<1>. QED
    BY <1>14, <1>15, <1>16, <1>17, <1>18 DEF DiskInv

(* The call returns and the next in the line holds the mutex. *)
LEMMA ReturnInv ==
    ASSUME DiskInv, NEW t \in Users, Return(t)
    PROVE  DiskInv'
<1>1. /\ At(t, "unlock") /\ Goes(t, "user") /\ "user" \in Where
      /\ line' = Tail(line)
      /\ op' = [op EXCEPT ![t] = NoOp]
      /\ moved' = [moved EXCEPT ![t] = <<>>]
      /\ UNCHANGED <<semVars, task_on_op, device, pending>>
    BY DEF Return, Where
<1>2. TypesOK /\ LineOK /\ CallsOK /\ DeviceOK /\ TokensOK
    BY DEF DiskInv
<1>3. /\ pc' \in [Users -> Where]
      /\ pc[t] = "unlock" /\ pc'[t] = "user" /\ ~Suspended(t)
      /\ \A u \in Users : u # t => pc'[u] = pc[u]
    BY <1>1, <1>2, GoesMovesOne DEF At
<1>4. /\ op' \in [Users -> Calls \cup {NoOp}]
      /\ moved' \in [Users -> Seq(Int)]
      /\ \A u \in Users : u # t => op'[u] = op[u] /\ moved'[u] = moved[u]
    BY <1>1, <1>2 DEF TypesOK
<1>5. Holds(t)
    BY <1>2, <1>3 DEF LineOK, Active
<1>6. \A u \in Users : pc'[u] \notin Active
    BY <1>2, <1>3, <1>5, HolderAlone DEF Active, OnDevice
<1>7. /\ line \in Seq(Users) /\ Distinct(line) /\ line # <<>> /\ list_first(line) = t
    BY <1>2, <1>5 DEF TypesOK, LineOK, Holds, list_first
<1>8. /\ line' \in Seq(Users)
      /\ Nodes(line') = Nodes(line) \ {t}
      /\ Distinct(line')
    <2>1. list_remove_first(line) = list_remove(line, t) /\ t \in Nodes(line)
        BY <1>7, RemoveFirst
    <2>2. line' = list_remove_first(line)
        <3>1. line' = Tail(line) /\ line \in Seq(Users) /\ line # <<>>
            BY <1>1, <1>7
        <3>2. Tail(line) = [i \in 1 .. Len(line) - 1 |-> line[i + 1]]
            <4>. DEFINE rest == [i \in 1 .. Len(line) - 1 |-> line[i + 1]]
            <4>1. Len(line) \in Nat \ {0} /\ \A i \in 1 .. Len(line) : line[i] \in Users
                BY <3>1
            <4>2. rest \in Seq(Users) /\ Len(rest) = Len(line) - 1
                BY <4>1
            <4>3. /\ Tail(line) \in Seq(Users) /\ Len(Tail(line)) = Len(line) - 1
                  /\ \A i \in 1 .. Len(Tail(line)) : Tail(line)[i] = line[i + 1]
                BY <3>1, HeadTailProperties
            <4>4. \A i \in 1 .. Len(Tail(line)) : Tail(line)[i] = rest[i]
                BY <4>3
            <4>. HIDE DEF rest
            <4>5. Tail(line) = rest
                BY <4>2, <4>3, <4>4, SeqEqual
            <4>. QED
                BY <4>5 DEF rest
        <3>. QED
            BY <3>1, <3>2 DEF list_remove_first
    <2>3. list_remove(line, t) \in Seq(Users) /\ Distinct(list_remove(line, t))
          /\ Nodes(list_remove(line, t)) = Nodes(line) \ {t}
        BY <1>7, <2>1, RemoveNode
    <2>. QED
        BY <2>1, <2>2, <2>3
<1>9. TypesOK'
    BY <1>1, <1>2, <1>3, <1>4, <1>8 DEF TypesOK
<1>10. LineOK'
    <2>1. \A u \in Users : u \in Nodes(line') <=> pc'[u] \in Active \cup {"lock"}
        BY <1>2, <1>3, <1>8 DEF LineOK, Active, OnDevice
    <2>. QED
        BY <1>6, <1>8, <2>1 DEF LineOK
<1>11. CallsOK'
    <2>1. ASSUME NEW u \in Users, InCall(u)'
          PROVE  /\ op'[u] \in Calls
                 /\ pc'[u] = "lock" => moved'[u] = <<>>
                 /\ \A i \in 1 .. Len(moved'[u]) : moved'[u][i] = First(u)' + i - 1
        <3>1. u # t
            BY <1>3, <2>1 DEF InCall
        <3>2. /\ InCall(u) /\ pc'[u] = pc[u] /\ op'[u] = op[u] /\ moved'[u] = moved[u]
              /\ First(u)' = First(u)
            BY <1>3, <1>4, <2>1, <3>1 DEF InCall, First
        <3>3. /\ op[u] \in Calls
              /\ pc[u] = "lock" => moved[u] = <<>>
              /\ \A i \in 1 .. Len(moved[u]) : moved[u][i] = First(u) + i - 1
            BY <1>2, <3>2 DEF CallsOK
        <3>. QED
            BY <3>2, <3>3
    <2>. QED
        BY <2>1 DEF CallsOK
<1>12. DeviceOK'
    <2>1. \A u \in Users : pc[u] \notin OnDevice
        BY <1>2, <1>3, <1>5, HolderAlone DEF Active, OnDevice
    <2>2. device.state = "idle" /\ device' = device
        BY <1>1, <1>2, <2>1 DEF DeviceOK
    <2>. QED
        BY <1>6, <2>2 DEF DeviceOK, Active
<1>13. TokensOK'
    BY <1>1, <1>2, <1>3, TokensKept
<1>. QED
    BY <1>9, <1>10, <1>11, <1>12, <1>13 DEF DiskInv

-----------------------------------------------------------------------------
(* The device and its interrupt. *)

(* The device becomes ready for the task on it, or fails. *)
LEMMA DeviceReadyInv ==
    ASSUME DiskInv, DeviceReady
    PROVE  DiskInv'
<1>1. /\ device.state = "busy" /\ pending' = TRUE
      /\ UNCHANGED <<semVars, line, task_on_op, pc, op, moved>>
    BY DEF DeviceReady
<1>2. TypesOK /\ LineOK /\ CallsOK /\ DeviceOK /\ TokensOK
    BY DEF DiskInv
<1>3. PICK error \in BOOLEAN :
          device' = [device EXCEPT !.error = error,
                        !.state = IF error \/ (device.kind = "write" /\ device.left = 0)
                                  THEN "idle" ELSE "ready"]
    BY DEF DeviceReady
<1>4. /\ device'.at = device.at /\ device'.left = device.left /\ device'.kind = device.kind
      /\ device'.error = error
      /\ device'.state = IF error \/ (device.kind = "write" /\ device.left = 0) THEN "idle" ELSE "ready"
      /\ device' \in [state : {"idle", "busy", "ready"}, kind : {"read", "write"},
                      at : Int, left : 0 .. MaxCount, error : BOOLEAN]
    <2>1. device \in [state : {"idle", "busy", "ready"}, kind : {"read", "write"},
                      at : Int, left : 0 .. MaxCount, error : BOOLEAN]
        BY <1>2 DEF TypesOK
    <2>. QED
        BY <1>3, <2>1
<1>5. PICK t \in Users : pc[t] \in OnDevice
    BY <1>1, <1>2 DEF DeviceOK
<1>6. \A u \in Users : pc[u] \in Active => u = t
    BY <1>2, <1>5, OneActive DEF Active
<1>7. AtWork(t) /\ pc[t] # "data"
    BY <1>1, <1>2, <1>5 DEF DeviceOK, AtWork
<1>8. TypesOK'
    BY <1>1, <1>2, <1>4 DEF TypesOK
<1>9. LineOK'
    BY <1>1, <1>2 DEF LineOK, Holds
<1>10. CallsOK'
    BY <1>1, <1>2, CallsKept DEF InCall
<1>11. DeviceOK'
    <2>1. First(t)' = First(t) /\ op'[t] = op[t] /\ moved'[t] = moved[t] /\ pc'[t] = pc[t]
        BY <1>1 DEF First
    <2>2. device.left \in Nat /\ device.kind \in {"read", "write"}
        BY <1>2, DiskAssumption DEF TypesOK
    <2>3. device'.state = "ready" \/ device'.kind = "read" => device'.left > 0
        <3>1. device.kind = "read" => device.left > 0
            BY <1>7 DEF AtWork
        <3>2. device.left # 0 => device.left > 0
            BY <2>2
        <3>. QED
            BY <1>4, <2>2, <3>1, <3>2
    <2>4. AtWork(t)'
        BY <1>4, <1>7, <2>1, <2>3 DEF AtWork
    <2>. QED
        BY <1>1, <1>5, <1>6, <2>4 DEF DeviceOK, Active, OnDevice
<1>12. TokensOK'
    <2>1. SemsOK' /\ \A u : Suspended(u)' <=> Suspended(u)
        BY <1>1, <1>2, SameSems DEF TokensOK
    <2>2. Expecting' = Expecting
        BY <1>1, <2>1 DEF Expecting
    <2>3. /\ tokens' = tokens /\ tokens["op"] \in Nat
          /\ tokens["op"] + (IF pending THEN 1 ELSE 0) + 1 <= 1 + Cardinality(Expecting)
          /\ Cardinality(Expecting) \in Nat
        BY <1>1, <1>2, ExpectingFinite, DiskAssumption DEF TokensOK, SemsOK, semVars
    <2>4. (IF pending' THEN 1 ELSE 0) = 1 /\ (IF device'.state = "busy" THEN 1 ELSE 0) = 0
        BY <1>1, <1>4
    <2>5. (IF pending THEN 1 ELSE 0) \in {0, 1}
        OBVIOUS
    <2>6. tokens'["op"] + (IF pending' THEN 1 ELSE 0) + (IF device'.state = "busy" THEN 1 ELSE 0)
              <= 1 + Cardinality(Expecting')
        BY <2>2, <2>3, <2>4, <2>5
    <2>. QED
        BY <1>1, <1>2, <2>1, <2>6 DEF TokensOK
<1>. QED
    BY <1>8, <1>9, <1>10, <1>11, <1>12 DEF DiskInv

(* The steps that leave the calls and the device alone. *)
LEMMA NothingMoved ==
    ASSUME DiskInv, UNCHANGED <<line, task_on_op, op, moved, device>>, pending' \in BOOLEAN,
           pc' \in [Users -> Where],
           \A u \in Users : pc'[u] = pc[u] \/ {pc[u], pc'[u]} \subseteq {"user", "key"}
    PROVE  TypesOK' /\ LineOK' /\ CallsOK' /\ DeviceOK'
<1>1. TypesOK /\ LineOK /\ CallsOK /\ DeviceOK
    BY DEF DiskInv
<1>2. \A u \in Users : \A p \in Active \cup {"lock"} : pc'[u] = p <=> pc[u] = p
    BY DEF Active, OnDevice
<1>3. TypesOK'
    BY <1>1 DEF TypesOK
<1>4. LineOK'
    <2>1. \A u \in Users : Holds(u)' <=> Holds(u)
        BY DEF Holds
    <2>2. \A u \in Users : /\ pc'[u] \in Active \cup {"lock"} <=> pc[u] \in Active \cup {"lock"}
                           /\ pc'[u] \in Active <=> pc[u] \in Active
        BY <1>2 DEF Active
    <2>. QED
        BY <1>1, <2>1, <2>2 DEF LineOK
<1>5. CallsOK'
    <2>1. \A u \in Users : InCall(u)' => InCall(u) /\ (pc'[u] = "lock" => pc[u] = "lock")
        BY <1>2 DEF InCall
    <2>. QED
        BY <1>1, <2>1, CallsKept
<1>6. DeviceOK'
    <2>1. \A u \in Users : pc'[u] \in OnDevice <=> pc[u] \in OnDevice
        BY <1>2 DEF Active
    <2>2. ASSUME NEW u \in Users, pc'[u] \in OnDevice PROVE AtWork(u)'
        <3>1. pc'[u] = pc[u] /\ AtWork(u)
            BY <1>1, <1>2, <2>1, <2>2 DEF DeviceOK, Active
        <3>. QED
            BY <3>1, AtWorkKept
    <2>3. \A u \in Users : pc'[u] = "unlock" => (Done(u, Len(moved[u])) \/ device.error)'
        BY <1>1, <1>2 DEF DeviceOK, Active, Done
    <2>. QED
        BY <1>1, <2>1, <2>2, <2>3 DEF DeviceOK
<1>. QED
    BY <1>3, <1>4, <1>5, <1>6

(* The interrupt leaves a token, or wakes the task that waits for it. *)
LEMMA HandlerInv ==
    ASSUME DiskInv, do_handler_ide_primary
    PROVE  DiskInv'
<1>1. /\ pending /\ pending' = FALSE
      /\ UNCHANGED <<line, task_on_op, pc, op, moved, device>>
      /\ Post("op") /\ "op" \in Sems
    BY DiskAssumption DEF do_handler_ide_primary, DiskInv, TypesOK
<1>2. TypesOK /\ TokensOK /\ SemsOK
    BY DEF DiskInv, TokensOK
<1>3. TypesOK' /\ LineOK' /\ CallsOK' /\ DeviceOK'
    BY <1>1, <1>2, NothingMoved DEF TypesOK
<1>4. TokensOK'
    <2>. DEFINE busy == IF device.state = "busy" THEN 1 ELSE 0
    <2>1. /\ tokens["op"] \in Nat /\ busy \in {0, 1}
          /\ tokens["op"] + 1 + busy <= 1 + Cardinality(Expecting)
          /\ Cardinality(Expecting) \in Nat
          /\ busy' = busy
        BY <1>1, <1>2, ExpectingFinite DEF TokensOK, SemsOK
    <2>2. (IF pending' THEN 1 ELSE 0) = 0
        BY <1>1
    <2>3. CASE waiting["op"] = <<>>
        <3>1. /\ SemsOK'
              /\ \A u : Suspended(u)' <=> Suspended(u)
              /\ tokens' = [tokens EXCEPT !["op"] = tokens["op"] + 1]
            BY <1>1, <1>2, <2>3, PostKeepsToken
        <3>2. tokens'["op"] = tokens["op"] + 1
            BY <1>1, <1>2, <3>1 DEF SemsOK
        <3>3. Expecting' = Expecting
            BY <1>1, <3>1 DEF Expecting
        <3>. HIDE DEF busy
        <3>4. tokens'["op"] + 0 + busy' <= 1 + Cardinality(Expecting')
            BY <2>1, <3>2, <3>3
        <3>5. \A u \in Users : Suspended(u)' => pc'[u] = "poll"
            BY <1>1, <1>2, <3>1 DEF TokensOK
        <3>. QED
            BY <2>2, <3>1, <3>4, <3>5 DEF TokensOK, busy
    <2>4. CASE waiting["op"] # <<>>
        <3>0. PICK w : w = list_first(waiting["op"])
            OBVIOUS
        <3>1. /\ SemsOK'
              /\ w \in Users
              /\ w \in Nodes(waiting["op"])
              /\ ~Suspended(w)'
              /\ \A u : u # w => (Suspended(u)' <=> Suspended(u))
              /\ tokens' = tokens
            BY <1>1, <1>2, <2>4, <3>0, PostWakesFirst
        <3>2. Suspended(w) /\ pc[w] = "poll"
            BY <1>1, <1>2, <3>1 DEF Suspended, TokensOK
        <3>3. Expecting' = Expecting \ {w} /\ w \in Expecting
            BY <1>1, <3>1, <3>2 DEF Expecting
        <3>4. Cardinality(Expecting') = Cardinality(Expecting) - 1
            BY <3>3, ExpectingFinite, FS_RemoveElement
        <3>. HIDE DEF busy
        <3>5. tokens'["op"] + 0 + busy' <= 1 + Cardinality(Expecting')
            BY <2>1, <3>1, <3>4
        <3>6. \A u \in Users : Suspended(u)' => pc'[u] = "poll"
            BY <1>1, <1>2, <3>1 DEF TokensOK
        <3>. QED
            BY <2>2, <3>1, <3>5, <3>6 DEF TokensOK, busy
    <2>. QED
        BY <2>3, <2>4
<1>. QED
    BY <1>3, <1>4 DEF DiskInv

(* A task goes to wait for a key. *)
LEMMA ReadKeyInv ==
    ASSUME DiskInv, NEW t \in Users, ReadKey(t)
    PROVE  DiskInv'
<1>1. /\ At(t, "user") /\ Goes(t, "key") /\ "key" \in Where
      /\ UNCHANGED <<semVars, line, task_on_op, op, moved, device, pending>>
    BY DEF ReadKey, Where
<1>2. TypesOK /\ TokensOK
    BY DEF DiskInv
<1>3. /\ pc' \in [Users -> Where]
      /\ pc[t] = "user" /\ pc'[t] = "key" /\ ~Suspended(t)
      /\ \A u \in Users : u # t => pc'[u] = pc[u]
    BY <1>1, <1>2, GoesMovesOne DEF At
<1>4. TypesOK' /\ LineOK' /\ CallsOK' /\ DeviceOK'
    <2>1. \A u \in Users : pc'[u] = pc[u] \/ {pc[u], pc'[u]} \subseteq {"user", "key"}
        BY <1>3
    <2>2. pending' \in BOOLEAN
        BY <1>1, <1>2 DEF TypesOK
    <2>. QED
        BY <1>1, <1>3, <2>1, <2>2, NothingMoved
<1>5. TokensOK'
    BY <1>1, <1>2, <1>3, TokensKept
<1>. QED
    BY <1>4, <1>5 DEF DiskInv

(* A key wakes its reader. *)
LEMMA KeyInv ==
    ASSUME DiskInv, NEW t \in Users, do_handler_kbd(t)
    PROVE  DiskInv'
<1>1. /\ pc[t] = "key" /\ Goes(t, "user") /\ "user" \in Where
      /\ UNCHANGED <<semVars, line, task_on_op, op, moved, device, pending>>
    BY DEF do_handler_kbd, Where
<1>2. TypesOK /\ TokensOK
    BY DEF DiskInv
<1>3. /\ pc' \in [Users -> Where]
      /\ pc'[t] = "user" /\ ~Suspended(t)
      /\ \A u \in Users : u # t => pc'[u] = pc[u]
    BY <1>1, <1>2, GoesMovesOne DEF TokensOK
<1>4. TypesOK' /\ LineOK' /\ CallsOK' /\ DeviceOK'
    <2>1. \A u \in Users : pc'[u] = pc[u] \/ {pc[u], pc'[u]} \subseteq {"user", "key"}
        BY <1>1, <1>3
    <2>2. pending' \in BOOLEAN
        BY <1>1, <1>2 DEF TypesOK
    <2>. QED
        BY <1>1, <1>3, <2>1, <2>2, NothingMoved
<1>5. TokensOK'
    BY <1>1, <1>2, <1>3, TokensKept
<1>. QED
    BY <1>4, <1>5 DEF DiskInv

(* The keyboard's handler ends, or nothing happens. *)
LEMMA RestInv ==
    ASSUME DiskInv, UNCHANGED <<semVars, line, task_on_op, pc, op, moved, device, pending>>
    PROVE  DiskInv'
<1>1. TypesOK /\ TokensOK
    BY DEF DiskInv
<1>2. TypesOK' /\ LineOK' /\ CallsOK' /\ DeviceOK'
    <2>1. pending' \in BOOLEAN /\ pc' \in [Users -> Where]
        BY <1>1 DEF TypesOK
    <2>. QED
        BY <2>1, NothingMoved
<1>3. TokensOK'
    <2>1. SemsOK' /\ \A u : Suspended(u)' <=> Suspended(u)
        BY <1>1, SameSems DEF TokensOK
    <2>2. Expecting' = Expecting /\ tokens' = tokens
        BY <2>1 DEF Expecting, semVars
    <2>. QED
        BY <1>1, <2>1, <2>2 DEF TokensOK
<1>. QED
    BY <1>2, <1>3 DEF DiskInv

-----------------------------------------------------------------------------

LEMMA DiskInitInv ==
    ASSUME DiskInit
    PROVE  DiskInv
<1>1. /\ \A s \in Sems : waiting[s] = <<>>
      /\ tokens["op"] = 0 /\ "op" \in Sems
      /\ SemsOK
    BY DiskAssumption, SemAssumption DEF DiskInit, SemsInit, SemsOK, Distinct, Nodes
<1>2. \A u : ~Suspended(u)
    BY <1>1 DEF Suspended, Nodes
<1>3. TypesOK
    <2>1. 0 \in 0 .. MaxCount /\ "user" \in Where
        BY DiskAssumption DEF Where
    <2>. QED
        BY <2>1 DEF DiskInit, TypesOK
<1>4. LineOK /\ CallsOK /\ DeviceOK
    BY DEF DiskInit, LineOK, CallsOK, DeviceOK, Distinct, Nodes, InCall, Active, OnDevice
<1>5. TokensOK
    <2>1. Cardinality(Expecting) \in Nat
        BY ExpectingFinite
    <2>2. tokens["op"] + (IF pending THEN 1 ELSE 0) + (IF device.state = "busy" THEN 1 ELSE 0)
              <= 1 + Cardinality(Expecting)
        BY <1>1, <2>1 DEF DiskInit
    <2>. QED
        BY <1>1, <1>2, <2>2 DEF TokensOK
<1>. QED
    BY <1>3, <1>4, <1>5 DEF DiskInv

LEMMA DiskNextInv ==
    ASSUME DiskInv, [Next]_vars
    PROVE  DiskInv'
<1>1. ASSUME NEW t \in Users, Step(t) PROVE DiskInv'
    BY <1>1, SendInv, OpWaitInv, WaitDataInv, DataInv, ReturnInv DEF Step
<1>2. ASSUME NEW t \in Users, NEW c \in Calls, Call(t, c) PROVE DiskInv'
    BY <1>2, CallInv
<1>3. ASSUME NEW t \in Users, ReadKey(t) \/ do_handler_kbd(t) PROVE DiskInv'
    BY <1>3, ReadKeyInv, KeyInv
<1>4. CASE DeviceReady
    BY <1>4, DeviceReadyInv
<1>5. CASE do_handler_ide_primary
    BY <1>5, HandlerInv
<1>6. CASE pic_send_eoi
    BY <1>6, RestInv DEF pic_send_eoi
<1>7. CASE UNCHANGED vars
    BY <1>7, RestInv DEF vars, diskVars
<1>. QED
    BY <1>1, <1>2, <1>3, <1>4, <1>5, <1>6, <1>7 DEF Next

(* Whatever the order of commands, interrupts and keys, the driver keeps its
   calls, the device and the tokens in step. *)
THEOREM DiskSafe == DiskSpec => []DiskInv
<1>1. DiskInit => DiskInv
    BY DiskInitInv
<1>2. DiskInv /\ [Next]_vars => DiskInv'
    BY DiskNextInv
<1>. QED
    BY <1>1, <1>2, PTL DEF DiskSpec

(* The tokens of op_sem never outnumber the sectors waited for by more than one,
   for any number of calls and of tasks. *)
THEOREM DiskTypes == DiskSpec => []DiskTypeOK
<1>1. ASSUME DiskInv PROVE DiskTypeOK
    <2>1. TypesOK /\ TokensOK
        BY <1>1 DEF DiskInv
    <2>. DEFINE Awaited == {t \in Users : pc[t] \in {"wait", "poll"}}
    <2>2. Cardinality(Expecting) <= Cardinality(Awaited) /\ Cardinality(Awaited) \in Nat
        <3>1. IsFiniteSet(Awaited) /\ Expecting \subseteq Awaited
            <4>1. IsFiniteSet(Users) /\ Awaited \subseteq Users
                BY DiskAssumption
            <4>. QED
                BY <4>1, FS_Subset DEF Expecting
        <3>. QED
            BY <3>1, FS_Subset, FS_CardinalityType
    <2>3. tokens["op"] \in Nat
        BY <2>1, DiskAssumption DEF TokensOK, SemsOK
    <2>4. tokens["op"] + (IF pending THEN 1 ELSE 0) <= 1 + Cardinality(Awaited)
        <3>1. Cardinality(Expecting) \in Nat
            BY ExpectingFinite
        <3>2. tokens["op"] + (IF pending THEN 1 ELSE 0) + (IF device.state = "busy" THEN 1 ELSE 0)
                  <= 1 + Cardinality(Expecting)
            BY <2>1 DEF TokensOK
        <3>. HIDE DEF Awaited
        <3>. QED
            BY <2>2, <2>3, <3>1, <3>2
    <2>5. /\ task_on_op \in {0, 1}
          /\ pc \in [Users -> {"user", "key", "lock", "data", "wait", "poll", "unlock"}]
          /\ \A t \in Users : op[t] = NoOp \/ op[t] \in Calls
          /\ device.state \in {"idle", "busy", "ready"} /\ device.left \in 0 .. MaxCount
        BY <2>1 DEF TypesOK, Where
    <2>. QED
        BY <2>3, <2>4, <2>5 DEF DiskTypeOK
<1>. QED
    BY <1>1, DiskSafe, PTL

(* A call moves the sectors it was asked for, in order, and all of them unless
   the device reports an error; the device is idle for the next command. *)
THEOREM DiskMovesItsSectors == DiskSpec => []MovesItsSectors
<1>1. ASSUME DiskInv, NEW t \in Users, InCall(t)
      PROVE  /\ moved[t] = [i \in 1 .. Len(moved[t]) |-> Partition(op[t].part).start + op[t].start + i - 1]
             /\ pc[t] = "unlock" => Done(t, Len(moved[t])) \/ device.error
             /\ pc[t] = "unlock" \/ (pc[t] = "lock" /\ Holds(t)) => device.state = "idle"
    <2>1. TypesOK /\ LineOK /\ CallsOK /\ DeviceOK
        BY <1>1 DEF DiskInv
    <2>2. moved[t] = [i \in 1 .. Len(moved[t]) |-> First(t) + i - 1]
        <3>1. moved[t] \in Seq(Int) /\ \A i \in 1 .. Len(moved[t]) : moved[t][i] = First(t) + i - 1
            BY <1>1, <2>1 DEF TypesOK, CallsOK
        <3>2. moved[t] \in [1 .. Len(moved[t]) -> Int]
            BY <3>1, LenProperties
        <3>3. moved[t] = [i \in 1 .. Len(moved[t]) |-> moved[t][i]]
            BY <3>2, Zenon
        <3>. QED
            BY <3>1, <3>3, Zenon
    <2>3. pc[t] = "unlock" => Done(t, Len(moved[t])) \/ device.error
        BY <2>1 DEF DeviceOK
    <2>4. ASSUME pc[t] = "unlock" \/ (pc[t] = "lock" /\ Holds(t)) PROVE device.state = "idle"
        <3>1. Holds(t) /\ pc[t] \notin OnDevice
            BY <2>1, <2>4 DEF LineOK, Active, OnDevice
        <3>2. \A u \in Users : pc[u] \notin OnDevice
            BY <2>1, <3>1, HolderAlone DEF Active
        <3>. QED
            BY <2>1, <3>2 DEF DeviceOK
    <2>. QED
        BY <2>2, <2>3, <2>4 DEF First
<1>2. DiskInv => MovesItsSectors
    BY <1>1 DEF MovesItsSectors
<1>. QED
    BY <1>2, DiskSafe, PTL
=============================================================================

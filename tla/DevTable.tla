------------------------------ MODULE DevTable ------------------------------
(***************************************************************************)
(* The table of open devices of kernel/dev/dev.c.                          *)
(*                                                                         *)
(* A device has an entry while it is open, with the number of opens.       *)
(* dev_open and dev_close hold irq_enter_protection, so each is one action;*)
(* a device that is open already is shared.  The driver's own open may     *)
(* fail, for a minor that does not exist.                                  *)
(***************************************************************************)
EXTENDS Integers, FiniteSets

CONSTANTS DevIds,       \* 0 .. DEV_TABLE_SZIE - 1
          Minors,       \* the devices a path can name
          BadMinors,    \* those among them that the driver refuses to open
          NoDev         \* dev->desc = 0

ASSUME DevAssumption ==
    /\ DevIds \subseteq Nat
    /\ IsFiniteSet(DevIds)
    /\ BadMinors \subseteq Minors
    /\ NoDev \notin Minors

VARIABLES openCount,    \* dev->open_count
          minor         \* dev->minor, NoDev where the entry is all zero

devVars == <<openCount, minor>>

DevInit ==
    /\ openCount = [d \in DevIds |-> 0]
    /\ minor = [d \in DevIds |-> NoDev]

OpenEntries(m) == {d \in DevIds : openCount[d] # 0 /\ minor[d] = m}
FreeEntries == {d \in DevIds : openCount[d] = 0}
Highest(S) == CHOOSE d \in S : \A e \in S : e <= d

\* Mutant: an entry that is already there is not shared.
dev_open_again_new(m, d) ==
    /\ FreeEntries # {}
    /\ m \notin BadMinors
    /\ d = Highest(FreeEntries)
    /\ openCount' = [openCount EXCEPT ![d] = 1]
    /\ minor' = [minor EXCEPT ![d] = m]

\* dev_open, when it finds the device in the table, or when it opens it anew
\* in the last free entry.  The result is d.
dev_open_again(m, d) ==
    /\ d \in OpenEntries(m)
    /\ openCount' = [openCount EXCEPT ![d] = @ + 1]
    /\ UNCHANGED minor

dev_open_new(m, d) ==
    /\ OpenEntries(m) = {}
    /\ FreeEntries # {}
    /\ m \notin BadMinors
    /\ d = Highest(FreeEntries)
    /\ openCount' = [openCount EXCEPT ![d] = 1]
    /\ minor' = [minor EXCEPT ![d] = m]

\* dev_open returns -1.  A driver that refuses has had the entry filled in.
dev_open_fails(m) ==
    /\ OpenEntries(m) = {}
    /\ m \in BadMinors \/ FreeEntries = {}
    /\ minor' = IF FreeEntries = {} THEN minor
                ELSE [minor EXCEPT ![Highest(FreeEntries)] = m]
    /\ UNCHANGED openCount

\* An entry without a descriptor is left alone (is_devid_bad).
dev_close(d) ==
    IF minor[d] = NoDev
    THEN UNCHANGED devVars
    ELSE /\ openCount' = [openCount EXCEPT ![d] = @ - 1]
         /\ minor' = IF openCount[d] = 1 THEN [minor EXCEPT ![d] = NoDev] ELSE minor

-----------------------------------------------------------------------------

DevTypeOK ==
    /\ openCount \in [DevIds -> Int]
    /\ minor \in [DevIds -> Minors \cup {NoDev}]

\* A device is open in one entry at most, so that all who have it open see the
\* same state of it.
DeviceOpenOnce ==
    \A m \in Minors : Cardinality(OpenEntries(m)) <= 1

=============================================================================

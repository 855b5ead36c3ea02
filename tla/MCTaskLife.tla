----------------------------- MODULE MCTaskLife -----------------------------
(* Processes on small instances for TLC: first_task and a table of slots. *)
EXTENDS TaskLife, TLC

CONSTANTS f, s1, s2, s3, idle, none, mtx

TwoSlots == {f, s1, s2}
ThreeSlots == {f, s1, s2, s3}
SlotSymmetry == Permutations({s1, s2, s3})
OneMutex == {mtx}
NoSem == {}
NoSemInit == [s \in NoSem |-> 0]

=============================================================================

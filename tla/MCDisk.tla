------------------------------- MODULE MCDisk -------------------------------
(***************************************************************************)
(* Three tasks, one channel: no master, and a slave with one partition, as *)
(* the root device 0xb1 = 177 is.  Calls of one or two sectors; opening an *)
(* absent drive or partition fails.                                        *)
(***************************************************************************)
EXTENDS Disk

MCSems == {"op"}
MCStart == [s \in MCSems |-> 0]
None4 == [i \in 1 .. 4 |-> [system_id |-> 0, relative_sectors |-> 0, total_sectors |-> 0]]
MCDrives == [d \in 0 .. 1 |->
    IF d = 0 THEN [sectors |-> 0, mbr |-> None4]
    ELSE [sectors |-> 9, mbr |-> [None4 EXCEPT ![1] =
             [system_id |-> 14, relative_sectors |-> 5, total_sectors |-> 2]]]]
MCMinors == {161, 177, 178}
=============================================================================

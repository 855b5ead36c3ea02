----------------------------- MODULE FatVolume ------------------------------
(***************************************************************************)
(* The FAT16 volume as kernel/fs/fatfs/fatfs.c sees it: the disk by        *)
(* sectors, the one sector the driver keeps in fat_buffer, the two copies  *)
(* of the cluster table and the root directory.                            *)
(*                                                                         *)
(* The functions of fatfs.c run one call at a time under fs->mutex, so     *)
(* each is an operator on one record, the volume v, and a call of them is  *)
(* one action of FatFs.  v holds                                           *)
(*   disk, cur, buf  the sectors, fat->curr_sector and fat->fat_buffer     *)
(*   hurt            a transfer has failed at some time (history)          *)
(*   bad             the transfers that fail during this call              *)
(*   ok, ret, bytes  what the last operator returned: success, a cluster   *)
(*                   or an index, the bytes read                           *)
(*   file            the file_t the call works on                          *)
(* A cluster is one sector of CLUSTER bytes.  A byte is named after the    *)
(* file and the position it was written at.                                *)
(***************************************************************************)
EXTENDS Integers, Sequences, FiniteSets

CONSTANTS TBL_SECTORS,  \* fat->tbl_sectors, of one copy of the table
          PER_SEC,      \* clusters per sector of the table
          ROOT_ENT,     \* fat->root_ent_cnt
          DIR_PER_SEC,  \* directory items per sector
          CLUSTER,      \* fat->cluster_byte_size
          Names,        \* the names files may have
          Free, End     \* DIRITEM_NAME_FREE, DIRITEM_NAME_END

ASSUME FatAssumption ==
    /\ {TBL_SECTORS, PER_SEC, ROOT_ENT, DIR_PER_SEC, CLUSTER} \subseteq Nat \ {0}
    /\ PER_SEC > 2 /\ ROOT_ENT % DIR_PER_SEC = 0
    /\ Free # End /\ {Free, End} \cap Names = {}

INVALID == 65528        \* FAT_CLUSTER_INVALID, 0xFFF8
LINUX_END == 65535      \* the end of a chain in a volume written elsewhere
BAD_MARK == 65527       \* a bad cluster in a volume written elsewhere
FREE == 0               \* FAT_CLUSTER_FREE

\* Sector 0 is the boot record; then the two tables, the root directory, the data.
TBL_START == 1
ROOT_START == TBL_START + 2 * TBL_SECTORS
DATA_START == ROOT_START + ROOT_ENT \div DIR_PER_SEC
TABLE_END == TBL_SECTORS * PER_SEC
Clusters == 2 .. TABLE_END - 1
DataSector(c) == DATA_START + c - 2
TableSectors == TBL_START .. ROOT_START - 1
RootSectors == ROOT_START .. DATA_START - 1
Sectors == TBL_START .. DataSector(TABLE_END - 1)

Blank == <<End, 0>>
DirItem == [name : Names \cup {Free, End}, sblk : Nat, size : Nat]

Ok(v) == [v EXCEPT !.ok = TRUE]
Fail(v) == [v EXCEPT !.ok = FALSE]
Returns(v, r) == [v EXCEPT !.ret = r]

\* What is done next with the volume v that an operator has left.
Then(v, Do(_)) == Do(v)

(***************************************************************************)
(* Transfers.  dev_read and dev_write return the number of sectors done,   *)
(* never less than 0: the buffer's own functions compare it with 1, the    *)
(* transfers of file data go on whatever it is (Fetch, Store).             *)
(***************************************************************************)
Works(v, op, s) == <<op, s>> \notin v.bad /\ s \in Sectors

Fetch(v, s) == IF Works(v, "read", s) THEN [v EXCEPT !.buf = v.disk[s]]
                                      ELSE [v EXCEPT !.hurt = TRUE]
Store(v, s) == IF Works(v, "write", s) THEN [v EXCEPT !.disk[s] = v.buf]
                                       ELSE [v EXCEPT !.hurt = TRUE]

bread_sector(v, s) ==
    LET done == Works(v, "read", s)
    IN  IF s = v.cur THEN Ok(v)
        ELSE [Fetch(v, s) EXCEPT !.ok = done, !.cur = IF done THEN s ELSE @]

bwrite_sector(v, s) == [Store(v, s) EXCEPT !.ok = Works(v, "write", s)]

(***************************************************************************)
(* The cluster table.                                                      *)
(***************************************************************************)
cluster_is_valid(c) == c >= 2 /\ c < INVALID

cluster_get_next(v, c) ==
    IF ~cluster_is_valid(c) \/ c >= TABLE_END THEN Returns(v, INVALID)
    ELSE Then(bread_sector(v, TBL_START + c \div PER_SEC),
              LAMBDA r : Returns(r, IF r.ok THEN r.buf[c % PER_SEC] ELSE INVALID))

\* Mutant: only the first copy of the table is written.
cluster_set_next_OneCopy(v, c, next) ==
    LET s == TBL_START + c \div PER_SEC
    IN  IF ~cluster_is_valid(c) \/ c >= TABLE_END THEN Fail(v)
        ELSE Then(bread_sector(v, s), LAMBDA r :
             IF ~r.ok THEN r ELSE bwrite_sector([r EXCEPT !.buf[c % PER_SEC] = next], s))

\* The change is made in the buffer and written to both copies; an error
\* leaves it in the buffer.
cluster_set_next(v, c, next) ==
    LET s == TBL_START + c \div PER_SEC
    IN  IF ~cluster_is_valid(c) \/ c >= TABLE_END THEN Fail(v)
        ELSE Then(bread_sector(v, s), LAMBDA r :
             IF ~r.ok THEN r
             ELSE Then(bwrite_sector([r EXCEPT !.buf[c % PER_SEC] = next], s), LAMBDA w :
                  IF w.ok THEN bwrite_sector(w, s + TBL_SECTORS) ELSE w))

RECURSIVE cluster_free_chain(_, _)
cluster_free_chain(v, c) ==
    IF ~cluster_is_valid(c) THEN v
    ELSE Then(cluster_get_next(v, c), LAMBDA n :
              cluster_free_chain(cluster_set_next(n, c, FREE), n.ret))

\* What is left of an allocation that failed is given back.
GivesUp(v, start) == Returns(cluster_free_chain(v, start), INVALID)

\* The loop of cluster_alloc_free from curr on, cnt clusters still to be found.
RECURSIVE AllocFrom(_, _, _, _, _)
AllocFrom(v, curr, cnt, pre, start) ==
    IF cnt = 0 THEN Then(cluster_set_next(v, pre, INVALID), LAMBDA w :
                         IF w.ok THEN Returns(w, start) ELSE GivesUp(w, start))
    ELSE IF curr >= TABLE_END THEN GivesUp(v, start)
    ELSE Then(cluster_get_next(v, curr), LAMBDA g :
         LET first == IF start = INVALID THEN curr ELSE start
         IN  IF g.ret # FREE THEN AllocFrom(g, curr + 1, cnt, pre, start)
             ELSE Then(IF pre = INVALID THEN Ok(g) ELSE cluster_set_next(g, pre, curr), LAMBDA w :
                       IF w.ok THEN AllocFrom(w, curr + 1, cnt - 1, curr, first)
                               ELSE GivesUp(w, first)))

cluster_alloc_free(v, cnt) == AllocFrom(v, 2, cnt, INVALID, INVALID)

(***************************************************************************)
(* The root directory.                                                     *)
(***************************************************************************)
ItemSector(i) == ROOT_START + i \div DIR_PER_SEC

\* read_dir_entry leaves the sector of item i in the buffer; v.ok = FALSE for
\* the null pointer.
read_dir_entry(v, i) ==
    IF i \notin 0 .. ROOT_ENT - 1 THEN Fail(v) ELSE bread_sector(v, ItemSector(i))
ItemOf(v, i) == v.buf[i % DIR_PER_SEC]

write_dir_entry(v, i, item) ==
    Then(read_dir_entry(v, i), LAMBDA r :
         IF r.ok THEN bwrite_sector([r EXCEPT !.buf[i % DIR_PER_SEC] = item], ItemSector(i)) ELSE r)

\* diritem_init: a new item has no cluster; the one unlink writes is all zero.
diritem_init(name) == [name |-> name, sblk |-> INVALID, size |-> 0]
ZeroItem == [name |-> End, sblk |-> 0, size |-> 0]

\* The scan of fatfs_open and fatfs_unlink for a name: ret is the item found
\* (ok), else the place for a new one, the end or the last free item (-1: none).
RECURSIVE FindFrom(_, _, _, _)
FindFrom(v, i, name, place) ==
    IF i = ROOT_ENT THEN Fail(Returns(v, place))
    ELSE Then(read_dir_entry(v, i), LAMBDA r :
         LET found == ItemOf(r, i).name
         IN  IF ~r.ok THEN Returns(r, -1)
             ELSE IF found = End THEN Fail(Returns(r, i))
             ELSE IF found = name THEN Ok(Returns(r, i))
             ELSE FindFrom(r, i + 1, name, IF found = Free THEN i ELSE place))

Find(v, name) == FindFrom(v, 0, name, -1)

\* Mutant: a free item ends the listing like the end mark.
fatfs_readdir_StopsAtFree(v, i) ==
    Then(read_dir_entry(v, i), LAMBDA r :
         IF ~r.ok \/ ItemOf(r, i).name \in {Free, End} THEN Fail(r) ELSE Ok(Returns(r, i)))

\* fatfs_readdir from dir->index = i: ret is the index of the item shown.
RECURSIVE fatfs_readdir(_, _)
fatfs_readdir(v, i) ==
    IF i >= ROOT_ENT THEN Fail(v)
    ELSE Then(read_dir_entry(v, i), LAMBDA r :
         LET shown == ItemOf(r, i).name
         IN  IF ~r.ok \/ shown = End THEN Fail(r)
             ELSE IF shown = Free THEN fatfs_readdir(r, i + 1)
             ELSE Ok(Returns(r, i)))
=============================================================================

------------------------------- MODULE FatFs --------------------------------
(***************************************************************************)
(* The files of the FAT16 volume: fatfs_open, read, write, seek, close,    *)
(* readdir and unlink, each called by kernel/fs/fs.c between fs_protect    *)
(* and fs_unprotect, so that a call is one action.                         *)
(*                                                                         *)
(* A call may meet transfers that fail (Faults).  What programs do is      *)
(* restricted unless Habits allows more:                                   *)
(*   "overwrite"  write elsewhere than at the end of the file (fatfs.c:571 *)
(*                rules it out in so many words)                           *)
(*   "inside"     unlink another item than the last of the directory       *)
(*   "share"      open or unlink a file that somebody has open to write    *)
(* Nobody seeks behind the end of a file.                                  *)
(***************************************************************************)
EXTENDS FatVolume, Functions

CONSTANTS Handles,   \* the entries of the table of open files that are used
          Modes,     \* flags of sys_open, as sets
          Habits,    \* see above
          Faults,    \* the sets of transfers <<"read"/"write", sector>> that may fail in one call
          Lengths,   \* lengths of reads and writes
          MaxSize,   \* bound on the size of a file
          MaxOpens,  \* bound on the calls of sys_open
          Bad,       \* the clusters marked as bad
          OnDisk     \* the directory at the start: a sequence of [name, chain, size]

ASSUME FatFsAssumption ==
    /\ Modes \subseteq SUBSET {"WRONLY", "RDWR", "CREAT", "TRUNC"}
    /\ Habits \subseteq {"overwrite", "inside", "share"}
    /\ Lengths \subseteq Nat \ {0} /\ MaxSize \in Nat
    /\ Len(OnDisk) <= ROOT_ENT /\ {} \in Faults
    /\ \A i \in DOMAIN OnDisk :
          /\ OnDisk[i].name \in Names \cup {Free}
          /\ OnDisk[i].chain \in Seq(Clusters)
          /\ OnDisk[i].size <= CLUSTER * Len(OnDisk[i].chain)

VARIABLES vol,   \* the volume; ok, ret, bytes, file and bad are reset between calls
          file,  \* the file_t of each handle
          opensLeft

Closed == [name |-> End, mode |-> {}, size |-> 0, pos |-> 0, sblk |-> INVALID,
           cblk |-> INVALID, p_index |-> -1]

IsOpen(h) == file[h] # Closed
Writable(f) == f.mode # {}              \* sys_write: mode == O_RDONLY is refused
Readable(f) == f.mode # {"WRONLY"}      \* sys_read: mode == O_WRONLY is refused

(***************************************************************************)
(* After fatfs_mount: nothing is in the buffer (curr_sector = -1) and the  *)
(* geometry of the boot record is taken over.                              *)
(***************************************************************************)
Chains == [c \in 0 .. TABLE_END - 1 |->
    {x \in (DOMAIN OnDisk) \X (1 .. TABLE_END) :
        x[2] <= Len(OnDisk[x[1]].chain) /\ OnDisk[x[1]].chain[x[2]] = c}]

StartEntry(c) ==
    IF Chains[c] = {} THEN (IF c \in Clusters \ Bad THEN FREE ELSE BAD_MARK)
    ELSE LET at == CHOOSE x \in Chains[c] : TRUE
             chain == OnDisk[at[1]].chain
         IN  IF at[2] < Len(chain) THEN chain[at[2] + 1] ELSE LINUX_END

StartItem(i) ==
    IF i \notin DOMAIN OnDisk THEN ZeroItem
    ELSE [name |-> OnDisk[i].name, size |-> OnDisk[i].size,
          sblk |-> IF OnDisk[i].chain = <<>> THEN 0 ELSE OnDisk[i].chain[1]]

StartData(c) ==
    [o \in 0 .. CLUSTER - 1 |->
        IF Chains[c] = {} THEN Blank
        ELSE LET at == CHOOSE x \in Chains[c] : TRUE
             IN  <<OnDisk[at[1]].name, (at[2] - 1) * CLUSTER + o>>]

fatfs_mount ==
    [disk |-> [s \in Sectors |->
        IF s \in TableSectors
        THEN [o \in 0 .. PER_SEC - 1 |->
                 StartEntry(((s - TBL_START) % TBL_SECTORS) * PER_SEC + o)]
        ELSE IF s \in RootSectors
        THEN [o \in 0 .. DIR_PER_SEC - 1 |-> StartItem((s - ROOT_START) * DIR_PER_SEC + o + 1)]
        ELSE StartData(s - DATA_START + 2)],
     cur |-> -1, buf |-> <<>>, hurt |-> FALSE,
     bad |-> {}, ok |-> TRUE, ret |-> 0, bytes |-> <<>>, file |-> Closed]

FatInit ==
    /\ vol = fatfs_mount
    /\ file = [h \in Handles |-> Closed]
    /\ opensLeft = MaxOpens

\* A call on handle h with the given transfers failing: its start and its end.
\* What a free cluster holds is forgotten: Blank is never the byte expected.
Begins(bad, h) == [vol EXCEPT !.bad = bad, !.file = file[h]]
Entry(v, c) == v.disk[TBL_START + c \div PER_SEC][c % PER_SEC]
Forgotten(disk, v) == [s \in Sectors |->
    IF s >= DATA_START /\ Entry(v, s - DATA_START + 2) = FREE
    THEN [o \in 0 .. CLUSTER - 1 |-> Blank] ELSE disk[s]]
Finished(v) == [v EXCEPT !.disk = Forgotten(@, v), !.bad = {}, !.ok = TRUE, !.ret = 0,
                         !.bytes = <<>>, !.file = Closed]
Ends(v, h, f) == vol' = Finished(v) /\ file' = [file EXCEPT ![h] = f]
Keeps(v, h) == Ends(v, h, v.file)
Opens(v, h) == Ends(v, h, IF v.ok THEN v.file ELSE Closed)

(***************************************************************************)
(* Growing a file and moving in it.                                        *)
(***************************************************************************)
CeilDiv(n, d) == (n + d - 1) \div d

\* The clusters to add for inc more bytes, 0 if the last one has room.
ClustersFor(size, inc) ==
    LET cfree == CLUSTER - (size % CLUSTER)
        more == CeilDiv(inc - cfree, CLUSTER)
    IN  IF size % CLUSTER = 0 THEN CeilDiv(inc, CLUSTER)
        ELSE IF cfree > inc THEN 0
        ELSE IF more = 0 THEN 1 ELSE more

\* The new clusters are linked behind cblk, which is taken for the last one.
expand_file(v, inc) ==
    IF ClustersFor(v.file.size, inc) = 0 THEN Ok(v)
    ELSE Then(cluster_alloc_free(v, ClustersFor(v.file.size, inc)), LAMBDA a :
         IF ~cluster_is_valid(a.ret) THEN Fail(a)
         ELSE IF ~cluster_is_valid(a.file.sblk)
              THEN Ok([a EXCEPT !.file.sblk = a.ret, !.file.cblk = a.ret])
         ELSE cluster_set_next(a, a.file.cblk, a.ret))

\* Mutant: a move to the very end of a cluster stays in it.
move_file_pos_StaysAtEnd(v, n, expand) ==
    IF (v.file.pos % CLUSTER) + n <= CLUSTER THEN Ok([v EXCEPT !.file.pos = @ + n])
    ELSE Then(cluster_get_next(v, v.file.cblk), LAMBDA g :
         Then(IF g.ret = INVALID /\ expand THEN expand_file(g, CLUSTER) ELSE Ok(g), LAMBDA e :
         IF ~e.ok THEN e
         ELSE Then(cluster_get_next(e, e.file.cblk), LAMBDA m :
              Ok([m EXCEPT !.file.cblk = m.ret, !.file.pos = @ + n]))))

move_file_pos(v, n, expand) ==
    IF (v.file.pos % CLUSTER) + n < CLUSTER THEN Ok([v EXCEPT !.file.pos = @ + n])
    ELSE Then(cluster_get_next(v, v.file.cblk), LAMBDA g :
         Then(IF g.ret = INVALID /\ expand THEN expand_file(g, CLUSTER) ELSE Ok(g), LAMBDA e :
         IF ~e.ok THEN e
         ELSE Then(cluster_get_next(e, e.file.cblk), LAMBDA m :
              Ok([m EXCEPT !.file.cblk = m.ret, !.file.pos = @ + n]))))

\* The part of the next n bytes that lies in the current cluster.
InCluster(f, n) == IF (f.pos % CLUSTER) + n > CLUSTER THEN CLUSTER - (f.pos % CLUSTER) ELSE n
WholeCluster(f, n) == f.pos % CLUSTER = 0 /\ n = CLUSTER
Place(f) == DataSector(f.cblk)

(***************************************************************************)
(* Reading and writing.  A whole cluster goes past fat_buffer, a part of   *)
(* one through it: a read leaves the data's own sector number in           *)
(* curr_sector, a write -1.                                                *)
(***************************************************************************)
RECURSIVE ReadLoop(_, _)
ReadLoop(v, n) ==
    LET f == v.file
        k == InCluster(f, n)
        Got(r) == [r EXCEPT !.bytes = @ \o [i \in 1 .. k |-> r.buf[(f.pos % CLUSTER) + i - 1]],
                            !.buf = IF WholeCluster(f, n) THEN v.buf ELSE @,
                            !.cur = IF WholeCluster(f, n) THEN @ ELSE Place(f)]
    IN  IF n = 0 THEN v
        ELSE Then(move_file_pos(Got(Fetch(v, Place(f))), k, FALSE), LAMBDA m :
                  IF m.ok THEN ReadLoop(m, n - k) ELSE m)

fatfs_read(v, size) ==
    ReadLoop(v, IF v.file.pos + size > v.file.size THEN v.file.size - v.file.pos ELSE size)

RECURSIVE WriteLoop(_, _)
WriteLoop(v, n) ==
    LET f == v.file
        k == InCluster(f, n)
        off == f.pos % CLUSTER
        new == [i \in 0 .. CLUSTER - 1 |-> <<f.name, f.pos - off + i>>]
        Filled(r) == [r EXCEPT !.buf = [i \in DOMAIN new |->
                         IF i \in off .. off + k - 1 THEN new[i] ELSE r.buf[i]]]
        w == IF WholeCluster(f, n)
             THEN [Store([v EXCEPT !.buf = new], Place(f)) EXCEPT !.buf = v.buf]
             ELSE Store(Filled(Fetch([v EXCEPT !.cur = -1], Place(f))), Place(f))
    IN  IF n = 0 THEN v
        ELSE Then(move_file_pos([w EXCEPT !.file.size = @ + k], k, TRUE), LAMBDA m :
                  IF m.ok THEN WriteLoop(m, n - k) ELSE m)

fatfs_write(v, size) ==
    LET inc == v.file.pos + size - v.file.size
    IN  Then(IF inc > 0 THEN expand_file(v, inc) ELSE Ok(v), LAMBDA e :
             IF e.ok THEN WriteLoop(e, size) ELSE e)

\* fatfs_seek: from the start of the file through the chain, c the cluster reached.
RECURSIVE SeekFrom(_, _, _, _)
SeekFrom(v, c, pos, left) ==
    IF left < CLUSTER THEN Ok([v EXCEPT !.file.pos = pos + left, !.file.cblk = c])
    ELSE Then(cluster_get_next(v, c), LAMBDA g :
         IF cluster_is_valid(g.ret) THEN SeekFrom(g, g.ret, pos + CLUSTER, left - CLUSTER)
                                    ELSE Fail(g))

fatfs_seek(v, offset) == SeekFrom(v, v.file.sblk, 0, offset)

(***************************************************************************)
(* Opening, closing and unlinking.                                         *)
(***************************************************************************)
read_from_diritem(v, item, i) ==
    [v EXCEPT !.file = [@ EXCEPT !.size = item.size, !.pos = 0, !.sblk = item.sblk,
                                 !.cblk = item.sblk, !.p_index = i]]

\* Mutant: the chain is freed but the file still starts with it.
Truncated_KeepsStart(v) ==
    [cluster_free_chain(v, v.file.sblk) EXCEPT !.file.size = 0, !.ok = TRUE]

Truncated(v) ==
    [cluster_free_chain(v, v.file.sblk) EXCEPT
        !.file = [@ EXCEPT !.sblk = INVALID, !.cblk = INVALID, !.size = 0], !.ok = TRUE]

fatfs_open(v, name) ==
    Then(Find(v, name), LAMBDA f :
         LET found == read_from_diritem(f, ItemOf(f, f.ret), f.ret)
         IN  IF f.ok THEN (IF "TRUNC" \in v.file.mode THEN Truncated(found) ELSE found)
             ELSE IF "CREAT" \in v.file.mode /\ f.ret >= 0
             THEN Then(write_dir_entry(f, f.ret, diritem_init(name)), LAMBDA made :
                       IF made.ok THEN read_from_diritem(made, diritem_init(name), f.ret) ELSE made)
             ELSE f)

fatfs_close(v) ==
    IF v.file.mode = {} THEN v
    ELSE Then(read_dir_entry(v, v.file.p_index), LAMBDA r :
         IF ~r.ok THEN r
         ELSE write_dir_entry(r, v.file.p_index,
                  [ItemOf(r, v.file.p_index) EXCEPT !.size = v.file.size, !.sblk = v.file.sblk]))

fatfs_unlink(v, name) ==
    Then(Find(v, name), LAMBDA f :
         IF f.ok THEN write_dir_entry(cluster_free_chain(f, ItemOf(f, f.ret).sblk), f.ret, ZeroItem)
                 ELSE f)

(***************************************************************************)
(* The calls.                                                              *)
(***************************************************************************)
OpenOn(name) == {h \in Handles : IsOpen(h) /\ file[h].name = name}
Quiet(name) == \A h \in OpenOn(name) : ~Writable(file[h])

sys_open(h, name, mode, bad) ==
    /\ ~IsOpen(h) /\ opensLeft > 0
    /\ opensLeft' = opensLeft - 1
    /\ "share" \in Habits \/ OpenOn(name) = {} \/ (Quiet(name) /\ mode = {})
    /\ Opens(fatfs_open([Begins(bad, h) EXCEPT !.file = [@ EXCEPT !.name = name, !.mode = mode]],
                        name), h)

sys_read(h, n, bad) ==
    /\ IsOpen(h) /\ Readable(file[h])
    /\ Keeps(fatfs_read(Begins(bad, h), n), h)
    /\ UNCHANGED opensLeft

sys_write(h, n, bad) ==
    /\ IsOpen(h) /\ Writable(file[h])
    /\ "overwrite" \in Habits \/ file[h].pos = file[h].size
    /\ file[h].size + n <= MaxSize
    /\ Keeps(fatfs_write(Begins(bad, h), n), h)
    /\ UNCHANGED opensLeft

sys_lseek(h, offset, bad) ==
    /\ IsOpen(h)
    /\ offset <= file[h].size
    /\ Keeps(fatfs_seek(Begins(bad, h), offset), h)
    /\ UNCHANGED opensLeft

sys_close(h, bad) ==
    /\ IsOpen(h)
    /\ Ends(fatfs_close(Begins(bad, h)), h, Closed)
    /\ UNCHANGED opensLeft

\* The directory item of index i as it is on the disk.
Item(i) == vol.disk[ItemSector(i)][i % DIR_PER_SEC]
Items == 0 .. ROOT_ENT - 1

sys_unlink(name, bad) ==
    /\ "share" \in Habits \/ OpenOn(name) = {}
    /\ "inside" \in Habits \/ \A i \in Items : Item(i).name = name =>
                                 \A j \in Items : j > i => Item(j).name \in {Free, End}
    /\ vol' = Finished(fatfs_unlink([vol EXCEPT !.bad = bad], name))
    /\ UNCHANGED <<file, opensLeft>>

\* dir->index is the caller's.
sys_readdir(i, bad) ==
    /\ vol' = Finished(fatfs_readdir([vol EXCEPT !.bad = bad], i))
    /\ UNCHANGED <<file, opensLeft>>

\* One call meets a fault (bound); a call that only reads, a read that fails.
May == IF vol.hurt THEN {{}} ELSE Faults
MayRead == {{}} \cup {bad \in May : \E x \in bad : x[1] = "read"}

FatNext ==
    \/ \E h \in Handles, bad \in May :
          \/ \E name \in Names, mode \in Modes : sys_open(h, name, mode, bad)
          \/ \E n \in Lengths : sys_write(h, n, bad)
          \/ sys_close(h, bad)
    \/ \E h \in Handles, bad \in MayRead :
          \/ \E n \in Lengths : sys_read(h, n, bad)
          \/ \E offset \in 0 .. MaxSize : sys_lseek(h, offset, bad)
    \/ \E name \in Names, bad \in May : sys_unlink(name, bad)
    \/ \E i \in Items, bad \in MayRead : sys_readdir(i, bad)

FatSpec == FatInit /\ [][FatNext]_<<vol, file, opensLeft>>

(***************************************************************************)
(* What the volume holds, read off the first table on the disk.            *)
(***************************************************************************)
Next1(c) == Entry(vol, c)

\* The clusters reached from c, at most one more than there are.
ChainOf(c) ==
    LET upto[k \in 0 .. TABLE_END] ==
            IF k = 0 THEN <<>>
            ELSE LET s == upto[k - 1]
                     n == IF s = <<>> THEN c ELSE Next1(s[Len(s)])
                 IN  IF n \in Clusters /\ Len(s) = k - 1 THEN Append(s, n) ELSE s
    IN  upto[TABLE_END]

\* A file is owned by the handle that writes it, else by its directory item.
NamedItems == {i \in Items : Item(i).name \in Names}
Writers == {h \in Handles : IsOpen(h) /\ Writable(file[h])}
Owners == {<<"handle", h>> : h \in Writers}
    \cup {<<"item", i>> : i \in {j \in NamedItems : \A h \in Writers : file[h].p_index # j}}
OwnerStart(o) == IF o[1] = "handle" THEN file[o[2]].sblk ELSE Item(o[2]).sblk
OwnerSize(o) == IF o[1] = "handle" THEN file[o[2]].size ELSE Item(o[2]).size

(***************************************************************************)
(* Properties.                                                             *)
(***************************************************************************)
\* The types; the position of an open file is within it.
FatTypeOK ==
    /\ \A s \in TableSectors : vol.disk[s] \in [0 .. PER_SEC - 1 -> 0 .. LINUX_END]
    /\ \A s \in RootSectors : vol.disk[s] \in [0 .. DIR_PER_SEC - 1 -> DirItem]
    /\ vol.cur \in Sectors \cup {-1}
    /\ \A h \in Handles : IsOpen(h) =>
          /\ file[h].name \in Names /\ file[h].p_index \in Items
          /\ 0 <= file[h].pos /\ file[h].pos <= file[h].size

\* No two files share a cluster, no cluster of a file is free, and every file's
\* chain is long enough for its size and ends.
ChainsDisjoint ==
    /\ FatTypeOK
    /\ LET chain == [o \in Owners |-> ChainOf(OwnerStart(o))]
           clusters == [o \in Owners |-> Range(chain[o])]
       IN  /\ \A o \in Owners :
                 /\ \A c \in clusters[o] : Next1(c) # FREE
                 /\ Len(chain[o]) = Cardinality(clusters[o])
                 /\ OwnerSize(o) <= CLUSTER * Len(chain[o])
           /\ \A o, p \in Owners : o # p => clusters[o] \cap clusters[p] = {}

\* Until a transfer fails the two tables are equal, and what the driver has in
\* its buffer is the sector it takes it for.
TablesAndBufferAgree ==
    ~vol.hurt =>
        /\ \A s \in TBL_START .. TBL_START + TBL_SECTORS - 1 :
              vol.disk[s] = vol.disk[s + TBL_SECTORS]
        /\ vol.cur \in TableSectors \cup RootSectors => vol.buf = vol.disk[vol.cur]

\* A read, on any handle and wherever it stands, returns what was written to
\* that file at that position.
ReadsWhatWasWritten ==
    \A h \in Handles, n \in Lengths :
        IsOpen(h) =>
            LET f == file[h]
                k == IF f.pos + n > f.size THEN f.size - f.pos ELSE n
            IN  fatfs_read([vol EXCEPT !.file = f], n).bytes
                    = [i \in 1 .. k |-> <<f.name, f.pos + i - 1>>]

\* The listing and the search agree with the directory: the calls of readdir one
\* after the other show every file, open finds it there, and no file lies
\* behind the end mark where neither would look.
RECURSIVE ListedFrom(_)
ListedFrom(i) ==
    Then(fatfs_readdir(vol, i), LAMBDA r :
         IF r.ok THEN <<r.ret>> \o ListedFrom(r.ret + 1) ELSE <<>>)

ListingAgrees ==
    LET listed == ListedFrom(0)
        Found(f) == IF f.ok THEN {f.ret} ELSE {}
    IN  \A name \in Names :
           LET at == {i \in Items : Item(i).name = name}
           IN  /\ {listed[k] : k \in {l \in DOMAIN listed : Item(listed[l]).name = name}} = at
               /\ Found(Find(vol, name)) = at

\* fatfs.c:180: when a write needs more clusters, the current cluster is the
\* last one of the chain.  Else the clusters behind it are lost.
ExpandsAtTheLastCluster ==
    \A h \in Writers, n \in Lengths :
        /\ file[h].pos = file[h].size /\ cluster_is_valid(file[h].cblk)
        /\ ClustersFor(file[h].size, n) > 0
        => ~cluster_is_valid(Next1(file[h].cblk))
=============================================================================

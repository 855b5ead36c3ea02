------------------------------ MODULE MCFatFs -------------------------------
(***************************************************************************)
(* A small volume: two table sectors of three entries, hence clusters 2 to *)
(* 5 of two bytes, of which 4 is bad; one directory sector of three items, *)
(* with a file written by another system behind a free item.               *)
(***************************************************************************)
EXTENDS FatFs, TLC

CONSTANTS f1, f2, h1, h2

Sym == Permutations({h1, h2})

MCNames == {f1, f2}
MCModes == {{}, {"RDWR"}, {"WRONLY", "CREAT", "TRUNC"}}
MCOnDisk == << [name |-> Free, chain |-> <<>>, size |-> 0],
               [name |-> f1, chain |-> <<5, 2>>, size |-> 3] >>

\* One table sector of the first copy or one of the second cannot be written.
MCFaults == {{}} \cup {{<<"write", s>>} : s \in {TBL_START, TBL_START + TBL_SECTORS + 1}}

MCView == <<[vol EXCEPT !.buf = IF vol.cur \in TableSectors \cup RootSectors THEN @ ELSE <<>>,
                        !.cur = IF @ \in TableSectors \cup RootSectors THEN @ ELSE -1], file, opensLeft>>
=============================================================================

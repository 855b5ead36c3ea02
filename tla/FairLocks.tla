----------------------------- MODULE FairLocks ------------------------------
(***************************************************************************)
(* What the mutexes promise.  The users of a lock stand in line; the first *)
(* one holds the lock, and the others get it in the order in which they    *)
(* came.  How often the holder has locked it again is of no concern to the *)
(* others.                                                                 *)
(***************************************************************************)
EXTENDS Naturals, Sequences

CONSTANTS Users, Locks

VARIABLE line

Init == line = [k \in Locks |-> <<>>]

Join(u, k) ==
    /\ u \notin {line[k][i] : i \in 1 .. Len(line[k])}
    /\ line' = [line EXCEPT ![k] = Append(@, u)]

Leave(k) ==
    /\ line[k] # <<>>
    /\ line' = [line EXCEPT ![k] = Tail(@)]

Next == \E k \in Locks : (\E u \in Users : Join(u, k)) \/ Leave(k)

Spec == Init /\ [][Next]_line

=============================================================================

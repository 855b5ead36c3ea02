------------------------------ MODULE MCMemory ------------------------------
(* Address spaces on a small instance for TLC: first_task and two slots, *)
(* pages of two bytes, three entries per table, six user pages.          *)
EXTENDS AddressSpace, TLC

CONSTANTS first, s1, s2, none, kernel

MCTasks == {first, s1, s2}
SlotSymmetry == Permutations({s1, s2})
MCFrames == 1 .. 44
MCStack == [at |-> 16, size |-> 2]
MCPrograms == { <<[at |-> 8, size |-> 3]>>,
                <<[at |-> 6, size |-> 1], [at |-> 8, size |-> 4]>> }

\* While every frame has one owner, states that differ in the numbers of the
\* frames only have the same future: what counts is what each directory maps.
Shape(d) == IF d = None THEN {} ELSE Present(d) \cup {i \in UserEntries : content[d][i] # None}
MemView == <<MemTypeOK, FramesOwnedOnce, FramesAccounted, Cardinality(used),
             [t \in Tasks |-> <<dir[t] = None, Shape(dir[t]), new[t] = None, Shape(new[t])>>],
             alive, dead, heapEnd, pc, todo, segs, loaded, end, child, forksLeft>>

=============================================================================

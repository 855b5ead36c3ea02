---------------------------- MODULE SemTheorems -----------------------------
(***************************************************************************)
(* What the operations of a semaphore do to who is suspended, for any      *)
(* number of tasks and semaphores: the lemmas the proofs about the drivers *)
(* rest on.                                                                *)
(***************************************************************************)
EXTENDS Semaphores, ListTheorems

\* A task waits for one semaphore at a time, and once.
SemsOK ==
    /\ tokens \in [Sems -> Nat]
    /\ waiting \in [Sems -> Seq(Users)]
    /\ \A s \in Sems : Distinct(waiting[s])
    /\ \A s, r \in Sems : \A u \in Nodes(waiting[s]) : u \in Nodes(waiting[r]) => s = r

(* Only tasks are suspended. *)
LEMMA SuspendedIsUser ==
    ASSUME SemsOK, NEW u, Suspended(u)
    PROVE  u \in Users
<1>1. PICK s \in Sems : u \in Nodes(waiting[s])
    BY DEF Suspended
<1>2. waiting[s] \in Seq(Users)
    BY DEF SemsOK
<1>. QED
    BY <1>1, <1>2, NodesOfSeq

(* With all semaphores as they were, the same tasks are suspended. *)
LEMMA SameSems ==
    ASSUME SemsOK, UNCHANGED semVars
    PROVE  /\ SemsOK'
           /\ \A u : Suspended(u)' <=> Suspended(u)
    BY DEF SemsOK, semVars, Suspended

(* Taking a token suspends nobody. *)
LEMMA TakeSuspendsNobody ==
    ASSUME SemsOK, NEW s \in Sems, NEW t \in Users, Take(s, t)
    PROVE  /\ SemsOK'
           /\ \A u : Suspended(u)' <=> Suspended(u)
           /\ tokens[s] \in Nat \ {0}
           /\ tokens' = [tokens EXCEPT ![s] = tokens[s] - 1]
           /\ waiting' = waiting
<1>1. tokens' \in [Sems -> Nat] /\ waiting' = waiting
    BY DEF SemsOK, Take
<1>2. SemsOK'
    BY <1>1 DEF SemsOK
<1>. QED
    BY <1>1, <1>2 DEF Take, SemsOK, Suspended, Nodes

(* Queueing suspends the caller and nobody else. *)
LEMMA QueueSuspends ==
    ASSUME SemsOK, NEW s \in Sems, NEW t \in Users, Queue(s, t)
    PROVE  /\ SemsOK'
           /\ Suspended(t)'
           /\ \A u : u # t => (Suspended(u)' <=> Suspended(u))
           /\ tokens[s] = 0
           /\ tokens' = tokens
           /\ Nodes(waiting'[s]) = Nodes(waiting[s]) \cup {t}
           /\ \A r \in Sems : r # s => waiting'[r] = waiting[r]
<1>1. /\ tokens' = tokens /\ tokens[s] = 0
      /\ waiting' = [waiting EXCEPT ![s] = list_insert_last(waiting[s], t)]
      /\ \A r \in Sems : t \notin Nodes(waiting[r])
    BY DEF Queue, Suspended
<1>2. /\ waiting'[s] = list_insert_last(waiting[s], t)
      /\ \A r \in Sems : r # s => waiting'[r] = waiting[r]
    BY <1>1 DEF SemsOK
<1>3. waiting[s] \in Seq(Users) /\ Distinct(waiting[s])
    BY DEF SemsOK
<1>4. /\ waiting'[s] \in Seq(Users)
      /\ Nodes(waiting'[s]) = Nodes(waiting[s]) \cup {t}
      /\ Distinct(waiting'[s])
    <2>1. t \notin Nodes(waiting[s])
        BY <1>1
    <2>2. /\ list_insert_last(waiting[s], t) \in Seq(Users)
          /\ Nodes(list_insert_last(waiting[s], t)) = Nodes(waiting[s]) \cup {t}
        BY <1>3, InsertLast
    <2>3. Distinct(list_insert_last(waiting[s], t))
        BY <1>3, <2>1, InsertLastDistinct
    <2>. QED
        BY <1>2, <2>2, <2>3
<1>5. waiting' \in [Sems -> Seq(Users)]
    BY <1>1, <1>4 DEF SemsOK
<1>6. \A r \in Sems : \A u : u \in Nodes(waiting'[r]) <=> u \in Nodes(waiting[r]) \/ (r = s /\ u = t)
    BY <1>2, <1>4
<1>7. \A r \in Sems : Distinct(waiting'[r])
    BY <1>2, <1>4 DEF SemsOK
<1>8. \A q, r \in Sems : \A u \in Nodes(waiting'[q]) : u \in Nodes(waiting'[r]) => q = r
    BY <1>1, <1>6 DEF SemsOK
<1>9. SemsOK'
    BY <1>1, <1>5, <1>7, <1>8 DEF SemsOK
<1>. QED
    BY <1>1, <1>2, <1>4, <1>6, <1>9 DEF Suspended

(* A token posted with nobody waiting is kept. *)
LEMMA PostKeepsToken ==
    ASSUME SemsOK, NEW s \in Sems, Post(s), waiting[s] = <<>>
    PROVE  /\ SemsOK'
           /\ \A u : Suspended(u)' <=> Suspended(u)
           /\ tokens' = [tokens EXCEPT ![s] = tokens[s] + 1]
           /\ waiting' = waiting
<1>1. tokens' \in [Sems -> Nat] /\ waiting' = waiting
    BY SMTT(30) DEF SemsOK, Post
<1>2. SemsOK'
    BY <1>1 DEF SemsOK
<1>. QED
    BY <1>1, <1>2 DEF Post, SemsOK, Suspended, Nodes

(* A token posted while somebody waits wakes the first one, and nobody else. *)
LEMMA PostWakesFirst ==
    ASSUME SemsOK, NEW s \in Sems, Post(s), waiting[s] # <<>>,
           NEW w, w = list_first(waiting[s])
    PROVE  /\ SemsOK'
           /\ w \in Users
           /\ w \in Nodes(waiting[s])
           /\ ~Suspended(w)'
           /\ \A u : u # w => (Suspended(u)' <=> Suspended(u))
           /\ tokens' = tokens
           /\ Nodes(waiting'[s]) = Nodes(waiting[s]) \ {w}
           /\ \A r \in Sems : r # s => waiting'[r] = waiting[r]
<1>1. /\ tokens' = tokens
      /\ waiting' = [waiting EXCEPT ![s] = list_remove_first(waiting[s])]
    BY DEF Post
<1>2. /\ waiting'[s] = list_remove_first(waiting[s])
      /\ \A r \in Sems : r # s => waiting'[r] = waiting[r]
    BY <1>1 DEF SemsOK
<1>3. waiting[s] \in Seq(Users) /\ Distinct(waiting[s])
    BY DEF SemsOK
<1>4. w \in Nodes(waiting[s]) /\ list_remove_first(waiting[s]) = list_remove(waiting[s], w)
    BY <1>3, RemoveFirst
<1>5. /\ waiting'[s] \in Seq(Users)
      /\ Nodes(waiting'[s]) = Nodes(waiting[s]) \ {w}
      /\ Distinct(waiting'[s])
    BY <1>2, <1>3, <1>4, RemoveNode
<1>6. w \in Users
    BY <1>3, <1>4, NodesOfSeq
<1>7. waiting' \in [Sems -> Seq(Users)]
    BY <1>1, <1>2, <1>5 DEF SemsOK
<1>8. \A r \in Sems : \A u : u \in Nodes(waiting'[r]) <=> u \in Nodes(waiting[r]) /\ ~(r = s /\ u = w)
    BY <1>2, <1>5
<1>9. \A r \in Sems : Distinct(waiting'[r])
    BY <1>2, <1>5 DEF SemsOK
<1>10. \A r \in Sems : w \in Nodes(waiting[r]) => r = s
    BY <1>4 DEF SemsOK
<1>11. \A q, r \in Sems : \A u \in Nodes(waiting'[q]) : u \in Nodes(waiting'[r]) => q = r
    BY <1>8 DEF SemsOK
<1>12. SemsOK'
    BY <1>1, <1>7, <1>9, <1>11 DEF SemsOK
<1>13. \A r \in Sems : w \notin Nodes(waiting'[r])
    BY <1>8, <1>10
<1>. QED
    BY <1>1, <1>2, <1>4, <1>5, <1>6, <1>8, <1>12, <1>13 DEF Suspended

=============================================================================

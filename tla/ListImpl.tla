------------------------------ MODULE ListImpl ------------------------------
(***************************************************************************)
(* The doubly linked lists of kernel/tools/list.c with their pointers,     *)
(* beside the sequences that TaskList takes them for: `contents' is what   *)
(* a list should hold, and no step reads it but to say which node a caller *)
(* may pass.  A node is embedded in a task or a file system once for every *)
(* list it may be on, so it is on one list at a time.                      *)
(***************************************************************************)
EXTENDS TaskList

CONSTANTS Lists,    \* the lists that share these nodes
          Links,    \* the nodes
          Null

ASSUME ListAssumption == Null \notin Links

VARIABLES first, last, count,   \* of each list
          pre, next,            \* of each node
          contents              \* what each list should hold

listVars == <<first, last, count, pre, next, contents>>

\* The lists are static, so that they are zero before list_init.
ListsInit ==
    /\ first = [l \in Lists |-> Null]
    /\ last = [l \in Lists |-> Null]
    /\ count = [l \in Lists |-> 0]
    /\ pre = [n \in Links |-> Null]
    /\ next = [n \in Links |-> Null]
    /\ contents = [l \in Lists |-> <<>>]

list_is_empty(l) == count[l] = 0

OnNoList(n) == \A l \in Lists : n \notin Nodes(contents[l])

\* list_init of a list nobody is on: a device opened again.  It leaves the
\* count as it is ("list->count - 0").
ListInit(l) ==
    /\ contents[l] = <<>>
    /\ first' = [first EXCEPT ![l] = Null]
    /\ last' = [last EXCEPT ![l] = Null]
    /\ UNCHANGED <<count, pre, next, contents>>

\* list_insert_first
LinkFirst(l, n) ==
    /\ OnNoList(n)
    /\ next' = [next EXCEPT ![n] = first[l]]
    /\ pre' = [m \in Links |-> IF m = n THEN Null
                               ELSE IF ~list_is_empty(l) /\ m = first[l] THEN n ELSE pre[m]]
    /\ first' = [first EXCEPT ![l] = n]
    /\ last' = [last EXCEPT ![l] = IF list_is_empty(l) THEN n ELSE @]
    /\ count' = [count EXCEPT ![l] = @ + 1]
    /\ contents' = [contents EXCEPT ![l] = list_insert_first(@, n)]

\* list_insert_last
LinkLast(l, n) ==
    /\ OnNoList(n)
    /\ pre' = [pre EXCEPT ![n] = last[l]]
    /\ next' = [m \in Links |-> IF m = n THEN Null
                                ELSE IF ~list_is_empty(l) /\ m = last[l] THEN n ELSE next[m]]
    /\ first' = [first EXCEPT ![l] = IF list_is_empty(l) THEN n ELSE @]
    /\ last' = [last EXCEPT ![l] = n]
    /\ count' = [count EXCEPT ![l] = @ + 1]
    /\ contents' = [contents EXCEPT ![l] = list_insert_last(@, n)]

\* list_remove_first, which changes nothing when the list is empty.
UnlinkFirst(l) ==
    LET node == first[l] IN
    /\ ~list_is_empty(l)
    /\ first' = [first EXCEPT ![l] = next[node]]
    /\ last' = [last EXCEPT ![l] = IF next[node] = Null THEN Null ELSE @]
    /\ pre' = [m \in Links |-> IF m \in {node, next[node]} THEN Null ELSE pre[m]]
    /\ next' = [next EXCEPT ![node] = Null]
    /\ count' = [count EXCEPT ![l] = @ - 1]
    /\ contents' = [contents EXCEPT ![l] = list_remove_first(@)]

\* Mutant: only the head of the list is looked after.
Unlink_KeepsLast(l, n) ==
    /\ n \in Nodes(contents[l])
    /\ first' = [first EXCEPT ![l] = IF n = @ THEN next[n] ELSE @]
    /\ next' = [m \in Links |-> IF m = n THEN Null ELSE IF m = pre[n] THEN next[n] ELSE next[m]]
    /\ pre' = [m \in Links |-> IF m = n THEN Null ELSE IF m = next[n] THEN pre[n] ELSE pre[m]]
    /\ count' = [count EXCEPT ![l] = @ - 1]
    /\ contents' = [contents EXCEPT ![l] = list_remove(@, n)]
    /\ UNCHANGED last

\* list_remove: the caller names the list its node is on.
Unlink(l, n) ==
    /\ n \in Nodes(contents[l])
    /\ first' = [first EXCEPT ![l] = IF n = @ THEN next[n] ELSE @]
    /\ last' = [last EXCEPT ![l] = IF n = @ THEN pre[n] ELSE @]
    /\ next' = [m \in Links |-> IF m = n THEN Null ELSE IF m = pre[n] THEN next[n] ELSE next[m]]
    /\ pre' = [m \in Links |-> IF m = n THEN Null ELSE IF m = next[n] THEN pre[n] ELSE pre[m]]
    /\ count' = [count EXCEPT ![l] = @ - 1]
    /\ contents' = [contents EXCEPT ![l] = list_remove(@, n)]

ListsNext ==
    \E l \in Lists :
        \/ ListInit(l) \/ UnlinkFirst(l)
        \/ \E n \in Links : LinkFirst(l, n) \/ LinkLast(l, n) \/ Unlink(l, n)

ListsSpec == ListsInit /\ [][ListsNext]_listVars

-----------------------------------------------------------------------------

\* The pointers from node to node of list l are those of sequence q.
Linked(l, q) ==
    /\ count[l] = Len(q)
    /\ first[l] = IF q = <<>> THEN Null ELSE q[1]
    /\ last[l] = IF q = <<>> THEN Null ELSE q[Len(q)]
    /\ \A i \in 1 .. Len(q) :
          /\ pre[q[i]] = IF i = 1 THEN Null ELSE q[i - 1]
          /\ next[q[i]] = IF i = Len(q) THEN Null ELSE q[i + 1]

\* Whatever is inserted and removed, at either end, in the middle or as the only
\* node, who follows the pointers of a list in either direction meets the nodes
\* it should hold, in their order, and their number is the count; a node that is
\* on no list points nowhere.
ListsLinked ==
    /\ \A l \in Lists : Linked(l, contents[l])
    /\ \A n \in Links : OnNoList(n) => pre[n] = Null /\ next[n] = Null
=============================================================================

------------------------------ MODULE TaskList ------------------------------
(***************************************************************************)
(* The doubly linked list of kernel/tools/list.c, seen as the sequence of  *)
(* the nodes from list->first to list->last.  Every queue of the kernel    *)
(* is one of these lists: the ready and sleep lists of the scheduler and   *)
(* the wait list of every semaphore and mutex.  A node stands for the task *)
(* it is embedded in (list_node_parent).                                   *)
(*                                                                         *)
(* list->count is Len of the sequence.  The operators are plain index      *)
(* functions, without recursion, so that the provers can expand them.      *)
(***************************************************************************)
EXTENDS Naturals, Sequences

\* The nodes that are on the list.
Nodes(q) == {q[i] : i \in 1 .. Len(q)}

\* The place of a node that is on the list.
Place(q, e) == CHOOSE i \in 1 .. Len(q) : q[i] = e

\* No node is linked twice.
Distinct(q) == \A i, j \in 1 .. Len(q) : q[i] = q[j] => i = j

-----------------------------------------------------------------------------

list_first(q) == q[1]

list_insert_first(q, e) == <<e>> \o q

list_insert_last(q, e) == Append(q, e)

list_remove_first(q) == [i \in 1 .. Len(q) - 1 |-> q[i + 1]]

\* Unlink a node wherever it is.  The callers only pass a node that is on
\* the list: the code reads no list head from the node and would corrupt the
\* count otherwise.
list_remove(q, e) ==
    [i \in 1 .. Len(q) - 1 |-> IF i < Place(q, e) THEN q[i] ELSE q[i + 1]]

=============================================================================

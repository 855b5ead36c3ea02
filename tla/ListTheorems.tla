---------------------------- MODULE ListTheorems ----------------------------
(***************************************************************************)
(* What the list operations of TaskList return, for lists of any length:   *)
(* the lemmas the proofs about the scheduler, the semaphores and the       *)
(* mutexes rest on.                                                        *)
(***************************************************************************)
EXTENDS TaskList, TLAPS

(* A node on a list has a place there. *)
LEMMA PlaceOfNode ==
    ASSUME NEW S, NEW q \in Seq(S), NEW e \in Nodes(q)
    PROVE  /\ Place(q, e) \in 1 .. Len(q)
           /\ q[Place(q, e)] = e
    BY DEF Place, Nodes

(* On a list that links no node twice the place is the only one. *)
LEMMA PlaceIsUnique ==
    ASSUME NEW S, NEW q \in Seq(S), Distinct(q), NEW i \in 1 .. Len(q)
    PROVE  Place(q, q[i]) = i
<1>1. q[i] \in Nodes(q)
    BY DEF Nodes
<1>. QED
    BY <1>1, PlaceOfNode DEF Distinct

(* The elements of a list are its nodes. *)
LEMMA NodesOfSeq ==
    ASSUME NEW S, NEW q \in Seq(S)
    PROVE  /\ Nodes(q) \subseteq S
           /\ \A i \in 1 .. Len(q) : q[i] \in Nodes(q) /\ q[i] \in S
           /\ q = <<>> <=> Nodes(q) = {}
           /\ Len(q) \in Nat
    BY DEF Nodes

(* list_insert_last adds one node, at the end, and moves no other. *)
LEMMA InsertLast ==
    ASSUME NEW S, NEW q \in Seq(S), NEW e \in S
    PROVE  /\ list_insert_last(q, e) \in Seq(S)
           /\ list_insert_last(q, e) # <<>>
           /\ Nodes(list_insert_last(q, e)) = Nodes(q) \cup {e}
    BY DEF list_insert_last, Nodes

LEMMA InsertLastElements ==
    ASSUME NEW S, NEW q \in Seq(S), NEW e \in S
    PROVE  /\ Len(list_insert_last(q, e)) = Len(q) + 1
           /\ \A i \in 1 .. Len(q) : list_insert_last(q, e)[i] = q[i]
           /\ list_insert_last(q, e)[Len(q) + 1] = e
    BY DEF list_insert_last

(* A node that was not on the list is not linked twice by it. *)
LEMMA InsertLastDistinct ==
    ASSUME NEW S, NEW q \in Seq(S), NEW e \in S, Distinct(q), e \notin Nodes(q)
    PROVE  Distinct(list_insert_last(q, e))
    BY DEF list_insert_last, Nodes, Distinct

(* list_insert_first puts a node in front of all others. *)
LEMMA InsertFirst ==
    ASSUME NEW S, NEW q \in Seq(S), NEW e \in S, Distinct(q), e \notin Nodes(q)
    PROVE  /\ list_insert_first(q, e) \in Seq(S)
           /\ Len(list_insert_first(q, e)) = Len(q) + 1
           /\ list_insert_first(q, e)[1] = e
           /\ \A i \in 1 .. Len(q) : list_insert_first(q, e)[i + 1] = q[i]
           /\ Nodes(list_insert_first(q, e)) = Nodes(q) \cup {e}
           /\ Distinct(list_insert_first(q, e))
<1>. DEFINE r == list_insert_first(q, e)
<1>1. /\ r \in Seq(S) /\ Len(r) = Len(q) + 1 /\ Len(q) \in Nat
      /\ r[1] = e
      /\ \A i \in 1 .. Len(q) : r[i + 1] = q[i]
    BY DEF list_insert_first
<1>. HIDE DEF r
<1>2. \A i \in 1 .. Len(r) : r[i] = IF i = 1 THEN e ELSE q[i - 1]
    <2>1. ASSUME NEW i \in 1 .. Len(r), i # 1 PROVE r[i] = q[i - 1]
        <3>1. i - 1 \in 1 .. Len(q) /\ (i - 1) + 1 = i
            BY <1>1, <2>1
        <3>. QED
            BY <1>1, <3>1
    <2>. QED
        BY <1>1, <2>1
<1>3. Nodes(r) = Nodes(q) \cup {e}
    <2>1. ASSUME NEW i \in 1 .. Len(r) PROVE r[i] \in Nodes(q) \cup {e}
        BY <1>1, <1>2 DEF Nodes
    <2>2. ASSUME NEW i \in 1 .. Len(q) PROVE q[i] \in Nodes(r)
        <3>1. i + 1 \in 1 .. Len(r) /\ r[i + 1] = q[i]
            BY <1>1
        <3>. QED
            BY <3>1 DEF Nodes
    <2>3. e \in Nodes(r)
        <3>1. 1 \in 1 .. Len(r) /\ r[1] = e
            BY <1>1
        <3>. QED
            BY <3>1 DEF Nodes
    <2>. QED
        BY <2>1, <2>2, <2>3 DEF Nodes
<1>4. Distinct(r)
    <2>1. ASSUME NEW i \in 1 .. Len(r), NEW j \in 1 .. Len(r), r[i] = r[j] PROVE i = j
        <3>1. \A k \in 1 .. Len(r) : k # 1 => r[k] # e
            <4>1. \A k \in 1 .. Len(q) : q[k] # e
                BY DEF Nodes
            <4>2. ASSUME NEW k \in 1 .. Len(r), k # 1 PROVE r[k] # e
                <5>1. k - 1 \in 1 .. Len(q) /\ r[k] = q[k - 1]
                    BY <1>1, <1>2, <4>2
                <5>. QED
                    BY <4>1, <5>1
            <4>. QED
                BY <4>2
        <3>2. CASE i = 1 \/ j = 1
            BY <1>1, <2>1, <3>1, <3>2
        <3>3. CASE i # 1 /\ j # 1
            <4>1. i - 1 \in 1 .. Len(q) /\ j - 1 \in 1 .. Len(q) /\ q[i - 1] = q[j - 1]
                BY <1>1, <1>2, <2>1, <3>3
            <4>2. i - 1 = j - 1
                BY <4>1 DEF Distinct
            <4>. QED
                BY <4>2
        <3>. QED
            BY <3>2, <3>3
    <2>. QED
        BY <2>1 DEF Distinct
<1>. QED
    BY <1>1, <1>3, <1>4 DEF r

(* list_remove takes away the node it is given and closes the gap. *)
LEMMA RemoveNode ==
    ASSUME NEW S, NEW q \in Seq(S), Distinct(q), NEW e \in Nodes(q)
    PROVE  /\ list_remove(q, e) \in Seq(S)
           /\ Len(list_remove(q, e)) = Len(q) - 1
           /\ \A i \in 1 .. Len(q) - 1 :
                 list_remove(q, e)[i] = IF i < Place(q, e) THEN q[i] ELSE q[i + 1]
           /\ Nodes(list_remove(q, e)) = Nodes(q) \ {e}
           /\ Distinct(list_remove(q, e))
<1>. DEFINE r == list_remove(q, e)
            p == Place(q, e)
<1>1. /\ p \in 1 .. Len(q)
      /\ q[p] = e
    BY PlaceOfNode
<1>2. /\ Len(q) \in Nat \ {0}
      /\ \A i \in 1 .. Len(q) : q[i] \in S
    BY <1>1
<1>3. r = [i \in 1 .. Len(q) - 1 |-> IF i < p THEN q[i] ELSE q[i + 1]]
    BY DEF list_remove
<1>. HIDE DEF p
<1>4. /\ r \in Seq(S)
      /\ Len(r) = Len(q) - 1
      /\ \A i \in 1 .. Len(r) : r[i] = IF i < p THEN q[i] ELSE q[i + 1]
    <2>. HIDE DEF r
    <2>1. r \in [1 .. Len(q) - 1 -> S]
        BY <1>1, <1>2, <1>3
    <2>2. Len(q) - 1 \in Nat
        BY <1>2
    <2>3. r \in Seq(S) /\ Len(r) = Len(q) - 1
        BY <2>1, <2>2
    <2>. QED
        BY <2>3, <1>3
<1>. HIDE DEF r
<1>5. Distinct(r)
    BY <1>1, <1>2, <1>4 DEF Distinct
<1>6. Nodes(r) = Nodes(q) \ {e}
    <2>1. ASSUME NEW i \in 1 .. Len(r) PROVE r[i] \in Nodes(q) \ {e}
        BY <1>1, <1>2, <1>4 DEF Nodes, Distinct
    <2>2. ASSUME NEW j \in 1 .. Len(q), q[j] # e PROVE q[j] \in Nodes(r)
        <3>1. CASE j < p
            <4>1. j \in 1 .. Len(r) /\ r[j] = q[j]
                BY <3>1, <1>1, <1>2, <1>4
            <4>. QED
                BY <4>1 DEF Nodes
        <3>2. CASE j > p
            <4>1. j - 1 \in 1 .. Len(r) /\ r[j - 1] = q[j]
                BY <3>2, <1>1, <1>2, <1>4
            <4>. QED
                BY <4>1 DEF Nodes
        <3>. QED
            BY <3>1, <3>2, <2>2, <1>1
    <2>. QED
        BY <2>1, <2>2 DEF Nodes
<1>. QED
    BY <1>4, <1>5, <1>6 DEF r, p

(* Every other node stays on the list, and none moves backwards. *)
LEMMA RemoveKeepsOrder ==
    ASSUME NEW S, NEW q \in Seq(S), Distinct(q), NEW e \in Nodes(q),
           NEW x \in Nodes(q), x # e
    PROVE  /\ x \in Nodes(list_remove(q, e))
           /\ Place(list_remove(q, e), x) <= Place(q, x)
<1>. DEFINE r == list_remove(q, e)
            p == Place(q, e)
            j == Place(q, x)
<1>1. /\ r \in Seq(S)
      /\ Len(r) = Len(q) - 1
      /\ \A i \in 1 .. Len(r) : r[i] = IF i < p THEN q[i] ELSE q[i + 1]
      /\ x \in Nodes(r)
      /\ Distinct(r)
    BY RemoveNode
<1>2. /\ p \in 1 .. Len(q) /\ q[p] = e
      /\ j \in 1 .. Len(q) /\ q[j] = x
    BY PlaceOfNode
<1>. HIDE DEF r, p, j
<1>3. CASE j < p
    <2>1. j \in 1 .. Len(r) /\ r[j] = x
        BY <1>1, <1>2, <1>3
    <2>2. Place(r, x) = j
        BY <2>1, <1>1, PlaceIsUnique
    <2>. QED
        BY <2>2, <1>1, <1>2 DEF r, j
<1>4. CASE j > p
    <2>1. j - 1 \in 1 .. Len(r) /\ r[j - 1] = x
        BY <1>1, <1>2, <1>4
    <2>2. Place(r, x) = j - 1
        BY <2>1, <1>1, PlaceIsUnique
    <2>. QED
        BY <2>2, <1>1, <1>2 DEF r, j
<1>. QED
    BY <1>2, <1>3, <1>4

(* Inserting a new node at the end leaves the others where they were. *)
LEMMA InsertKeepsPlace ==
    ASSUME NEW S, NEW q \in Seq(S), Distinct(q), NEW e \in S, e \notin Nodes(q),
           NEW x \in Nodes(q)
    PROVE  /\ x \in Nodes(list_insert_last(q, e))
           /\ Place(list_insert_last(q, e), x) = Place(q, x)
<1>. DEFINE r == list_insert_last(q, e)
            j == Place(q, x)
<1>1. /\ r \in Seq(S) /\ Len(r) = Len(q) + 1 /\ Distinct(r)
      /\ \A i \in 1 .. Len(q) : r[i] = q[i]
      /\ x \in Nodes(r)
    BY InsertLast, InsertLastElements, InsertLastDistinct
<1>2. j \in 1 .. Len(q) /\ q[j] = x
    BY PlaceOfNode
<1>. HIDE DEF r, j
<1>3. j \in 1 .. Len(r) /\ r[j] = x
    BY <1>1, <1>2
<1>4. Place(r, x) = j
    BY <1>3, <1>1, PlaceIsUnique
<1>. QED
    BY <1>1, <1>4 DEF r, j

(* list_remove_first is list_remove of the first node. *)
LEMMA RemoveFirst ==
    ASSUME NEW S, NEW q \in Seq(S), Distinct(q), q # <<>>
    PROVE  /\ list_first(q) \in Nodes(q)
           /\ Place(q, list_first(q)) = 1
           /\ list_remove_first(q) = list_remove(q, list_first(q))
<1>1. 1 \in 1 .. Len(q)
    OBVIOUS
<1>2. list_first(q) \in Nodes(q)
    BY <1>1 DEF list_first, Nodes
<1>3. Place(q, list_first(q)) = 1
    BY <1>1, PlaceIsUnique DEF list_first
<1>. QED
    BY <1>2, <1>3 DEF list_remove_first, list_remove

=============================================================================

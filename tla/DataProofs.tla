----------------------------- MODULE DataProofs -----------------------------
(***************************************************************************)
(* The data structures of the kernel: the linked lists with any number of  *)
(* lists and nodes and the ring buffer of any size hold the sequences that *)
(* the other modules take them for, and the counts of the file and device  *)
(* tables are exact for any number of tasks, files and devices.            *)
(*                                                                         *)
(* That the lists share no node is what makes it inductive for them: the   *)
(* neighbours a step writes to are then in the list it works on, and all   *)
(* other lists keep their pointers.  For the ring it is that two places of *)
(* a ring that is not full are the same only for the same character.       *)
(*                                                                         *)
(* Reference counts, descriptors and open counts agree as long as a        *)
(* sys_close does not overlap with the calls of other tasks.  The counts   *)
(* are cardinalities of the sets of descriptors and files they count; a    *)
(* step adds one element to such a set, or takes one away, or leaves it.   *)
(***************************************************************************)
EXTENDS ListImpl, RingFifo, FileTable, ListTheorems, SequenceTheorems, FiniteSetTheorems,
        WellFoundedInduction, TLAPS

-----------------------------------------------------------------------------
(* The linked lists. *)

PointersOK ==
    /\ first \in [Lists -> Links \cup {Null}]
    /\ last \in [Lists -> Links \cup {Null}]
    /\ count \in [Lists -> Nat]
    /\ pre \in [Links -> Links \cup {Null}]
    /\ next \in [Links -> Links \cup {Null}]
    /\ contents \in [Lists -> Seq(Links)]

\* No node is on a list twice, or on two lists.
Apart ==
    /\ \A l \in Lists : Distinct(contents[l])
    /\ \A l, k \in Lists : \A n \in Nodes(contents[l]) : n \in Nodes(contents[k]) => l = k

ListInv == PointersOK /\ Apart /\ ListsLinked

-----------------------------------------------------------------------------

(* What the pointers of a list are, its parts one by one. *)
LEMMA ListFacts ==
    ASSUME ListInv, NEW l \in Lists
    PROVE  /\ contents[l] \in Seq(Links) /\ Len(contents[l]) \in Nat
           /\ Distinct(contents[l])
           /\ count[l] = Len(contents[l])
           /\ list_is_empty(l) <=> contents[l] = <<>>
           /\ contents[l] = <<>> => first[l] = Null /\ last[l] = Null
           /\ contents[l] # <<>> =>
                /\ Len(contents[l]) >= 1
                /\ first[l] = contents[l][1] /\ last[l] = contents[l][Len(contents[l])]
                /\ first[l] \in Nodes(contents[l]) /\ last[l] \in Nodes(contents[l])
           /\ \A i \in 1 .. Len(contents[l]) :
                /\ contents[l][i] \in Links /\ contents[l][i] \in Nodes(contents[l])
                /\ pre[contents[l][i]] = IF i = 1 THEN Null ELSE contents[l][i - 1]
                /\ next[contents[l][i]] = IF i = Len(contents[l]) THEN Null ELSE contents[l][i + 1]
<1>1. contents[l] \in Seq(Links) /\ Distinct(contents[l]) /\ Linked(l, contents[l])
    BY DEF ListInv, PointersOK, Apart, ListsLinked
<1>2. Len(contents[l]) \in Nat /\ (contents[l] = <<>> <=> Len(contents[l]) = 0)
    BY <1>1
<1>3. \A i \in 1 .. Len(contents[l]) : contents[l][i] \in Links /\ contents[l][i] \in Nodes(contents[l])
    BY <1>1, NodesOfSeq
<1>. QED
    BY <1>1, <1>2, <1>3 DEF Linked, list_is_empty

(* A list whose nodes are left alone keeps its pointers. *)
LEMMA OthersKept ==
    ASSUME ListInv, NEW k \in Lists,
           contents'[k] = contents[k], first'[k] = first[k], last'[k] = last[k], count'[k] = count[k],
           \A m \in Nodes(contents[k]) : pre'[m] = pre[m] /\ next'[m] = next[m]
    PROVE  Linked(k, contents[k])'
<1>1. Linked(k, contents[k])
    BY DEF ListInv, ListsLinked
<1>2. \A i \in 1 .. Len(contents[k]) : contents[k][i] \in Nodes(contents[k])
    BY ListFacts
<1>. QED
    BY <1>1, <1>2 DEF Linked

(* Where list l alone changes, the lists stay apart if l gains only nodes of no list. *)
LEMMA ApartKept ==
    ASSUME ListInv, NEW l \in Lists,
           \A k \in Lists : k # l => contents'[k] = contents[k],
           Distinct(contents'[l]),
           \A m \in Nodes(contents'[l]) : m \in Nodes(contents[l]) \/ OnNoList(m)
    PROVE  Apart'
    BY DEF ListInv, Apart, OnNoList

(* The new node comes behind the last. *)
LEMMA LinkLastInv ==
    ASSUME ListInv, NEW l \in Lists, NEW n \in Links, LinkLast(l, n)
    PROVE  ListInv'
<1>. DEFINE q == contents[l]
            N == Len(contents[l])
            r == Append(q, n)
<1>1. /\ q \in Seq(Links) /\ N \in Nat /\ Distinct(q) /\ count[l] = N
      /\ list_is_empty(l) <=> q = <<>>
      /\ q = <<>> <=> N = 0
      /\ q = <<>> => first[l] = Null /\ last[l] = Null
      /\ q # <<>> => first[l] = q[1] /\ last[l] = q[N] /\ last[l] \in Nodes(q) /\ first[l] \in Nodes(q)
      /\ \A i \in 1 .. N :
           /\ q[i] \in Links /\ q[i] \in Nodes(q)
           /\ pre[q[i]] = IF i = 1 THEN Null ELSE q[i - 1]
           /\ next[q[i]] = IF i = N THEN Null ELSE q[i + 1]
           /\ \A j \in 1 .. N : q[i] = q[j] => i = j
    BY ListFacts DEF Distinct
<1>2. /\ OnNoList(n) /\ n \notin Nodes(q)
      /\ contents' = [contents EXCEPT ![l] = r]
    BY DEF LinkLast, OnNoList, list_insert_last
<1>3. /\ contents'[l] = r /\ \A k \in Lists : k # l => contents'[k] = contents[k]
      /\ contents' \in [Lists -> Seq(Links)]
    BY <1>1, <1>2 DEF ListInv, PointersOK
<1>4. /\ r \in Seq(Links) /\ Len(r) = N + 1 /\ r # <<>>
      /\ \A i \in 1 .. N : r[i] = q[i]
      /\ r[N + 1] = n
      /\ Nodes(r) = Nodes(q) \cup {n} /\ Distinct(r)
    BY <1>1, <1>2, InsertLast, InsertLastElements, InsertLastDistinct DEF list_insert_last
<1>. HIDE DEF r, q, N
<1>5. /\ first'[l] = IF q = <<>> THEN n ELSE first[l]
      /\ last'[l] = n /\ count'[l] = N + 1
      /\ \A k \in Lists : k # l => first'[k] = first[k] /\ last'[k] = last[k] /\ count'[k] = count[k]
      /\ first' \in [Lists -> Links \cup {Null}] /\ last' \in [Lists -> Links \cup {Null}]
      /\ count' \in [Lists -> Nat]
    BY <1>1 DEF LinkLast, ListInv, PointersOK
<1>6. /\ pre'[n] = last[l] /\ next'[n] = Null
      /\ \A m \in Links : m # n => pre'[m] = pre[m]
      /\ \A m \in Links : m # n => next'[m] = IF q # <<>> /\ m = last[l] THEN n ELSE next[m]
      /\ pre' \in [Links -> Links \cup {Null}] /\ next' \in [Links -> Links \cup {Null}]
    BY <1>1 DEF LinkLast, ListInv, PointersOK
<1>7. PointersOK'
    BY <1>3, <1>5, <1>6 DEF PointersOK
<1>8. Apart'
    BY <1>2, <1>3, <1>4, ApartKept DEF q
<1>9. ASSUME NEW k \in Lists PROVE Linked(k, contents[k])'
    <2>1. CASE k # l
        <3>1. \A m \in Nodes(contents[k]) : m \in Links /\ m # n /\ m \notin Nodes(q)
            BY <1>2, <2>1, NodesOfSeq DEF q, ListInv, Apart, PointersOK, OnNoList
        <3>. QED
            <4>1. /\ contents'[k] = contents[k] /\ first'[k] = first[k] /\ last'[k] = last[k]
                  /\ count'[k] = count[k]
                BY <1>3, <1>5, <2>1
            <4>2. \A m \in Nodes(contents[k]) : pre'[m] = pre[m] /\ next'[m] = next[m]
                BY <1>1, <1>6, <3>1
            <4>. QED
                BY <4>1, <4>2, OthersKept
    <2>2. CASE k = l
        <3>1. ASSUME NEW i \in 1 .. N + 1
              PROVE  /\ pre'[r[i]] = IF i = 1 THEN Null ELSE r[i - 1]
                     /\ next'[r[i]] = IF i = N + 1 THEN Null ELSE r[i + 1]
            <4>1. CASE i = N + 1
                <5>1. r[i] = n /\ (N # 0 => r[i - 1] = q[N])
                    BY <1>1, <1>4, <4>1
                <5>. QED
                    <6>1. pre'[r[i]] = last[l] /\ next'[r[i]] = Null
                        BY <1>6, <5>1
                    <6>2. last[l] = IF N = 0 THEN Null ELSE q[N]
                        BY <1>1
                    <6>. QED
                        BY <1>1, <4>1, <5>1, <6>1, <6>2
            <4>2. CASE i # N + 1
                <5>1. i \in 1 .. N /\ r[i] = q[i] /\ q[i] # n /\ q[i] \in Links /\ q # <<>>
                    BY <1>1, <1>2, <1>4, <4>2
                <5>2. pre'[r[i]] = pre[q[i]] /\ (i # 1 => r[i - 1] = q[i - 1])
                    BY <1>1, <1>4, <1>6, <5>1
                <5>3. q[i] = last[l] <=> i = N
                    <6>1. N \in 1 .. N /\ last[l] = q[N]
                        BY <1>1, <5>1
                    <6>2. \A j \in 1 .. N : q[i] = q[j] => i = j
                        BY <1>1, <5>1
                    <6>. QED
                        BY <6>1, <6>2
                <5>4. next'[r[i]] = r[i + 1]
                    <6>1. CASE i = N
                        BY <1>4, <1>6, <5>1, <5>3, <6>1
                    <6>2. CASE i # N
                        <7>1. i + 1 \in 1 .. N /\ r[i + 1] = q[i + 1]
                            BY <1>1, <1>4, <5>1, <6>2
                        <7>2. next'[r[i]] = next[q[i]]
                            BY <1>6, <5>1, <5>3, <6>2
                        <7>3. next[q[i]] = q[i + 1]
                            BY <1>1, <5>1, <6>2
                        <7>. QED
                            BY <7>1, <7>2, <7>3
                    <6>. QED
                        BY <6>1, <6>2
                <5>. QED
                    BY <1>1, <4>2, <5>1, <5>2, <5>4
            <4>. QED
                BY <4>1, <4>2
        <3>2. first'[l] = r[1]
            BY <1>1, <1>4, <1>5
        <3>. QED
            BY <1>1, <1>3, <1>4, <1>5, <2>2, <3>1, <3>2 DEF Linked
    <2>. QED
        BY <2>1, <2>2
<1>10. ASSUME NEW m \in Links, OnNoList(m)' PROVE pre'[m] = Null /\ next'[m] = Null
    <2>1. m # n /\ m \notin Nodes(q) /\ OnNoList(m)
        <3>1. \A k \in Lists : m \notin Nodes(contents'[k])
            BY <1>10 DEF OnNoList
        <3>. QED
            BY <1>3, <1>4, <3>1 DEF OnNoList, q
    <2>. QED
        BY <1>1, <1>6, <2>1 DEF ListInv, ListsLinked
<1>11. ListsLinked'
    BY <1>9, <1>10 DEF ListsLinked
<1>. QED
    BY <1>7, <1>8, <1>11 DEF ListInv
(* The new node comes in front of the first. *)
LEMMA LinkFirstInv ==
    ASSUME ListInv, NEW l \in Lists, NEW n \in Links, LinkFirst(l, n)
    PROVE  ListInv'
<1>. DEFINE q == contents[l]
            N == Len(contents[l])
            r == list_insert_first(q, n)
<1>1. /\ q \in Seq(Links) /\ N \in Nat /\ Distinct(q) /\ count[l] = N
      /\ list_is_empty(l) <=> q = <<>>
      /\ q = <<>> <=> N = 0
      /\ q = <<>> => first[l] = Null /\ last[l] = Null
      /\ q # <<>> => first[l] = q[1] /\ last[l] = q[N] /\ last[l] \in Nodes(q) /\ first[l] \in Nodes(q)
      /\ \A i \in 1 .. N :
           /\ q[i] \in Links /\ q[i] \in Nodes(q)
           /\ pre[q[i]] = IF i = 1 THEN Null ELSE q[i - 1]
           /\ next[q[i]] = IF i = N THEN Null ELSE q[i + 1]
           /\ \A j \in 1 .. N : q[i] = q[j] => i = j
    BY ListFacts DEF Distinct
<1>2. /\ OnNoList(n) /\ n \notin Nodes(q)
      /\ contents' = [contents EXCEPT ![l] = r]
    BY DEF LinkFirst, OnNoList
<1>4. /\ r \in Seq(Links) /\ Len(r) = N + 1 /\ r # <<>>
      /\ r[1] = n
      /\ \A i \in 1 .. N : r[i + 1] = q[i]
      /\ Nodes(r) = Nodes(q) \cup {n} /\ Distinct(r)
    <2>1. /\ r \in Seq(Links) /\ Len(r) = N + 1
          /\ r[1] = n
          /\ \A i \in 1 .. N : r[i + 1] = q[i]
          /\ Nodes(r) = Nodes(q) \cup {n} /\ Distinct(r)
        BY <1>1, <1>2, InsertFirst
    <2>2. r # <<>>
        BY <1>1, <2>1
    <2>. QED
        BY <2>1, <2>2
<1>3. /\ contents'[l] = r /\ \A k \in Lists : k # l => contents'[k] = contents[k]
      /\ contents' \in [Lists -> Seq(Links)]
    BY <1>1, <1>2, <1>4 DEF ListInv, PointersOK
<1>. HIDE DEF r, q, N
<1>5. /\ first'[l] = n
      /\ last'[l] = IF q = <<>> THEN n ELSE last[l]
      /\ count'[l] = N + 1
      /\ \A k \in Lists : k # l => first'[k] = first[k] /\ last'[k] = last[k] /\ count'[k] = count[k]
      /\ first' \in [Lists -> Links \cup {Null}] /\ last' \in [Lists -> Links \cup {Null}]
      /\ count' \in [Lists -> Nat]
    BY <1>1 DEF LinkFirst, ListInv, PointersOK
<1>6. /\ next'[n] = first[l] /\ pre'[n] = Null
      /\ \A m \in Links : m # n => next'[m] = next[m]
      /\ \A m \in Links : m # n => pre'[m] = IF q # <<>> /\ m = first[l] THEN n ELSE pre[m]
      /\ pre' \in [Links -> Links \cup {Null}] /\ next' \in [Links -> Links \cup {Null}]
    BY <1>1 DEF LinkFirst, ListInv, PointersOK
<1>7. PointersOK'
    BY <1>3, <1>5, <1>6 DEF PointersOK
<1>8. Apart'
    BY <1>2, <1>3, <1>4, ApartKept DEF q
<1>9. ASSUME NEW k \in Lists PROVE Linked(k, contents[k])'
    <2>1. CASE k # l
        <3>1. \A m \in Nodes(contents[k]) : m \in Links /\ m # n /\ m \notin Nodes(q)
            BY <1>2, <2>1, NodesOfSeq DEF q, ListInv, Apart, PointersOK, OnNoList
        <3>. QED
            <4>1. /\ contents'[k] = contents[k] /\ first'[k] = first[k] /\ last'[k] = last[k]
                  /\ count'[k] = count[k]
                BY <1>3, <1>5, <2>1
            <4>2. \A m \in Nodes(contents[k]) : pre'[m] = pre[m] /\ next'[m] = next[m]
                BY <1>1, <1>6, <3>1
            <4>. QED
                BY <4>1, <4>2, OthersKept
    <2>2. CASE k = l
        <3>1. ASSUME NEW i \in 1 .. N + 1
              PROVE  /\ pre'[r[i]] = IF i = 1 THEN Null ELSE r[i - 1]
                     /\ next'[r[i]] = IF i = N + 1 THEN Null ELSE r[i + 1]
            <4>1. CASE i = 1
                <5>1. r[i] = n /\ (N # 0 => r[i + 1] = q[1])
                    BY <1>1, <1>4, <4>1
                <5>2. next'[r[i]] = IF N = 0 THEN Null ELSE q[1]
                    BY <1>1, <1>6, <5>1
                <5>. QED
                    BY <1>1, <1>6, <4>1, <5>1, <5>2
            <4>2. CASE i # 1
                <5>1. PICK j \in 1 .. N : i = j + 1
                    BY <1>1, <4>2
                <5>2. r[i] = q[j] /\ q[j] # n /\ q[j] \in Links /\ q # <<>>
                    BY <1>1, <1>2, <1>4, <5>1
                <5>3. q[j] = first[l] <=> j = 1
                    <6>1. 1 \in 1 .. N /\ first[l] = q[1]
                        BY <1>1, <5>2
                    <6>2. \A h \in 1 .. N : q[j] = q[h] => j = h
                        BY <1>1
                    <6>. QED
                        BY <6>1, <6>2
                <5>4. pre'[r[i]] = r[i - 1]
                    <6>1. CASE j = 1
                        BY <1>4, <1>6, <5>1, <5>2, <5>3, <6>1
                    <6>2. CASE j # 1
                        <7>1. j - 1 \in 1 .. N /\ (j - 1) + 1 = i - 1
                            BY <1>1, <5>1, <6>2
                        <7>2. r[i - 1] = q[j - 1]
                            BY <1>4, <7>1
                        <7>3. pre'[r[i]] = pre[q[j]]
                            BY <1>6, <5>2, <5>3, <6>2
                        <7>4. pre[q[j]] = q[j - 1]
                            BY <1>1, <6>2
                        <7>. QED
                            BY <7>2, <7>3, <7>4
                    <6>. QED
                        BY <6>1, <6>2
                <5>5. next'[r[i]] = IF j = N THEN Null ELSE q[j + 1]
                    <6>1. next'[r[i]] = next[q[j]]
                        BY <1>6, <5>2
                    <6>2. next[q[j]] = IF j = N THEN Null ELSE q[j + 1]
                        BY <1>1
                    <6>. QED
                        BY <6>1, <6>2
                <5>6. j # N => r[i + 1] = q[j + 1]
                    <6>1. j # N => j + 1 \in 1 .. N /\ (j + 1) + 1 = i + 1
                        BY <1>1, <5>1
                    <6>. QED
                        BY <1>4, <6>1
                <5>7. j = N <=> i = N + 1
                    BY <1>1, <5>1
                <5>. QED
                    BY <4>2, <5>4, <5>5, <5>6, <5>7
            <4>. QED
                BY <4>1, <4>2
        <3>2. last'[l] = r[N + 1]
            BY <1>1, <1>4, <1>5
        <3>. QED
            BY <1>1, <1>3, <1>4, <1>5, <2>2, <3>1, <3>2 DEF Linked
    <2>. QED
        BY <2>1, <2>2
<1>10. ASSUME NEW m \in Links, OnNoList(m)' PROVE pre'[m] = Null /\ next'[m] = Null
    <2>1. m # n /\ m \notin Nodes(q) /\ OnNoList(m)
        <3>1. \A k \in Lists : m \notin Nodes(contents'[k])
            BY <1>10 DEF OnNoList
        <3>. QED
            BY <1>3, <1>4, <3>1 DEF OnNoList, q
    <2>. QED
        BY <1>1, <1>6, <2>1 DEF ListInv, ListsLinked
<1>11. ListsLinked'
    BY <1>9, <1>10 DEF ListsLinked
<1>. QED
    BY <1>7, <1>8, <1>11 DEF ListInv

(* The neighbours of the node are linked with each other. *)
LEMMA UnlinkInv ==
    ASSUME ListInv, NEW l \in Lists, NEW n \in Links, Unlink(l, n)
    PROVE  ListInv'
<1>. DEFINE q == contents[l]
            N == Len(contents[l])
            r == list_remove(q, n)
            p == Place(q, n)
<1>1. /\ q \in Seq(Links) /\ N \in Nat /\ Distinct(q) /\ count[l] = N
      /\ list_is_empty(l) <=> q = <<>>
      /\ q = <<>> <=> N = 0
      /\ q = <<>> => first[l] = Null /\ last[l] = Null
      /\ q # <<>> => first[l] = q[1] /\ last[l] = q[N] /\ last[l] \in Nodes(q) /\ first[l] \in Nodes(q)
      /\ \A i \in 1 .. N :
           /\ q[i] \in Links /\ q[i] \in Nodes(q)
           /\ pre[q[i]] = IF i = 1 THEN Null ELSE q[i - 1]
           /\ next[q[i]] = IF i = N THEN Null ELSE q[i + 1]
           /\ \A j \in 1 .. N : q[i] = q[j] => i = j
    BY ListFacts DEF Distinct
<1>2. /\ n \in Nodes(q)
      /\ contents' = [contents EXCEPT ![l] = r]
    BY DEF Unlink
<1>4. /\ r \in Seq(Links) /\ Len(r) = N - 1
      /\ \A i \in 1 .. N - 1 : r[i] = IF i < p THEN q[i] ELSE q[i + 1]
      /\ Nodes(r) = Nodes(q) \ {n} /\ Distinct(r)
      /\ p \in 1 .. N /\ q[p] = n
    <2>1. p \in 1 .. N /\ q[p] = n
        BY <1>1, <1>2, PlaceOfNode
    <2>2. /\ r \in Seq(Links) /\ Len(r) = N - 1
          /\ \A i \in 1 .. N - 1 : r[i] = IF i < p THEN q[i] ELSE q[i + 1]
          /\ Nodes(r) = Nodes(q) \ {n} /\ Distinct(r)
        BY <1>1, <1>2, RemoveNode
    <2>. QED
        BY <2>1, <2>2
<1>3. /\ contents'[l] = r /\ \A k \in Lists : k # l => contents'[k] = contents[k]
      /\ contents' \in [Lists -> Seq(Links)]
    BY <1>1, <1>2, <1>4 DEF ListInv, PointersOK
<1>. HIDE DEF r, q, N, p
<1>12. /\ pre[n] = IF p = 1 THEN Null ELSE q[p - 1]
       /\ next[n] = IF p = N THEN Null ELSE q[p + 1]
       /\ n \in Links /\ N >= 1 /\ q # <<>>
    BY <1>1, <1>4
<1>13. /\ n = first[l] <=> p = 1
       /\ n = last[l] <=> p = N
    <2>1. 1 \in 1 .. N /\ N \in 1 .. N /\ first[l] = q[1] /\ last[l] = q[N]
        BY <1>1, <1>12
    <2>2. \A j \in 1 .. N : q[p] = q[j] => p = j
        BY <1>1, <1>4
    <2>. QED
        BY <1>4, <2>1, <2>2
<1>5. /\ first'[l] = IF p = 1 THEN next[n] ELSE first[l]
      /\ last'[l] = IF p = N THEN pre[n] ELSE last[l]
      /\ count'[l] = N - 1
      /\ \A k \in Lists : k # l => first'[k] = first[k] /\ last'[k] = last[k] /\ count'[k] = count[k]
      /\ first' \in [Lists -> Links \cup {Null}] /\ last' \in [Lists -> Links \cup {Null}]
      /\ count' \in [Lists -> Nat]
    BY <1>1, <1>12, <1>13 DEF Unlink, ListInv, PointersOK
<1>6. /\ pre'[n] = Null /\ next'[n] = Null
      /\ \A m \in Links : m # n => next'[m] = IF m = pre[n] THEN next[n] ELSE next[m]
      /\ \A m \in Links : m # n => pre'[m] = IF m = next[n] THEN pre[n] ELSE pre[m]
      /\ pre' \in [Links -> Links \cup {Null}] /\ next' \in [Links -> Links \cup {Null}]
    BY DEF Unlink, ListInv, PointersOK
<1>14. /\ pre[n] \in Nodes(q) \cup {Null} /\ next[n] \in Nodes(q) \cup {Null}
       /\ Null \notin Links
    <2>1. p # 1 => p - 1 \in 1 .. N
        BY <1>1, <1>4
    <2>2. p # N => p + 1 \in 1 .. N
        BY <1>1, <1>4
    <2>3. \A i \in 1 .. N : q[i] \in Nodes(q)
        BY <1>1
    <2>. QED
        BY <1>12, <2>1, <2>2, <2>3, ListAssumption
<1>7. PointersOK'
    BY <1>3, <1>5, <1>6 DEF PointersOK
<1>8. Apart'
    BY <1>2, <1>3, <1>4, ApartKept DEF q
<1>9. ASSUME NEW k \in Lists PROVE Linked(k, contents[k])'
    <2>1. CASE k # l
        <3>1. \A m \in Nodes(contents[k]) : m \in Links /\ m \notin Nodes(q)
            BY <1>2, <2>1, NodesOfSeq DEF q, ListInv, Apart, PointersOK, OnNoList
        <3>. QED
            <4>1. /\ contents'[k] = contents[k] /\ first'[k] = first[k] /\ last'[k] = last[k]
                  /\ count'[k] = count[k]
                BY <1>3, <1>5, <2>1
            <4>2. \A m \in Nodes(contents[k]) : pre'[m] = pre[m] /\ next'[m] = next[m]
                BY <1>2, <1>6, <1>14, <3>1
            <4>. QED
                BY <4>1, <4>2, OthersKept
    <2>2. CASE k = l
        <3>1. ASSUME NEW i \in 1 .. N - 1
              PROVE  /\ pre'[r[i]] = IF i = 1 THEN Null ELSE r[i - 1]
                     /\ next'[r[i]] = IF i = N - 1 THEN Null ELSE r[i + 1]
            <4>1. PICK j \in 1 .. N : j = IF i < p THEN i ELSE i + 1
                BY <1>1
            <4>2. r[i] = q[j] /\ j # p /\ q[j] # n /\ q[j] \in Links
                <5>1. r[i] = q[j]
                    BY <1>4, <4>1
                <5>2. j # p
                    BY <1>1, <1>4, <4>1
                <5>3. q[j] \in Links /\ \A h \in 1 .. N : q[j] = q[h] => j = h
                    BY <1>1
                <5>. QED
                    BY <1>4, <5>1, <5>2, <5>3
            <4>3. \A h \in 1 .. N : q[j] = q[h] => j = h
                BY <1>1
            <4>4. pre[q[j]] = (IF j = 1 THEN Null ELSE q[j - 1])
                  /\ next[q[j]] = IF j = N THEN Null ELSE q[j + 1]
                BY <1>1
            <4>5. q[j] = pre[n] <=> j = p - 1
                <5>1. CASE p = 1
                    BY <1>1, <1>4, <1>12, <1>14, <4>2, <5>1
                <5>2. CASE p # 1
                    <6>1. p - 1 \in 1 .. N
                        BY <1>1, <1>4, <5>2
                    <6>2. pre[n] = q[p - 1]
                        BY <1>12, <5>2
                    <6>. QED
                        BY <4>3, <6>1, <6>2
                <5>. QED
                    BY <5>1, <5>2
            <4>6. q[j] = next[n] <=> j = p + 1
                <5>1. CASE p = N
                    BY <1>1, <1>4, <1>12, <1>14, <4>2, <5>1
                <5>2. CASE p # N
                    <6>1. p + 1 \in 1 .. N
                        BY <1>1, <1>4, <5>2
                    <6>2. next[n] = q[p + 1]
                        BY <1>12, <5>2
                    <6>. QED
                        BY <4>3, <6>1, <6>2
                <5>. QED
                    BY <5>1, <5>2
            <4>7. /\ next'[r[i]] = IF j = p - 1 THEN next[n] ELSE next[q[j]]
                  /\ pre'[r[i]] = IF j = p + 1 THEN pre[n] ELSE pre[q[j]]
                BY <1>6, <4>2, <4>5, <4>6
            <4>8. i # 1 => i - 1 \in 1 .. N - 1 /\ r[i - 1] = IF i - 1 < p THEN q[i - 1] ELSE q[i]
                <5>1. i # 1 => i - 1 \in 1 .. N - 1 /\ (i - 1) + 1 = i
                    BY <1>1
                <5>. QED
                    BY <1>4, <5>1
            <4>9. i # N - 1 => i + 1 \in 1 .. N - 1 /\ r[i + 1] = IF i + 1 < p THEN q[i + 1] ELSE q[i + 2]
                <5>1. i # N - 1 => i + 1 \in 1 .. N - 1 /\ (i + 1) + 1 = i + 2
                    BY <1>1
                <5>. QED
                    BY <1>4, <5>1
            <4>10. next'[r[i]] = IF i = N - 1 THEN Null ELSE r[i + 1]
                <5>1. CASE i = p - 1
                    BY <1>1, <1>4, <1>12, <4>1, <4>7, <4>9, <5>1
                <5>2. CASE i < p /\ i # p - 1
                    <6>1. j = i /\ i # N /\ i # N - 1 /\ i + 1 < p
                        BY <1>1, <1>4, <4>1, <5>2
                    <6>2. next'[r[i]] = next[q[i]] /\ next[q[i]] = q[i + 1]
                        BY <4>4, <4>7, <5>2, <6>1
                    <6>. QED
                        BY <4>9, <6>1, <6>2
                <5>3. CASE ~(i < p)
                    <6>1. j = i + 1 /\ j # p - 1 /\ (j = N <=> i = N - 1) /\ j + 1 = i + 2 /\ ~(i + 1 < p)
                        BY <1>1, <1>4, <4>1, <5>3
                    <6>2. next'[r[i]] = IF j = N THEN Null ELSE q[j + 1]
                        BY <4>4, <4>7, <6>1
                    <6>. QED
                        BY <4>9, <6>1, <6>2
                <5>. QED
                    BY <5>1, <5>2, <5>3
            <4>11. pre'[r[i]] = IF i = 1 THEN Null ELSE r[i - 1]
                <5>1. CASE i = p
                    BY <1>1, <1>4, <1>12, <4>1, <4>7, <4>8, <5>1
                <5>2. CASE i < p
                    BY <1>1, <1>4, <4>1, <4>4, <4>7, <4>8, <5>2
                <5>3. CASE i > p
                    BY <1>1, <1>4, <4>1, <4>4, <4>7, <4>8, <5>3
                <5>. QED
                    BY <1>1, <1>4, <5>1, <5>2, <5>3
            <4>. QED
                BY <4>10, <4>11
        <3>2. first'[l] = IF r = <<>> THEN Null ELSE r[1]
            <4>1. N = 1 => r = <<>> /\ p = 1
                BY <1>1, <1>4
            <4>2. N # 1 => r # <<>> /\ r[1] = IF p = 1 THEN q[2] ELSE q[1]
                BY <1>1, <1>4
            <4>. QED
                BY <1>1, <1>4, <1>5, <1>12, <4>1, <4>2
        <3>3. last'[l] = IF r = <<>> THEN Null ELSE r[N - 1]
            <4>1. N = 1 => r = <<>> /\ p = 1
                BY <1>1, <1>4
            <4>2. N # 1 => r # <<>> /\ r[N - 1] = IF p = N THEN q[N - 1] ELSE q[N]
                BY <1>1, <1>4
            <4>. QED
                BY <1>1, <1>4, <1>5, <1>12, <4>1, <4>2
        <3>. QED
            BY <1>1, <1>3, <1>4, <1>5, <2>2, <3>1, <3>2, <3>3 DEF Linked
    <2>. QED
        BY <2>1, <2>2
<1>10. ASSUME NEW m \in Links, OnNoList(m)' PROVE pre'[m] = Null /\ next'[m] = Null
    <2>1. m # n => m \notin Nodes(q) /\ OnNoList(m)
        <3>1. \A k \in Lists : m \notin Nodes(contents'[k])
            BY <1>10 DEF OnNoList
        <3>. QED
            BY <1>3, <1>4, <3>1 DEF OnNoList, q
    <2>2. CASE m # n
        <3>1. m # pre[n] /\ m # next[n]
            BY <1>14, <2>1, <2>2
        <3>2. pre[m] = Null /\ next[m] = Null
            BY <2>1, <2>2 DEF ListInv, ListsLinked
        <3>. QED
            BY <1>6, <2>2, <3>1, <3>2
    <2>. QED
        BY <1>6, <2>2
<1>11. ListsLinked'
    BY <1>9, <1>10 DEF ListsLinked
<1>. QED
    BY <1>7, <1>8, <1>11 DEF ListInv

(* list_remove_first does what list_remove of the first node does. *)
LEMMA UnlinkFirstIsUnlink ==
    ASSUME ListInv, NEW l \in Lists, UnlinkFirst(l)
    PROVE  first[l] \in Links /\ Unlink(l, first[l])
<1>. DEFINE q == contents[l]
            N == Len(contents[l])
            n == first[l]
<1>1. /\ q \in Seq(Links) /\ N \in Nat /\ Distinct(q) /\ count[l] = N
      /\ list_is_empty(l) <=> q = <<>>
      /\ q = <<>> <=> N = 0
      /\ q = <<>> => first[l] = Null /\ last[l] = Null
      /\ q # <<>> => first[l] = q[1] /\ last[l] = q[N] /\ last[l] \in Nodes(q) /\ first[l] \in Nodes(q)
      /\ \A i \in 1 .. N :
           /\ q[i] \in Links /\ q[i] \in Nodes(q)
           /\ pre[q[i]] = IF i = 1 THEN Null ELSE q[i - 1]
           /\ next[q[i]] = IF i = N THEN Null ELSE q[i + 1]
           /\ \A j \in 1 .. N : q[i] = q[j] => i = j
    BY ListFacts DEF Distinct
<1>2. /\ q # <<>> /\ n = q[1] /\ n \in Links /\ n \in Nodes(q)
      /\ last[l] = q[N]
      /\ pre[n] = Null
      /\ next[n] = IF N = 1 THEN Null ELSE q[2]
      /\ n = last[l] <=> N = 1
      /\ N # 1 => q[2] \in Links
    <2>1. q # <<>>
        BY <1>1 DEF UnlinkFirst
    <2>. HIDE DEF q, N
    <2>2. 1 \in 1 .. N /\ N \in 1 .. N /\ (N # 1 => 2 \in 1 .. N)
        <3>1. N \in Nat /\ N # 0
            BY <1>1, <2>1
        <3>. QED
            BY ONLY <3>1
    <2>3. first[l] = q[1] /\ last[l] = q[N] /\ n \in Links /\ n \in Nodes(q)
        BY <1>1, <2>1, <2>2
    <2>4. pre[n] = Null /\ next[n] = IF 1 = N THEN Null ELSE q[1 + 1]
        BY <1>1, <2>2, <2>3
    <2>5. n = last[l] <=> 1 = N
        BY <1>1, <2>2, <2>3
    <2>6. N # 1 => q[2] \in Links
        BY <1>1, <2>2
    <2>. QED
        BY <2>1, <2>3, <2>4, <2>5, <2>6
<1>3. next[n] = Null <=> n = last[l]
    BY <1>2, ListAssumption
<1>4. list_remove_first(q) = list_remove(q, n)
    BY <1>1, <1>2, RemoveFirst DEF list_first
<1>5. contents' = [contents EXCEPT ![l] = list_remove(q, n)]
    BY <1>4 DEF UnlinkFirst
<1>6. first' = [first EXCEPT ![l] = next[n]]
    BY DEF UnlinkFirst
<1>7. last' = [last EXCEPT ![l] = IF n = last[l] THEN pre[n] ELSE last[l]]
    BY <1>2, <1>3 DEF UnlinkFirst
<1>8. next' = [m \in Links |-> IF m = n THEN Null ELSE IF m = pre[n] THEN next[n] ELSE next[m]]
    <2>1. next' = [next EXCEPT ![n] = Null] /\ next \in [Links -> Links \cup {Null}]
        BY DEF UnlinkFirst, ListInv, PointersOK
    <2>2. \A m \in Links : m # pre[n]
        BY <1>2, ListAssumption
    <2>. QED
        BY <1>2, <2>1, <2>2
<1>9. pre' = [m \in Links |-> IF m = n THEN Null ELSE IF m = next[n] THEN pre[n] ELSE pre[m]]
    BY <1>2 DEF UnlinkFirst
<1>. QED
    BY <1>2, <1>5, <1>6, <1>7, <1>8, <1>9 DEF UnlinkFirst, Unlink

(* The list is initialised again while nothing is on it. *)
LEMMA ListInitAgainInv ==
    ASSUME ListInv, NEW l \in Lists, ListInit(l)
    PROVE  ListInv'
<1>1. /\ contents[l] = <<>>
      /\ UNCHANGED <<count, pre, next, contents>>
      /\ first[l] = Null /\ last[l] = Null
    BY ListFacts DEF ListInit
<1>2. first' = first /\ last' = last
    BY <1>1 DEF ListInit, ListInv, PointersOK
<1>3. PointersOK' /\ Apart'
    BY <1>1, <1>2 DEF ListInv, PointersOK, Apart
<1>4. ListsLinked'
    BY <1>1, <1>2 DEF ListInv, ListsLinked, Linked, OnNoList
<1>. QED
    BY <1>3, <1>4 DEF ListInv

-----------------------------------------------------------------------------

(* In every state the pointers of each list lead through the nodes that should be
   on it, in both directions, for any number of lists and nodes. *)
THEOREM ListsAreSequences == ListsSpec => []ListsLinked
<1>1. ListsInit => ListInv
    <2>. SUFFICES ASSUME ListsInit PROVE ListInv
        OBVIOUS
    <2>1. \A l \in Lists : contents[l] = <<>> /\ contents[l] \in Seq(Links)
        BY DEF ListsInit
    <2>2. PointersOK
        BY <2>1 DEF ListsInit, PointersOK
    <2>3. Apart
        BY <2>1 DEF Apart, Distinct, Nodes
    <2>4. ListsLinked
        BY <2>1 DEF ListsInit, ListsLinked, Linked
    <2>. QED
        BY <2>2, <2>3, <2>4 DEF ListInv
<1>2. ListInv /\ [ListsNext]_listVars => ListInv'
    <2>. SUFFICES ASSUME ListInv, [ListsNext]_listVars PROVE ListInv'
        OBVIOUS
    <2>1. ASSUME NEW l \in Lists, ListInit(l) \/ UnlinkFirst(l) PROVE ListInv'
        BY <2>1, ListInitAgainInv, UnlinkFirstIsUnlink, UnlinkInv
    <2>2. ASSUME NEW l \in Lists, NEW n \in Links, LinkFirst(l, n) \/ LinkLast(l, n) \/ Unlink(l, n)
          PROVE  ListInv'
        BY <2>2, LinkFirstInv, LinkLastInv, UnlinkInv
    <2>3. CASE UNCHANGED listVars
        BY <2>3 DEF listVars, ListInv, PointersOK, Apart, ListsLinked, Linked, OnNoList
    <2>. QED
        BY <2>1, <2>2, <2>3 DEF ListsNext
<1>3. ListInv => ListsLinked
    BY DEF ListInv
<1>. QED
    BY <1>1, <1>2, <1>3, PTL DEF ListsSpec

-----------------------------------------------------------------------------
(* The ring buffer. *)

Indices == 0 .. RING_SIZE - 1

RingTypeOK ==
    /\ fifo \in [buf : [Indices -> RingChars], read : Indices, write : Indices,
                 count : 0 .. RING_SIZE]
    /\ held \in Seq(RingChars)

RingInv == RingTypeOK /\ FifoHoldsItsChars

-----------------------------------------------------------------------------
(* Arithmetic of the places. *)

LEMMA PlaceIsIndex ==
    ASSUME NEW r \in Indices, NEW i \in 1 .. RING_SIZE
    PROVE  RingPlace(r, i) \in Indices
    BY RingAssumption DEF Indices, RingPlace

LEMMA AfterIsIndex ==
    ASSUME NEW i \in Indices
    PROVE  After(i) \in Indices
    BY RingAssumption DEF Indices, After

(* The places of a ring are different. *)
LEMMA PlacesDiffer ==
    ASSUME NEW r \in Indices, NEW i \in 1 .. RING_SIZE, NEW j \in 1 .. RING_SIZE,
           RingPlace(r, i) = RingPlace(r, j)
    PROVE  i = j
    BY RingAssumption DEF Indices, RingPlace

(* One place further on. *)
LEMMA PlaceAfter ==
    ASSUME NEW r \in Indices, NEW i \in 1 .. RING_SIZE
    PROVE  After(RingPlace(r, i)) = RingPlace(r, i + 1)
    BY RingAssumption DEF Indices, RingPlace, After

(* Seen from the next place. *)
LEMMA PlaceFromAfter ==
    ASSUME NEW r \in Indices, NEW i \in 1 .. RING_SIZE
    PROVE  RingPlace(After(r), i) = RingPlace(r, i + 1)
    BY RingAssumption DEF Indices, RingPlace, After

-----------------------------------------------------------------------------

LEMMA PutInv ==
    ASSUME RingInv, NEW c \in RingChars, tty_fifo_put(c)
    PROVE  RingInv'
<1>1. /\ fifo.read \in Indices /\ fifo.write \in Indices /\ fifo.buf \in [Indices -> RingChars]
      /\ fifo.count \in 0 .. RING_SIZE /\ RING_SIZE \in Nat
      /\ held \in Seq(RingChars) /\ Len(held) = fifo.count
      /\ fifo.write = RingPlace(fifo.read, fifo.count + 1)
      /\ \A i \in 1 .. Len(held) : fifo.buf[RingPlace(fifo.read, i)] = held[i]
    BY RingAssumption DEF RingInv, RingTypeOK, FifoHoldsItsChars
<1>2. fifo.count < RING_SIZE /\ fifo.count + 1 \in 1 .. RING_SIZE
    BY <1>1 DEF tty_fifo_put
<1>3. fifo' = [fifo EXCEPT !.buf = [fifo.buf EXCEPT ![fifo.write] = c],
                          !.write = After(fifo.write), !.count = fifo.count + 1]
    BY DEF tty_fifo_put
<1>4. /\ fifo'.buf = [fifo.buf EXCEPT ![fifo.write] = c]
      /\ fifo'.write = After(fifo.write) /\ fifo'.count = fifo.count + 1
      /\ fifo'.read = fifo.read
      /\ fifo' \in [buf : [Indices -> RingChars], read : Indices, write : Indices,
                    count : 0 .. RING_SIZE]
    <2>1. fifo \in [buf : [Indices -> RingChars], read : Indices, write : Indices,
                    count : 0 .. RING_SIZE]
        BY DEF RingInv, RingTypeOK
    <2>2. After(fifo.write) \in Indices /\ fifo.count + 1 \in 0 .. RING_SIZE
        BY <1>1, <1>2, AfterIsIndex
    <2>3. [fifo.buf EXCEPT ![fifo.write] = c] \in [Indices -> RingChars]
        BY <1>1
    <2>. QED
        BY <1>3, <2>1, <2>2, <2>3
<1>5. /\ held' \in Seq(RingChars) /\ Len(held') = fifo.count + 1
      /\ \A i \in 1 .. Len(held) : held'[i] = held[i]
      /\ held'[fifo.count + 1] = c
    BY <1>1 DEF tty_fifo_put
<1>6. fifo'.write = RingPlace(fifo.read, (fifo.count + 1) + 1)
    BY <1>1, <1>2, <1>4, PlaceAfter
<1>7. ASSUME NEW i \in 1 .. fifo.count + 1
      PROVE  fifo'.buf[RingPlace(fifo.read, i)] = held'[i]
    <2>1. i \in 1 .. RING_SIZE /\ RingPlace(fifo.read, i) \in Indices
        BY <1>1, <1>2, PlaceIsIndex
    <2>2. CASE i = fifo.count + 1
        BY <1>1, <1>4, <1>5, <2>2
    <2>3. CASE i # fifo.count + 1
        <3>1. i \in 1 .. Len(held)
            BY <1>1, <2>3
        <3>2. RingPlace(fifo.read, i) # fifo.write
            BY <1>1, <1>2, <2>1, <2>3, PlacesDiffer
        <3>3. fifo'.buf[RingPlace(fifo.read, i)] = fifo.buf[RingPlace(fifo.read, i)]
            BY <1>1, <1>4, <2>1, <3>2
        <3>. QED
            BY <1>1, <1>5, <3>1, <3>3
    <2>. QED
        BY <2>2, <2>3
<1>8. FifoHoldsItsChars'
    BY <1>2, <1>4, <1>5, <1>6, <1>7 DEF FifoHoldsItsChars
<1>. QED
    BY <1>4, <1>5, <1>8 DEF RingInv, RingTypeOK

LEMMA GetInv ==
    ASSUME RingInv, tty_fifo_get
    PROVE  RingInv'
<1>1. /\ fifo.read \in Indices /\ fifo.write \in Indices
      /\ fifo.count \in 1 .. RING_SIZE /\ RING_SIZE \in Nat
      /\ held \in Seq(RingChars) /\ Len(held) = fifo.count
      /\ fifo.write = RingPlace(fifo.read, fifo.count + 1)
      /\ \A i \in 1 .. Len(held) : fifo.buf[RingPlace(fifo.read, i)] = held[i]
    BY RingAssumption DEF RingInv, RingTypeOK, FifoHoldsItsChars, tty_fifo_get
<1>2. fifo' = [fifo EXCEPT !.read = After(fifo.read), !.count = fifo.count - 1]
    BY DEF tty_fifo_get
<1>3. /\ fifo'.buf = fifo.buf /\ fifo'.write = fifo.write
      /\ fifo'.read = After(fifo.read) /\ fifo'.count = fifo.count - 1
      /\ fifo' \in [buf : [Indices -> RingChars], read : Indices, write : Indices,
                    count : 0 .. RING_SIZE]
    <2>1. fifo \in [buf : [Indices -> RingChars], read : Indices, write : Indices,
                    count : 0 .. RING_SIZE]
        BY DEF RingInv, RingTypeOK
    <2>2. After(fifo.read) \in Indices /\ fifo.count - 1 \in 0 .. RING_SIZE
        BY <1>1, AfterIsIndex
    <2>. QED
        BY <1>2, <2>1, <2>2
<1>4. /\ held' \in Seq(RingChars) /\ Len(held') = fifo.count - 1
      /\ \A i \in 1 .. Len(held') : held'[i] = held[i + 1]
    <2>1. held # <<>> /\ held' = Tail(held)
        BY <1>1 DEF tty_fifo_get
    <2>. QED
        BY <1>1, <2>1, HeadTailProperties
<1>5. fifo'.write = RingPlace(fifo'.read, fifo'.count + 1)
    <2>1. fifo'.count + 1 = fifo.count
        BY <1>1, <1>3
    <2>2. RingPlace(After(fifo.read), fifo.count) = RingPlace(fifo.read, fifo.count + 1)
        BY <1>1, PlaceFromAfter
    <2>. QED
        BY <1>1, <1>3, <2>1, <2>2
<1>6. ASSUME NEW i \in 1 .. Len(held')
      PROVE  fifo'.buf[RingPlace(fifo'.read, i)] = held'[i]
    <2>1. i \in 1 .. RING_SIZE /\ i + 1 \in 1 .. Len(held)
        BY <1>1, <1>4
    <2>2. RingPlace(After(fifo.read), i) = RingPlace(fifo.read, i + 1)
        BY <1>1, <2>1, PlaceFromAfter
    <2>. QED
        BY <1>1, <1>3, <1>4, <2>1, <2>2
<1>7. FifoHoldsItsChars'
    <2>1. fifo'.count = Len(held') /\ fifo'.count <= RING_SIZE
        BY <1>1, <1>3, <1>4
    <2>. QED
        BY <1>5, <1>6, <2>1 DEF FifoHoldsItsChars
<1>. QED
    BY <1>3, <1>4, <1>7 DEF RingInv, RingTypeOK

LEMMA EmptyInv ==
    ASSUME NEW b \in [Indices -> RingChars],
           fifo = [buf |-> b, read |-> 0, write |-> 0, count |-> 0], held = <<>>
    PROVE  RingInv
<1>1. 0 \in Indices /\ 0 \in 0 .. RING_SIZE /\ RingPlace(0, 0 + 1) = 0
    BY RingAssumption DEF Indices, RingPlace
<1>. QED
    BY <1>1, RingAssumption DEF RingInv, RingTypeOK, FifoHoldsItsChars

-----------------------------------------------------------------------------

(* What is got from the ring is what was put, in order, and nothing is overwritten
   before, for a ring of any size. *)
THEOREM RingIsSequence == RingSpec => []FifoHoldsItsChars
<1>1. RingInit => RingInv
    BY RingAssumption, EmptyInv DEF RingInit, Indices
<1>2. RingInv /\ [RingNext]_ringVars => RingInv'
    <2>. SUFFICES ASSUME RingInv, [RingNext]_ringVars PROVE RingInv'
        OBVIOUS
    <2>1. CASE tty_fifo_init
        <3>1. fifo \in [buf : [Indices -> RingChars], read : Indices, write : Indices,
                        count : 0 .. RING_SIZE]
            BY DEF RingInv, RingTypeOK
        <3>2. /\ fifo.buf \in [Indices -> RingChars]
              /\ fifo' = [buf |-> fifo.buf, read |-> 0, write |-> 0, count |-> 0]
              /\ held' = <<>>
            BY <2>1, <3>1 DEF tty_fifo_init
        <3>3. 0 \in Indices /\ 0 \in 0 .. RING_SIZE /\ RingPlace(0, 0 + 1) = 0
            BY RingAssumption DEF Indices, RingPlace
        <3>. QED
            BY <3>2, <3>3, RingAssumption DEF RingInv, RingTypeOK, FifoHoldsItsChars
    <2>2. CASE tty_fifo_get
        BY <2>2, GetInv
    <2>3. ASSUME NEW c \in RingChars, tty_fifo_put(c) PROVE RingInv'
        BY <2>3, PutInv
    <2>4. CASE UNCHANGED ringVars
        BY <2>4 DEF ringVars, RingInv, RingTypeOK, FifoHoldsItsChars
    <2>. QED
        BY <2>1, <2>2, <2>3, <2>4 DEF RingNext
<1>3. RingInv => FifoHoldsItsChars
    BY DEF RingInv
<1>. QED
    BY <1>1, <1>2, <1>3, PTL DEF RingSpec

-----------------------------------------------------------------------------
(* Descriptors, files and devices: the inductive invariant. *)

\* Who is in a call exists, and a fork's child does not exist yet.
CallersExist ==
    /\ \A t \in Tasks : pc[t] # "user" => t \in alive
    /\ \A t \in Tasks : childOf[t] # None <=> pc[t] \in {"fork_load", "fork_store"}
    /\ \A t \in Tasks : childOf[t] # None => childOf[t] \notin alive
    /\ \A t, u \in Tasks : childOf[t] # None /\ childOf[t] = childOf[u] => t = u
    /\ \A c \in Tasks : (c \notin alive /\ \A t \in Tasks : childOf[t] # c)
                            => \A i \in Fds : fdTable[c][i] = None

\* Nobody calls while a file is being closed, and one task at a time holds
\* file_alloc_mutex.
OneAtATime ==
    /\ \A t, u \in Tasks : pc[t] \in ClosePoints /\ u # t => pc[u] = "user"
    /\ \A t, u \in Tasks : pc[t] \in {"dup_store", "fork_store"}
                             /\ pc[u] \in {"dup_store", "fork_store"} => t = u

\* What a call knows of its file is still true.
Knows(t) ==
    LET a == arg[t] IN
    /\ pc[t] \in {"open_dev", "open_free"} =>
          /\ a.file \in Files /\ devId[a.file] = None
          /\ a.fd # None => fdTable[t][a.fd] = a.file
    /\ pc[t] = "open_dev" => a.fd # None
    /\ pc[t] \in {"dup_load", "dup_store"} =>
          a.file \in Files /\ \E i \in Fds : fdTable[t][i] = a.file
    /\ pc[t] = "fork_store" =>
          FdsToCopy(t) # {} /\ a.file = fdTable[t][Lowest(FdsToCopy(t))]
    /\ pc[t] \in {"dup_store", "fork_store", "close_store"} => a.value = ref[a.file]
    /\ pc[t] \in ClosePoints =>
          a.file \in Files /\ a.fd \in Fds /\ fdTable[t][a.fd] = a.file
    /\ pc[t] \in {"close_dev", "close_free"} => ref[a.file] = 0

CallsKnow == \A t \in Tasks : Knows(t)

\* The points where a call means the file of its argument.
FilePoints == Points \ {"user", "fork_load"}

\* A file that is being opened is known to the opener alone, by one descriptor.
Private(t) ==
    pc[t] \in {"open_dev", "open_free"} =>
        /\ \A u \in Tasks \ {t} :
              /\ pc[u] \in FilePoints => arg[u].file # arg[t].file
              /\ \A i \in Fds : fdTable[u][i] # arg[t].file
        /\ \A i \in Fds : i # arg[t].fd => fdTable[t][i] # arg[t].file

FreshIsPrivate == \A t \in Tasks : Private(t)

\* A descriptor names a file in use, until the call that closes it has counted.
Closed(t, i) == pc[t] \in {"close_dev", "close_free", "close_fd"} /\ arg[t].fd = i
NamedInUse ==
    \A t \in Tasks, i \in Fds :
        fdTable[t][i] # None /\ ~Closed(t, i) => ref[fdTable[t][i]] > 0

Balanced ==
    \A f \in Files :
        ref[f] = Cardinality(Named(f)) + Cardinality(Unnamed(f)) - Cardinality(Uncounted(f))

\* The device table.
DevicesBalanced ==
    /\ \A d \in DevIds : openCount[d] = Cardinality(Using(d))
    /\ \A d \in DevIds : openCount[d] # 0 => minor[d] # NoDev
    /\ \A d, e \in DevIds : openCount[d] # 0 /\ openCount[e] # 0 /\ minor[d] = minor[e] => d = e

FileInv ==
    /\ FileTypeOK /\ CallersExist /\ OneAtATime /\ CallsKnow
    /\ FreshIsPrivate /\ NamedInUse /\ Balanced /\ DevicesBalanced

-----------------------------------------------------------------------------
(* The least and the greatest of a set of numbers. *)

LEMMA LeastExists ==
    ASSUME NEW S \in SUBSET Nat, S # {}
    PROVE  \E x \in S : \A y \in S : x <= y
<1>1. \E x \in S : \A y \in S : ~(<<y, x>> \in OpToRel(<, Nat))
    BY NatLessThanWellFounded, WFMin
<1>2. PICK x \in S : \A y \in S : ~(<<y, x>> \in OpToRel(<, Nat))
    BY <1>1
<1>3. \A y \in S : ~(y < x)
    BY <1>2 DEF OpToRel
<1>. QED
    BY <1>3

LEMMA LowestIsIn ==
    ASSUME NEW S \in SUBSET Nat, S # {}
    PROVE  Lowest(S) \in S
    BY LeastExists DEF Lowest

(* A set with a greatest element below each of its elements would go on: the one *)
(* with the most elements below it is the greatest.                              *)
LEMMA HighestIsIn ==
    ASSUME NEW S \in SUBSET Nat, S # {}, IsFiniteSet(S)
    PROVE  Highest(S) \in S
<1>. DEFINE Below(x) == {y \in S : y < x}
            Above(x) == Cardinality(S) - Cardinality(Below(x))
            Ns == {Above(x) : x \in S}
<1>1. \A x \in S : /\ IsFiniteSet(Below(x))
                   /\ Cardinality(Below(x)) \in Nat
                   /\ Cardinality(Below(x)) <= Cardinality(S)
    <2>1. ASSUME NEW x \in S
          PROVE  /\ IsFiniteSet(Below(x)) /\ Cardinality(Below(x)) \in Nat
                 /\ Cardinality(Below(x)) <= Cardinality(S)
        <3>1. Below(x) \in SUBSET S
            OBVIOUS
        <3>. HIDE DEF Below
        <3>. QED
            BY <3>1, FS_Subset, FS_CardinalityType
    <2>. QED
        BY <2>1
<1>2. Cardinality(S) \in Nat
    BY FS_CardinalityType
<1>3. Ns \in SUBSET Nat /\ Ns # {}
    <2>. HIDE DEF Below
    <2>1. \A x \in S : Above(x) \in Nat
        BY <1>1, <1>2
    <2>. HIDE DEF Above
    <2>. QED
        BY <2>1
<1>4. PICK x \in S : \A y \in S : Above(x) <= Above(y)
    <2>1. PICK n \in Ns : \A k \in Ns : n <= k
        <3>. HIDE DEF Ns
        <3>. QED
            BY <1>3, LeastExists
    <2>. QED
        BY <2>1
<1>5. ASSUME NEW y \in S, ~(y <= x) PROVE FALSE
    <2>1. Below(x) \cup {x} \in SUBSET Below(y) /\ x \notin Below(x)
        <3>1. x < y /\ \A z \in S : z < x => z < y
            BY <1>5
        <3>2. Below(x) \in SUBSET Below(y)
            BY <3>1
        <3>. QED
            BY <3>1, <3>2
    <2>. HIDE DEF Below
    <2>2. Cardinality(Below(x) \cup {x}) = Cardinality(Below(x)) + 1
        BY <1>1, <2>1, FS_AddElement
    <2>3. Cardinality(Below(x) \cup {x}) <= Cardinality(Below(y))
        BY <1>1, <2>1, FS_Subset
    <2>4. Cardinality(Below(y)) <= Cardinality(Below(x))
        BY <1>1, <1>2, <1>4
    <2>. QED
        BY <1>1, <2>2, <2>3, <2>4
<1>6. \A y \in S : y <= x
    BY <1>5
<1>. QED
    BY <1>6 DEF Highest

-----------------------------------------------------------------------------
(* Counting. *)

(* One element more, or one less. *)
LEMMA CountUp ==
    ASSUME NEW S, IsFiniteSet(S), NEW x, x \notin S, NEW T, T = S \cup {x}
    PROVE  IsFiniteSet(T) /\ Cardinality(T) = Cardinality(S) + 1
    BY FS_AddElement

LEMMA CountDown ==
    ASSUME NEW S, IsFiniteSet(S), NEW x \in S, NEW T, T = S \ {x}
    PROVE  IsFiniteSet(T) /\ Cardinality(T) = Cardinality(S) - 1 /\ Cardinality(S) >= 1
<1>1. IsFiniteSet(T) /\ Cardinality(T) = Cardinality(S) - 1
    BY FS_RemoveElement
<1>2. Cardinality(T) \in Nat /\ Cardinality(S) \in Nat
    BY <1>1, FS_CardinalityType
<1>. QED
    BY <1>1, <1>2

LEMMA SetsAreFinite ==
    /\ \A f : IsFiniteSet(Named(f)) /\ Cardinality(Named(f)) \in Nat
    /\ \A f : IsFiniteSet(Unnamed(f)) /\ Cardinality(Unnamed(f)) \in Nat
    /\ \A f : IsFiniteSet(Uncounted(f)) /\ Cardinality(Uncounted(f)) \in Nat
    /\ \A d : IsFiniteSet(Using(d)) /\ Cardinality(Using(d)) \in Nat
<1>1. IsFiniteSet(Tasks) /\ IsFiniteSet(Files) /\ IsFiniteSet(Tasks \X Fds)
    BY FileAssumption, FS_Product
<1>2. \A f : /\ Named(f) \in SUBSET (Tasks \X Fds)
             /\ Unnamed(f) \in SUBSET Tasks
             /\ Uncounted(f) \in SUBSET Tasks
             /\ Using(f) \in SUBSET Files
    BY DEF Named, Unnamed, Uncounted, Using
<1>. QED
    BY <1>1, <1>2, FS_Subset, FS_CardinalityType

(* A descriptor gets a name ... *)
LEMMA NameAdded ==
    ASSUME fdTable \in [Tasks -> [Fds -> Files \cup {None}]],
           NEW t \in Tasks, NEW i \in Fds, NEW f \in Files,
           fdTable[t][i] = None, fdTable' = [fdTable EXCEPT ![t][i] = f]
    PROVE  /\ Cardinality(Named(f)') = Cardinality(Named(f)) + 1
           /\ \A g \in Files : g # f => Named(g)' = Named(g)
<1>1. \A u \in Tasks, j \in Fds :
         fdTable'[u][j] = IF u = t /\ j = i THEN f ELSE fdTable[u][j]
    OBVIOUS
<1>2. None \notin Files
    BY FileAssumption
<1>3. Named(f)' = Named(f) \cup {<<t, i>>} /\ <<t, i>> \notin Named(f)
    BY <1>1, <1>2 DEF Named
<1>4. \A g \in Files : g # f => Named(g)' = Named(g)
    BY <1>1, <1>2 DEF Named
<1>. QED
    BY <1>3, <1>4, CountUp, SetsAreFinite

(* ... or loses it. *)
LEMMA NameDropped ==
    ASSUME fdTable \in [Tasks -> [Fds -> Files \cup {None}]],
           NEW t \in Tasks, NEW i \in Fds, NEW f \in Files,
           fdTable[t][i] = f, fdTable' = [fdTable EXCEPT ![t][i] = None]
    PROVE  /\ Cardinality(Named(f)') = Cardinality(Named(f)) - 1
           /\ \A g \in Files : g # f => Named(g)' = Named(g)
<1>1. \A u \in Tasks, j \in Fds :
         fdTable'[u][j] = IF u = t /\ j = i THEN None ELSE fdTable[u][j]
    OBVIOUS
<1>2. None \notin Files
    BY FileAssumption
<1>3. Named(f)' = Named(f) \ {<<t, i>>} /\ <<t, i>> \in Named(f)
    BY <1>1, <1>2 DEF Named
<1>4. \A g \in Files : g # f => Named(g)' = Named(g)
    BY <1>1, <1>2 DEF Named
<1>. QED
    BY <1>3, <1>4, CountDown, SetsAreFinite

LEMMA NamesKept ==
    ASSUME fdTable' = fdTable
    PROVE  \A f : Named(f)' = Named(f)
    BY DEF Named

\* Task t counts for none of f's sets, or for one.
IsUncounted(t, f) ==
    arg[t].file = f /\ pc[t] \in {"dup_load", "dup_store", "close_dev", "close_free", "close_fd"}
IsUnnamed(t, f) == arg[t].file = f /\ pc[t] = "open_free" /\ arg[t].fd = None

\* Nothing happens to the calls of other tasks.
Alone(t) == \A u \in Tasks \ {t} : pc'[u] = pc[u] /\ arg'[u] = arg[u]

LEMMA UncountedMoves ==
    ASSUME NEW t \in Tasks, Alone(t), NEW f
    PROVE  /\ IsUncounted(t, f)' /\ ~IsUncounted(t, f) =>
                 Cardinality(Uncounted(f)') = Cardinality(Uncounted(f)) + 1
           /\ ~IsUncounted(t, f)' /\ IsUncounted(t, f) =>
                 Cardinality(Uncounted(f)') = Cardinality(Uncounted(f)) - 1
           /\ (IsUncounted(t, f)' <=> IsUncounted(t, f)) => Uncounted(f)' = Uncounted(f)
<1>1. Uncounted(f) = {u \in Tasks : IsUncounted(u, f)}
    BY DEF Uncounted, IsUncounted
<1>2. Uncounted(f)' = {u \in Tasks : IsUncounted(u, f)'}
    BY DEF Uncounted, IsUncounted
<1>3. \A u \in Tasks \ {t} : IsUncounted(u, f)' <=> IsUncounted(u, f)
    BY DEF Alone, IsUncounted
<1>4. CASE IsUncounted(t, f)' /\ ~IsUncounted(t, f)
    <2>1. Uncounted(f)' = Uncounted(f) \cup {t} /\ t \notin Uncounted(f)
        BY <1>1, <1>2, <1>3, <1>4
    <2>. QED
        BY <1>4, <2>1, CountUp, SetsAreFinite
<1>5. CASE ~IsUncounted(t, f)' /\ IsUncounted(t, f)
    <2>1. Uncounted(f)' = Uncounted(f) \ {t} /\ t \in Uncounted(f)
        BY <1>1, <1>2, <1>3, <1>5
    <2>. QED
        BY <1>5, <2>1, CountDown, SetsAreFinite
<1>6. (IsUncounted(t, f)' <=> IsUncounted(t, f)) => Uncounted(f)' = Uncounted(f)
    BY <1>1, <1>2, <1>3
<1>. QED
    BY <1>4, <1>5, <1>6

LEMMA UnnamedMoves ==
    ASSUME NEW t \in Tasks, Alone(t), NEW f
    PROVE  /\ IsUnnamed(t, f)' /\ ~IsUnnamed(t, f) =>
                 Cardinality(Unnamed(f)') = Cardinality(Unnamed(f)) + 1
           /\ ~IsUnnamed(t, f)' /\ IsUnnamed(t, f) =>
                 Cardinality(Unnamed(f)') = Cardinality(Unnamed(f)) - 1
           /\ (IsUnnamed(t, f)' <=> IsUnnamed(t, f)) => Unnamed(f)' = Unnamed(f)
<1>1. Unnamed(f) = {u \in Tasks : IsUnnamed(u, f)}
    BY DEF Unnamed, IsUnnamed
<1>2. Unnamed(f)' = {u \in Tasks : IsUnnamed(u, f)'}
    BY DEF Unnamed, IsUnnamed
<1>3. \A u \in Tasks \ {t} : IsUnnamed(u, f)' <=> IsUnnamed(u, f)
    BY DEF Alone, IsUnnamed
<1>4. CASE IsUnnamed(t, f)' /\ ~IsUnnamed(t, f)
    <2>1. Unnamed(f)' = Unnamed(f) \cup {t} /\ t \notin Unnamed(f)
        BY <1>1, <1>2, <1>3, <1>4
    <2>. QED
        BY <1>4, <2>1, CountUp, SetsAreFinite
<1>5. CASE ~IsUnnamed(t, f)' /\ IsUnnamed(t, f)
    <2>1. Unnamed(f)' = Unnamed(f) \ {t} /\ t \in Unnamed(f)
        BY <1>1, <1>2, <1>3, <1>5
    <2>. QED
        BY <1>5, <2>1, CountDown, SetsAreFinite
<1>6. (IsUnnamed(t, f)' <=> IsUnnamed(t, f)) => Unnamed(f)' = Unnamed(f)
    BY <1>1, <1>2, <1>3
<1>. QED
    BY <1>4, <1>5, <1>6

-----------------------------------------------------------------------------
(* What does not disturb the balances. *)

LEMMA BalancedKept ==
    ASSUME Balanced, NEW t \in Tasks, Alone(t), ref' = ref, fdTable' = fdTable,
           \A f \in Files : /\ IsUncounted(t, f)' <=> IsUncounted(t, f)
                            /\ IsUnnamed(t, f)' <=> IsUnnamed(t, f)
    PROVE  Balanced'
<1>1. ASSUME NEW f \in Files
      PROVE  /\ Named(f)' = Named(f) /\ Unnamed(f)' = Unnamed(f)
             /\ Uncounted(f)' = Uncounted(f)
    BY NamesKept, UncountedMoves, UnnamedMoves
<1>. QED
    BY <1>1 DEF Balanced

\* File f is open, as far as the devices can tell.
InUse(f) == ref[f] # 0 \/ \E t \in Tasks : pc[t] = "close_dev" /\ arg[t].file = f

LEMMA DevicesKept ==
    ASSUME DevicesBalanced, UNCHANGED devVars,
           \A f \in Files : \A d \in DevIds :
               (devId'[f] = d /\ InUse(f)') <=> (devId[f] = d /\ InUse(f))
    PROVE  DevicesBalanced'
<1>1. \A d \in DevIds : Using(d)' = Using(d)
    BY DEF Using, InUse
<1>. QED
    BY <1>1 DEF DevicesBalanced, devVars

\* One file's count and descriptors change.
LEMMA BalancedStep ==
    ASSUME Balanced, NEW t \in Tasks, Alone(t), NEW f \in Files,
           \A g \in Files \ {f} : /\ ref'[g] = ref[g] /\ Named(g)' = Named(g)
                                  /\ IsUncounted(t, g)' <=> IsUncounted(t, g)
                                  /\ IsUnnamed(t, g)' <=> IsUnnamed(t, g),
           ref'[f] = Cardinality(Named(f)') + Cardinality(Unnamed(f)')
                                            - Cardinality(Uncounted(f)')
    PROVE  Balanced'
<1>1. ASSUME NEW g \in Files \ {f}
      PROVE  Unnamed(g)' = Unnamed(g) /\ Uncounted(g)' = Uncounted(g)
    BY UncountedMoves, UnnamedMoves
<1>. QED
    BY <1>1 DEF Balanced

\* A file that is being opened has a count of one: its descriptor's, or the opener's.
LEMMA FreshCount ==
    ASSUME FileInv, NEW t \in Tasks, pc[t] \in {"open_dev", "open_free"}
    PROVE  arg[t].file \in Files /\ ref[arg[t].file] = 1
<1>. DEFINE f == arg[t].file
<1>1. /\ f \in Files
      /\ arg[t].fd # None => arg[t].fd \in Fds /\ fdTable[t][arg[t].fd] = f
      /\ pc[t] = "open_dev" => arg[t].fd # None
    BY DEF FileInv, FileTypeOK, CallsKnow, Knows
<1>2. /\ \A u \in Tasks \ {t} : /\ pc[u] \in FilePoints => arg[u].file # f
                                /\ \A i \in Fds : fdTable[u][i] # f
      /\ \A i \in Fds : i # arg[t].fd => fdTable[t][i] # f
    BY DEF FileInv, FreshIsPrivate, Private
<1>3. Uncounted(f) = {}
    BY <1>2 DEF Uncounted, FilePoints, Points, ClosePoints
<1>4. None \notin Fds
    BY FileAssumption
<1>5. CASE arg[t].fd = None
    <2>1. Named(f) = {} /\ Unnamed(f) = {t}
        BY <1>1, <1>2, <1>4, <1>5 DEF Named, Unnamed, FilePoints, Points, ClosePoints
    <2>2. Cardinality(Named(f)) = 0 /\ Cardinality(Unnamed(f)) = 1 /\ Cardinality(Uncounted(f)) = 0
        BY <2>1, <1>3, FS_EmptySet, FS_Singleton
    <2>. QED
        BY <1>1, <2>2 DEF FileInv, Balanced
<1>6. CASE arg[t].fd # None
    <2>1. Named(f) = {<<t, arg[t].fd>>} /\ Unnamed(f) = {}
        BY <1>1, <1>2, <1>6 DEF Named, Unnamed, FilePoints, Points, ClosePoints
    <2>2. Cardinality(Named(f)) = 1 /\ Cardinality(Unnamed(f)) = 0 /\ Cardinality(Uncounted(f)) = 0
        BY <2>1, <1>3, FS_EmptySet, FS_Singleton
    <2>. QED
        BY <1>1, <2>2 DEF FileInv, Balanced
<1>. QED
    BY <1>5, <1>6

\* A set of one element at most.
LEMMA AtMostOne ==
    ASSUME NEW S, IsFiniteSet(S), Cardinality(S) <= 1, NEW x \in S, NEW y \in S
    PROVE  x = y
<1>1. SUFFICES ASSUME x # y PROVE FALSE
    OBVIOUS
<1>2. IsFiniteSet(S \ {x}) /\ Cardinality(S \ {x}) = Cardinality(S) - 1
    BY FS_RemoveElement
<1>3. Cardinality((S \ {x}) \ {y}) = Cardinality(S \ {x}) - 1 /\ IsFiniteSet((S \ {x}) \ {y})
    BY <1>1, <1>2, FS_RemoveElement
<1>4. Cardinality((S \ {x}) \ {y}) \in Nat /\ Cardinality(S) \in Nat
    BY <1>3, FS_CardinalityType
<1>. QED
    BY <1>2, <1>3, <1>4

-----------------------------------------------------------------------------
(* The record of a call. *)

Arguments == [fd : Fds \cup {None}, file : Files \cup {None}, value : Int]

LEMMA ArgFresh ==
    ASSUME arg \in [Tasks -> Arguments], NEW t \in Tasks, NEW f \in Files,
           NEW i \in Fds \cup {None},
           arg' = [arg EXCEPT ![t] = [NoArg EXCEPT !.fd = i, !.file = f]]
    PROVE  arg' \in [Tasks -> Arguments] /\ arg'[t].file = f /\ arg'[t].fd = i
<1>. DEFINE a == [NoArg EXCEPT !.fd = i, !.file = f]
<1>1. NoArg \in Arguments
    BY DEF Arguments, NoArg
<1>2. a \in Arguments /\ a.fd = i /\ a.file = f
    BY <1>1 DEF Arguments
<1>3. arg' = [arg EXCEPT ![t] = a]
    OBVIOUS
<1>. HIDE DEF a
<1>. QED
    BY <1>2, <1>3

LEMMA ArgFile ==
    ASSUME arg \in [Tasks -> Arguments], NEW t \in Tasks, NEW f \in Files,
           arg' = [arg EXCEPT ![t].file = f]
    PROVE  /\ arg' \in [Tasks -> Arguments]
           /\ arg'[t].file = f /\ arg'[t].value = arg[t].value /\ arg'[t].fd = arg[t].fd
<1>1. arg[t] \in Arguments /\ arg'[t] = [arg[t] EXCEPT !.file = f]
    OBVIOUS
<1>2. [arg[t] EXCEPT !.file = f] \in Arguments
    BY <1>1 DEF Arguments
<1>3. arg' \in [Tasks -> Arguments]
    BY <1>2
<1>. QED
    BY <1>1, <1>3 DEF Arguments

LEMMA ArgValue ==
    ASSUME arg \in [Tasks -> Arguments], NEW t \in Tasks, NEW v \in Int,
           arg' = [arg EXCEPT ![t].value = v]
    PROVE  /\ arg' \in [Tasks -> Arguments]
           /\ arg'[t].file = arg[t].file /\ arg'[t].value = v /\ arg'[t].fd = arg[t].fd
<1>1. arg[t] \in Arguments /\ arg'[t] = [arg[t] EXCEPT !.value = v]
    OBVIOUS
<1>2. [arg[t] EXCEPT !.value = v] \in Arguments
    BY <1>1 DEF Arguments
<1>3. arg' \in [Tasks -> Arguments]
    BY <1>2
<1>. QED
    BY <1>1, <1>3 DEF Arguments

LEMMA ArgLoaded ==
    ASSUME arg \in [Tasks -> Arguments], NEW t \in Tasks, NEW f \in Files, ref[f] \in Int,
           inc_load(t, f)
    PROVE  /\ arg' \in [Tasks -> Arguments]
           /\ arg'[t].file = f /\ arg'[t].value = ref[f] /\ arg'[t].fd = arg[t].fd
<1>. DEFINE b == [arg EXCEPT ![t].file = f]
<1>1. arg[t] \in Arguments /\ b[t] = [arg[t] EXCEPT !.file = f]
    OBVIOUS
<1>2. [arg[t] EXCEPT !.file = f] \in Arguments
    BY <1>1 DEF Arguments
<1>3. b \in [Tasks -> Arguments] /\ b[t].file = f /\ b[t].fd = arg[t].fd
    BY <1>1, <1>2 DEF Arguments
<1>4. arg' = [b EXCEPT ![t].value = ref[f]]
    BY DEF inc_load
<1>. HIDE DEF b
<1>5. arg' = [b EXCEPT ![t] = [b[t] EXCEPT !.value = ref[f]]] /\ b[t] \in Arguments
    BY <1>3, <1>4
<1>6. [b[t] EXCEPT !.value = ref[f]] \in Arguments
    BY <1>5 DEF Arguments
<1>7. arg' \in [Tasks -> Arguments] /\ arg'[t] = [b[t] EXCEPT !.value = ref[f]]
    BY <1>3, <1>5, <1>6
<1>. QED
    BY <1>3, <1>5, <1>7 DEF Arguments

-----------------------------------------------------------------------------
(* What a call knows stays true while others do not touch it. *)

LEMMA KnowsKept ==
    ASSUME NEW u \in Tasks, Knows(u), pc'[u] = pc[u], arg'[u] = arg[u],
           pc[u] # "user" => fdTable'[u] = fdTable[u],
           pc[u] \in {"open_dev", "open_free"} =>
               devId'[arg[u].file] \in {None, devId[arg[u].file]},
           pc[u] = "fork_store" =>
               childOf'[u] = childOf[u] /\ fdTable'[childOf[u]] = fdTable[childOf[u]],
           pc[u] \in {"dup_store", "fork_store", "close_store", "close_dev", "close_free"} =>
               ref'[arg[u].file] = ref[arg[u].file]
    PROVE  Knows(u)'
<1>1. CASE pc[u] = "user"
    BY <1>1 DEF Knows, ClosePoints
<1>2. CASE pc[u] = "fork_store"
    <2>1. FdsToCopy(u)' = FdsToCopy(u)
        BY <1>2 DEF FdsToCopy
    <2>. QED
        BY <1>2, <2>1 DEF Knows, ClosePoints
<1>3. CASE pc[u] \notin {"user", "fork_store"}
    BY <1>3 DEF Knows
<1>. QED
    BY <1>1, <1>2, <1>3

-----------------------------------------------------------------------------
(* The steps. *)

LEMMA open_alloc_Keeps ==
    ASSUME ~ClosesOverlap, FileInv, NEW t \in Tasks, open_alloc(t)
    PROVE  FileInv'
<1>. USE FileAssumption, DevAssumption
<1>0. Alone(t)
    BY DEF FileInv, FileTypeOK, Alone, Goes, devVars, open_alloc
<1>a. PICK f \in Files : f = Lowest(FreeFiles) /\ ref[f] = 0
    <2>1. FreeFiles \in SUBSET Nat /\ FreeFiles # {}
        BY DEF FreeFiles, open_alloc
    <2>. QED
        BY <2>1, LowestIsIn DEF FreeFiles
<1>b. PICK i \in Fds \cup {None} :
          /\ i = IF FreeFds(t) = {} THEN None ELSE Lowest(FreeFds(t))
          /\ i = None \/ (i \in Fds /\ fdTable[t][i] = None)
    <2>1. FreeFds(t) \in SUBSET Nat
        BY DEF FreeFds
    <2>. QED
        BY <2>1, LowestIsIn DEF FreeFds
<1>c. /\ ref' = [ref EXCEPT ![f] = 1]
      /\ devId' = [devId EXCEPT ![f] = None]
      /\ fdTable' = IF i = None THEN fdTable ELSE [fdTable EXCEPT ![t][i] = f]
      /\ arg' = [arg EXCEPT ![t] = [NoArg EXCEPT !.fd = i, !.file = f]]
      /\ pc' = [pc EXCEPT ![t] = IF i = None THEN "open_free" ELSE "open_dev"]
      /\ UNCHANGED <<openCount, minor, alive, childOf>>
    BY <1>a, <1>b DEF open_alloc, Goes, devVars
<1>d. /\ pc[t] = "user" /\ t \in alive
      /\ \A u \in Tasks : pc[u] \notin ClosePoints /\ pc[u] \notin {"dup_store", "fork_store"}
    BY DEF open_alloc, Calls, MutexFree
<1>e. \A u \in Tasks, j \in Fds : fdTable[u][j] # f
    BY <1>a, <1>d DEF FileInv, NamedInUse, Closed, ClosePoints
<1>f. \A u \in Tasks : pc[u] \in FilePoints => arg[u].file # f
    <2>1. SUFFICES ASSUME NEW u \in Tasks, pc[u] \in FilePoints, arg[u].file = f
                   PROVE  FALSE
        OBVIOUS
    <2>2. pc[u] \in {"open_dev", "open_free", "dup_load"}
        BY <1>d, <2>1 DEF FilePoints, Points
    <2>3. CASE pc[u] = "dup_load"
        BY <1>e, <2>1, <2>3 DEF FileInv, CallsKnow, Knows
    <2>4. CASE pc[u] \in {"open_dev", "open_free"}
        BY <1>a, <2>1, <2>4, FreshCount
    <2>. QED
        BY <2>2, <2>3, <2>4
<1>g. arg' \in [Tasks -> Arguments] /\ arg'[t].file = f /\ arg'[t].fd = i
    BY <1>a, <1>b, <1>c, ArgFresh DEF FileInv, FileTypeOK, Arguments
<1>1. FileTypeOK'
    <2>1. ref' \in [Files -> Nat]
        BY <1>a, <1>b, <1>c DEF FileInv, FileTypeOK, Points
    <2>2. devId' \in [Files -> DevIds \cup {None}]
        BY <1>a, <1>b, <1>c DEF FileInv, FileTypeOK, Points
    <2>3. fdTable' \in [Tasks -> [Fds -> Files \cup {None}]]
        BY <1>a, <1>b, <1>c DEF FileInv, FileTypeOK, Points
    <2>4. arg' \in [Tasks -> Arguments]
        BY <1>g
    <2>5. pc' \in [Tasks -> Points]
        BY <1>a, <1>b, <1>c DEF FileInv, FileTypeOK, Points
    <2>. QED
        BY <2>1, <2>2, <2>3, <2>4, <2>5 DEF FileInv, FileTypeOK, DevTypeOK, Arguments,
           devVars, open_alloc
<1>2. CallersExist'
    BY DEF FileInv, FileTypeOK, CallersExist, OneAtATime, Calls, Goes, MutexFree, devVars,
       open_alloc
<1>3. OneAtATime'
    BY DEF FileInv, FileTypeOK, OneAtATime, ClosePoints, Calls, Goes, MutexFree, devVars,
       open_alloc
<1>4. CallsKnow'
    <2>1. Knows(t)'
        BY <1>a, <1>b, <1>c, <1>g DEF FileInv, FileTypeOK, Knows, ClosePoints
    <2>2. ASSUME NEW u \in Tasks, u # t PROVE Knows(u)'
        BY <1>0, <1>a, <1>c, <1>d, <2>2, KnowsKept DEF FileInv, FileTypeOK, CallsKnow,
           Alone, ClosePoints
    <2>. QED
        BY <2>1, <2>2 DEF CallsKnow
<1>5. FreshIsPrivate'
    <2>1. Private(t)'
        BY <1>0, <1>a, <1>b, <1>c, <1>e, <1>f, <1>g DEF FileInv, FileTypeOK, Private, Alone
    <2>2. ASSUME NEW u \in Tasks, u # t PROVE Private(u)'
        <3>1. pc'[u] = pc[u] /\ arg'[u] = arg[u] /\ Private(u)
            BY <1>0, <2>2 DEF Alone, FileInv, FreshIsPrivate
        <3>2. SUFFICES ASSUME pc[u] \in {"open_dev", "open_free"} PROVE Private(u)'
            BY <3>1 DEF Private
        <3>3. f # arg[u].file
            BY <1>f, <3>2 DEF FilePoints, Points
        <3>4. \A w \in Tasks, j \in Fds : fdTable'[w][j] \in {f, fdTable[w][j]}
            BY <1>b, <1>c DEF FileInv, FileTypeOK
        <3>5. \A w \in Tasks : w = t \/ (pc'[w] = pc[w] /\ arg'[w] = arg[w])
            BY <1>0 DEF Alone
        <3>. QED
            BY <1>g, <3>1, <3>2, <3>3, <3>4, <3>5 DEF Private
    <2>. QED
        BY <2>1, <2>2 DEF FreshIsPrivate
<1>6. NamedInUse'
    BY <1>a, <1>b, <1>c, <1>d, <1>e DEF FileInv, FileTypeOK, NamedInUse, Closed, ClosePoints
<1>7. Balanced'
    <2>1. \A g \in Files \ {f} : ref'[g] = ref[g] /\ Named(g)' = Named(g)
        BY <1>a, <1>b, <1>c, NameAdded, NamesKept DEF FileInv, FileTypeOK
    <2>2. \A g \in Files \ {f} : /\ IsUncounted(t, g)' <=> IsUncounted(t, g)
                                 /\ IsUnnamed(t, g)' <=> IsUnnamed(t, g)
        BY <1>d, <1>g DEF IsUncounted, IsUnnamed
    <2>3. /\ ~IsUncounted(t, f)' /\ ~IsUncounted(t, f)
          /\ IsUnnamed(t, f)' <=> i = None
          /\ ~IsUnnamed(t, f)
        BY <1>c, <1>d, <1>g DEF FileInv, FileTypeOK, IsUncounted, IsUnnamed
    <2>4. /\ Uncounted(f)' = Uncounted(f)
          /\ i = None => Cardinality(Unnamed(f)') = Cardinality(Unnamed(f)) + 1
          /\ i # None => Unnamed(f)' = Unnamed(f)
        BY <1>0, <2>3, UncountedMoves, UnnamedMoves
    <2>5. /\ i = None => Named(f)' = Named(f)
          /\ i # None => Cardinality(Named(f)') = Cardinality(Named(f)) + 1
        <3>1. ASSUME i = None PROVE Named(f)' = Named(f)
            BY <1>c, <3>1, NamesKept
        <3>2. ASSUME i # None PROVE Cardinality(Named(f)') = Cardinality(Named(f)) + 1
            BY <1>b, <1>c, <3>2, NameAdded DEF FileInv, FileTypeOK
        <3>. QED
            BY <3>1, <3>2
    <2>6. ref[f] = Cardinality(Named(f)) + Cardinality(Unnamed(f)) - Cardinality(Uncounted(f))
        BY <1>a DEF FileInv, Balanced
    <2>7. ref'[f] = 1
        BY <1>a, <1>c DEF FileInv, FileTypeOK
    <2>8. ref'[f] = Cardinality(Named(f)') + Cardinality(Unnamed(f)') - Cardinality(Uncounted(f)')
        BY <1>a, <2>4, <2>5, <2>6, <2>7, SetsAreFinite
    <2>. QED
        BY <1>0, <1>a, <2>1, <2>2, <2>8, BalancedStep DEF FileInv
<1>8. DevicesBalanced'
    <2>1. \A g \in Files, d \in DevIds :
              (devId'[g] = d /\ InUse(g)') <=> (devId[g] = d /\ InUse(g))
        BY <1>0, <1>a, <1>c, <1>d, <1>g DEF FileInv, FileTypeOK, InUse, Alone, ClosePoints
    <2>. QED
        BY <1>c, <2>1, DevicesKept DEF FileInv, devVars
<1>. QED
    BY <1>1, <1>2, <1>3, <1>4, <1>5, <1>6, <1>7, <1>8 DEF FileInv

LEMMA open_free_Keeps ==
    ASSUME ~ClosesOverlap, FileInv, NEW t \in Tasks, open_free(t)
    PROVE  FileInv'
<1>. USE FileAssumption, DevAssumption
<1>0. Alone(t)
    BY DEF FileInv, FileTypeOK, Alone, Goes, Returns, devVars, open_free
<1>a. PICK f \in Files : f = arg[t].file /\ ref[f] = 1 /\ devId[f] = None
    BY FreshCount DEF open_free, FileInv, CallsKnow, Knows
<1>b. PICK i \in Fds \cup {None} : i = arg[t].fd /\ (i = None \/ fdTable[t][i] = f)
    BY <1>a DEF open_free, FileInv, FileTypeOK, CallsKnow, Knows
<1>c. /\ ref' = [ref EXCEPT ![f] = 0]
      /\ fdTable' = IF i = None THEN fdTable ELSE [fdTable EXCEPT ![t][i] = None]
      /\ arg' = [arg EXCEPT ![t] = NoArg] /\ pc' = [pc EXCEPT ![t] = "user"]
      /\ UNCHANGED <<openCount, minor, devId, alive, childOf>>
    BY <1>a, <1>b DEF open_free, file_free, Goes, Returns, devVars, FileInv, FileTypeOK
<1>d. /\ pc[t] = "open_free"
      /\ \A u \in Tasks : pc[u] \notin {"dup_store", "fork_store"}
      /\ \A u \in Tasks \ {t} : pc[u] \notin ClosePoints
    BY DEF open_free, file_free, MutexFree, FileInv, OneAtATime, ClosePoints
<1>1. FileTypeOK'
    <2>1. ref' \in [Files -> Nat]
        BY <1>a, <1>c DEF FileInv, FileTypeOK
    <2>2. fdTable' \in [Tasks -> [Fds -> Files \cup {None}]]
        BY DEF FileInv, FileTypeOK, CallsKnow, Knows, ClosePoints, Goes, Returns, MutexFree,
           file_free, devVars, open_free
    <2>3. pc' \in [Tasks -> Points]
        BY DEF FileInv, FileTypeOK, Points, ClosePoints, Goes, Returns, MutexFree,
           file_free, devVars, open_free
    <2>4. arg' \in [Tasks -> Arguments]
        BY DEF FileInv, FileTypeOK, NoArg, Arguments, Goes, Returns, MutexFree, file_free,
           devVars, open_free
    <2>. QED
        BY <2>1, <2>2, <2>3, <2>4 DEF FileInv, FileTypeOK, DevTypeOK, Arguments, devVars,
           open_free
<1>2. CallersExist'
    BY DEF FileInv, FileTypeOK, CallersExist, OneAtATime, Goes, Returns, MutexFree,
       file_free, devVars, open_free
<1>3. OneAtATime'
    BY DEF FileInv, FileTypeOK, OneAtATime, ClosePoints, Goes, Returns, MutexFree,
       file_free, devVars, open_free
<1>4. CallsKnow'
    <2>1. Knows(t)'
        BY DEF FileInv, FileTypeOK, CallersExist, OneAtATime, CallsKnow, Knows,
           FreshIsPrivate, Private, NamedInUse, NoArg, ClosePoints, FdsToCopy, Goes,
           Returns, MutexFree, file_free, devVars, open_free
    <2>2. ASSUME NEW u \in Tasks, u # t PROVE Knows(u)'
        BY <1>0, <1>a, <1>b, <1>c, <1>d, <2>2, KnowsKept DEF FileInv, FileTypeOK, CallsKnow,
           Alone, ClosePoints
    <2>. QED
        BY <2>1, <2>2 DEF CallsKnow
<1>5. FreshIsPrivate'
    <2>1. Private(t)'
        BY DEF FileInv, FileTypeOK, CallersExist, OneAtATime, CallsKnow, Knows,
           FreshIsPrivate, Private, NamedInUse, FilePoints, Points, ClosePoints, NoArg,
           FdsToCopy, Goes, Returns, MutexFree, file_free, devVars, open_free
    <2>2. ASSUME NEW u \in Tasks, u # t PROVE Private(u)'
        BY <2>2 DEF FileInv, FileTypeOK, CallersExist, OneAtATime, CallsKnow, Knows,
           FreshIsPrivate, Private, NamedInUse, FilePoints, Points, ClosePoints, NoArg,
           Goes, Returns, MutexFree, file_free, devVars, open_free
    <2>. QED
        BY <2>1, <2>2 DEF FreshIsPrivate
<1>6. NamedInUse'
    BY DEF FileInv, FileTypeOK, CallersExist, OneAtATime, CallsKnow, Knows, FreshIsPrivate,
       Private, NamedInUse, Closed, ClosePoints, Goes, Returns, MutexFree, file_free,
       devVars, open_free
<1>7. Balanced'
    <2>1. \A g \in Files \ {f} : ref'[g] = ref[g] /\ Named(g)' = Named(g)
        <3>1. ASSUME i = None, NEW g \in Files \ {f} PROVE Named(g)' = Named(g)
            BY <1>c, <3>1, NamesKept
        <3>2. ASSUME i # None, NEW g \in Files \ {f} PROVE Named(g)' = Named(g)
            BY <1>b, <1>c, <3>2, NameDropped DEF FileInv, FileTypeOK
        <3>. QED
            BY <1>c, <3>1, <3>2 DEF FileInv, FileTypeOK
    <2>2. \A g \in Files \ {f} : /\ IsUncounted(t, g)' <=> IsUncounted(t, g)
                                 /\ IsUnnamed(t, g)' <=> IsUnnamed(t, g)
        BY <1>a, <1>b, <1>c, <1>d DEF IsUncounted, IsUnnamed, FileInv, FileTypeOK
    <2>3. /\ ~IsUncounted(t, f)' /\ ~IsUncounted(t, f)
          /\ IsUnnamed(t, f) <=> i = None
          /\ ~IsUnnamed(t, f)'
        BY <1>a, <1>b, <1>c, <1>d DEF FileInv, FileTypeOK, IsUncounted, IsUnnamed
    <2>4. /\ Uncounted(f)' = Uncounted(f)
          /\ i = None => Cardinality(Unnamed(f)') = Cardinality(Unnamed(f)) - 1
          /\ i # None => Unnamed(f)' = Unnamed(f)
        BY <1>0, <2>3, UncountedMoves, UnnamedMoves
    <2>5. /\ i = None => Named(f)' = Named(f)
          /\ i # None => Cardinality(Named(f)') = Cardinality(Named(f)) - 1
        BY <1>a, <1>b, <1>c, NameDropped, NamesKept DEF FileInv, FileTypeOK
    <2>6. ref[f] = Cardinality(Named(f)) + Cardinality(Unnamed(f)) - Cardinality(Uncounted(f))
        BY <1>a DEF FileInv, Balanced
    <2>7. ref'[f] = 0
        BY <1>a, <1>c DEF FileInv, FileTypeOK
    <2>8. ref'[f] = Cardinality(Named(f)') + Cardinality(Unnamed(f)') - Cardinality(Uncounted(f)')
        BY <1>a, <2>4, <2>5, <2>6, <2>7, SetsAreFinite
    <2>9. Balanced
        BY DEF FileInv
    <2>. QED
        BY <1>0, <2>1, <2>2, <2>8, <2>9, BalancedStep
<1>8. DevicesBalanced'
    <2>1. \A g \in Files, d \in DevIds :
              (devId'[g] = d /\ InUse(g)') <=> (devId[g] = d /\ InUse(g))
        BY <1>0, <1>a, <1>c, <1>d DEF FileInv, FileTypeOK, InUse, Alone, ClosePoints
    <2>. QED
        BY <1>c, <2>1, DevicesKept DEF FileInv, devVars
<1>. QED
    BY <1>1, <1>2, <1>3, <1>4, <1>5, <1>6, <1>7, <1>8 DEF FileInv

LEMMA open_dev_Keeps ==
    ASSUME ~ClosesOverlap, FileInv, NEW t \in Tasks, NEW m \in Minors, open_dev(t, m)
    PROVE  FileInv'
<1>. USE FileAssumption, DevAssumption
<1>0. Alone(t)
    BY DEF FileInv, FileTypeOK, Alone, Goes, Returns, open_dev
<1>a. PICK f \in Files : f = arg[t].file /\ ref[f] = 1 /\ devId[f] = None
    BY FreshCount DEF open_dev, FileInv, CallsKnow, Knows
<1>b. PICK d \in DevIds : /\ dev_open_again(m, d) \/ dev_open_new(m, d)
                          /\ devId' = [devId EXCEPT ![f] = d]
    BY <1>a DEF open_dev
<1>c. /\ pc' = [pc EXCEPT ![t] = "user"] /\ arg' = [arg EXCEPT ![t] = NoArg]
      /\ UNCHANGED <<ref, fdTable, alive, childOf>>
    BY DEF open_dev, Returns, Goes
<1>d. pc[t] = "open_dev" /\ \A u \in Tasks : pc[u] # "close_dev"
    BY DEF open_dev, FileInv, OneAtATime, ClosePoints
<1>e. /\ openCount' = [openCount EXCEPT ![d] = @ + 1]
      /\ minor'[d] = m /\ \A e \in DevIds \ {d} : minor'[e] = minor[e]
      /\ \A e \in DevIds \ {d} : openCount[e] # 0 => minor[e] # m
    <2>1. CASE dev_open_again(m, d)
        BY <2>1 DEF dev_open_again, OpenEntries, FileInv, FileTypeOK, DevTypeOK,
           DevicesBalanced
    <2>2. CASE dev_open_new(m, d)
        <3>1. FreeEntries \in SUBSET DevIds /\ IsFiniteSet(FreeEntries)
            BY FS_Subset DEF FreeEntries
        <3>2. d \in FreeEntries
            BY <2>2, <3>1, HighestIsIn DEF dev_open_new
        <3>3. openCount[d] = 0
            BY <3>2 DEF FreeEntries
        <3>. QED
            BY <2>2, <3>3 DEF dev_open_new, OpenEntries, FileInv, FileTypeOK, DevTypeOK
    <2>. QED
        BY <1>b, <2>1, <2>2
<1>1. FileTypeOK'
    <2>1. DevTypeOK'
        BY DEF FileInv, FileTypeOK, DevTypeOK, dev_open_again, dev_open_new, dev_open_fails,
           dev_close, OpenEntries, Goes, Returns, open_dev
    <2>2. devId' \in [Files -> DevIds \cup {None}]
        BY DEF FileInv, FileTypeOK, CallsKnow, Knows, OpenEntries, Goes, Returns, open_dev
    <2>3. pc' \in [Tasks -> Points]
        BY DEF FileInv, FileTypeOK, Points, ClosePoints, Goes, Returns, open_dev
    <2>4. arg' \in [Tasks -> Arguments]
        BY DEF FileInv, FileTypeOK, NoArg, Arguments, Goes, Returns, open_dev
    <2>. QED
        BY <2>1, <2>2, <2>3, <2>4 DEF FileInv, FileTypeOK, DevTypeOK, Arguments, devVars,
           open_dev
<1>2. CallersExist'
    BY DEF FileInv, FileTypeOK, CallersExist, OneAtATime, Goes, Returns, open_dev
<1>3. OneAtATime'
    BY DEF FileInv, FileTypeOK, OneAtATime, ClosePoints, Goes, Returns, open_dev
<1>4. CallsKnow'
    <2>1. Knows(t)'
        BY DEF FileInv, FileTypeOK, CallersExist, OneAtATime, CallsKnow, Knows,
           FreshIsPrivate, Private, NamedInUse, NoArg, ClosePoints, FdsToCopy, Goes,
           Returns, open_dev
    <2>2. ASSUME NEW u \in Tasks, u # t PROVE Knows(u)'
        BY <1>0, <1>a, <1>b, <1>c, <1>d, <2>2, KnowsKept DEF FileInv, FileTypeOK, CallsKnow,
           Alone, FreshIsPrivate, Private, FilePoints, Points, ClosePoints
    <2>. QED
        BY <2>1, <2>2 DEF CallsKnow
<1>5. FreshIsPrivate'
    <2>1. Private(t)'
        BY DEF FileInv, FileTypeOK, CallersExist, OneAtATime, CallsKnow, Knows,
           FreshIsPrivate, Private, NamedInUse, FilePoints, Points, ClosePoints, NoArg,
           FdsToCopy, Goes, Returns, open_dev
    <2>2. ASSUME NEW u \in Tasks, u # t PROVE Private(u)'
        BY <2>2 DEF FileInv, FileTypeOK, CallersExist, OneAtATime, CallsKnow, Knows,
           FreshIsPrivate, Private, NamedInUse, FilePoints, Points, ClosePoints, NoArg,
           Goes, Returns, open_dev
    <2>. QED
        BY <2>1, <2>2 DEF FreshIsPrivate
<1>6. NamedInUse'
    BY DEF FileInv, FileTypeOK, CallersExist, OneAtATime, CallsKnow, Knows, FreshIsPrivate,
       Private, NamedInUse, Closed, ClosePoints, Goes, Returns, open_dev
<1>7. Balanced'
    <2>1. \A g \in Files : /\ IsUncounted(t, g)' <=> IsUncounted(t, g)
                           /\ IsUnnamed(t, g)' <=> IsUnnamed(t, g)
        BY DEF FileInv, FileTypeOK, CallsKnow, Knows, IsUncounted, IsUnnamed, NoArg,
           ClosePoints, Goes, Returns, open_dev
    <2>. QED
        BY <1>0, <2>1, BalancedKept DEF FileInv, devVars, open_dev
<1>8. DevicesBalanced'
    <2>1. \A g \in Files : InUse(g)' <=> InUse(g)
        BY <1>0, <1>c, <1>d DEF FileInv, FileTypeOK, InUse, Alone
    <2>2. \A g \in Files : devId'[g] = IF g = f THEN d ELSE devId[g]
        BY <1>b DEF FileInv, FileTypeOK
    <2>u. /\ \A e : Using(e) = {g \in Files : devId[g] = e /\ InUse(g)}
          /\ \A e : Using(e)' = {g \in Files : devId'[g] = e /\ InUse(g)'}
        BY DEF Using, InUse
    <2>v. InUse(f)
        BY <1>a DEF InUse
    <2>3. Using(d)' = Using(d) \cup {f} /\ f \notin Using(d)
        BY <1>a, <2>1, <2>2, <2>u, <2>v
    <2>4. \A e \in DevIds \ {d} : Using(e)' = Using(e)
        BY <1>a, <2>1, <2>2, <2>u
    <2>5. Cardinality(Using(d)') = Cardinality(Using(d)) + 1
        BY <2>3, CountUp, SetsAreFinite
    <2>6. /\ openCount[d] \in Int /\ openCount'[d] = openCount[d] + 1
          /\ \A e \in DevIds \ {d} : openCount'[e] = openCount[e]
        BY <1>e DEF FileInv, FileTypeOK, DevTypeOK
    <2>7. \A e \in DevIds : openCount'[e] = Cardinality(Using(e)')
        BY <2>4, <2>5, <2>6 DEF FileInv, DevicesBalanced
    <2>8. \A e \in DevIds : openCount'[e] # 0 => minor'[e] # NoDev
        BY <1>e, <2>6 DEF FileInv, DevicesBalanced
    <2>9. \A e, g \in DevIds : openCount'[e] # 0 /\ openCount'[g] # 0 /\ minor'[e] = minor'[g] => e = g
        BY <1>e, <2>6 DEF FileInv, DevicesBalanced
    <2>. QED
        BY <2>7, <2>8, <2>9 DEF DevicesBalanced
<1>. QED
    BY <1>1, <1>2, <1>3, <1>4, <1>5, <1>6, <1>7, <1>8 DEF FileInv

LEMMA open_dev_fails_Keeps ==
    ASSUME ~ClosesOverlap, FileInv, NEW t \in Tasks, NEW m \in Minors, open_dev_fails(t, m)
    PROVE  FileInv'
<1>. USE FileAssumption, DevAssumption
<1>0. Alone(t)
    BY DEF FileInv, FileTypeOK, Alone, Goes, open_dev_fails
<1>1. FileTypeOK'
    BY DEF FileInv, FileTypeOK, DevTypeOK, dev_open_again, dev_open_new, dev_open_fails,
       dev_close, OpenEntries, Points, ClosePoints, devVars, Goes, open_dev_fails
<1>2. CallersExist'
    <2>1. pc[t] = "open_dev" /\ UNCHANGED <<alive, childOf, fdTable>>
        BY DEF open_dev_fails
    <2>2. \A u \in Tasks : pc'[u] = IF u = t THEN "open_free" ELSE pc[u]
        BY DEF FileInv, FileTypeOK, Goes, open_dev_fails
    <2>. QED
        BY <2>1, <2>2 DEF FileInv, CallersExist
<1>3. OneAtATime'
    BY DEF FileInv, FileTypeOK, OneAtATime, ClosePoints, Goes, open_dev_fails
<1>4. CallsKnow'
    <2>1. Knows(t)'
        BY DEF FileInv, FileTypeOK, CallersExist, OneAtATime, CallsKnow, Knows,
           FreshIsPrivate, Private, NamedInUse, NoArg, ClosePoints, FdsToCopy, Goes,
           open_dev_fails
    <2>2. ASSUME NEW u \in Tasks, u # t PROVE Knows(u)'
        BY <1>0, <2>2, KnowsKept DEF FileInv, FileTypeOK, Alone, CallersExist, OneAtATime,
           CallsKnow, FreshIsPrivate, Private, FilePoints, Points, ClosePoints, Goes,
           open_dev_fails
    <2>. QED
        BY <2>1, <2>2 DEF CallsKnow
<1>5. FreshIsPrivate'
    <2>1. Private(t)'
        BY DEF FileInv, FileTypeOK, CallersExist, OneAtATime, CallsKnow, Knows,
           FreshIsPrivate, Private, NamedInUse, FilePoints, Points, ClosePoints, NoArg,
           FdsToCopy, Goes, open_dev_fails
    <2>2. ASSUME NEW u \in Tasks, u # t PROVE Private(u)'
        BY <2>2 DEF FileInv, FileTypeOK, CallersExist, OneAtATime, CallsKnow, Knows,
           FreshIsPrivate, Private, NamedInUse, FilePoints, Points, ClosePoints, NoArg,
           Goes, open_dev_fails
    <2>. QED
        BY <2>1, <2>2 DEF FreshIsPrivate
<1>6. NamedInUse'
    BY DEF FileInv, FileTypeOK, CallersExist, OneAtATime, CallsKnow, Knows, FreshIsPrivate,
       Private, NamedInUse, Closed, ClosePoints, Goes, open_dev_fails
<1>7. Balanced'
    <2>1. \A f \in Files : /\ IsUncounted(t, f)' <=> IsUncounted(t, f)
                           /\ IsUnnamed(t, f)' <=> IsUnnamed(t, f)
        BY DEF FileInv, FileTypeOK, CallsKnow, Knows, IsUncounted, IsUnnamed, NoArg,
           ClosePoints, Goes, open_dev_fails
    <2>. QED
        BY <1>0, <2>1, BalancedKept DEF FileInv, devVars, open_dev_fails
<1>8. DevicesBalanced'
    <2>1. \A d \in DevIds : openCount[d] # 0 => minor'[d] = minor[d]
        <3>1. FreeEntries # {} => Highest(FreeEntries) \in FreeEntries
            <4>1. FreeEntries \in SUBSET Nat /\ IsFiniteSet(FreeEntries)
                BY FS_Subset DEF FreeEntries
            <4>. QED
                BY <4>1, HighestIsIn
        <3>. QED
            BY <3>1 DEF FreeEntries, open_dev_fails, dev_open_fails, FileInv, FileTypeOK,
               DevTypeOK
    <2>2. \A d \in DevIds : Using(d)' = Using(d)
        BY DEF Using, open_dev_fails, Goes, FileInv, FileTypeOK
    <2>3. openCount' = openCount
        BY DEF open_dev_fails, dev_open_fails
    <2>. QED
        BY <2>1, <2>2, <2>3 DEF FileInv, DevicesBalanced
<1>. QED
    BY <1>1, <1>2, <1>3, <1>4, <1>5, <1>6, <1>7, <1>8 DEF FileInv

LEMMA dup_fd_Keeps ==
    ASSUME ~ClosesOverlap, FileInv, NEW t \in Tasks, NEW i \in Fds, dup_fd(t, i)
    PROVE  FileInv'
<1>. USE FileAssumption, DevAssumption
<1>0. Alone(t)
    BY DEF FileInv, FileTypeOK, Alone, Goes, devVars, dup_fd
<1>a. PICK f \in Files : f = fdTable[t][i]
    BY DEF dup_fd, FileInv, FileTypeOK
<1>b. PICK k \in Fds : k = Lowest(FreeFds(t)) /\ fdTable[t][k] = None
    <2>1. FreeFds(t) \in SUBSET Nat /\ FreeFds(t) # {}
        BY DEF FreeFds, dup_fd
    <2>. QED
        BY <2>1, LowestIsIn DEF FreeFds
<1>c. /\ fdTable' = [fdTable EXCEPT ![t][k] = f]
      /\ arg' = [arg EXCEPT ![t].file = f] /\ pc' = [pc EXCEPT ![t] = "dup_load"]
      /\ UNCHANGED <<openCount, minor, ref, devId, alive, childOf>>
    BY <1>a, <1>b DEF dup_fd, Goes, devVars
<1>d. pc[t] = "user" /\ t \in alive /\ \A u \in Tasks : pc[u] \notin ClosePoints
    BY DEF dup_fd, Calls
<1>e. arg' \in [Tasks -> Arguments] /\ arg'[t].file = f
    BY <1>c, ArgFile DEF FileInv, FileTypeOK, Arguments
<1>1. FileTypeOK'
    <2>1. fdTable' \in [Tasks -> [Fds -> Files \cup {None}]]
        BY <1>b, <1>c DEF FileInv, FileTypeOK
    <2>2. arg' \in [Tasks -> Arguments]
        BY <1>e
    <2>3. pc' \in [Tasks -> Points]
        BY DEF FileInv, FileTypeOK, Points, ClosePoints, Calls, Goes, devVars, dup_fd
    <2>. QED
        BY <2>1, <2>2, <2>3 DEF FileInv, FileTypeOK, DevTypeOK, Arguments, devVars, dup_fd
<1>2. CallersExist'
    <2>1. \A u \in Tasks : pc'[u] # "user" => u \in alive'
        BY DEF FileInv, FileTypeOK, CallersExist, OneAtATime, Calls, Goes, devVars, dup_fd
    <2>2. \A u \in Tasks : childOf'[u] # None <=> pc'[u] \in {"fork_load", "fork_store"}
        BY DEF FileInv, FileTypeOK, CallersExist, OneAtATime, Calls, Goes, devVars, dup_fd
    <2>3. \A u \in Tasks : childOf'[u] # None => childOf'[u] \notin alive'
        BY DEF FileInv, FileTypeOK, CallersExist, OneAtATime, Calls, Goes, devVars, dup_fd
    <2>4. \A u, v \in Tasks : childOf'[u] # None /\ childOf'[u] = childOf'[v] => u = v
        BY DEF FileInv, FileTypeOK, CallersExist, OneAtATime, Calls, Goes, devVars, dup_fd
    <2>5. \A c \in Tasks : (c \notin alive' /\ \A u \in Tasks : childOf'[u] # c)
                            => \A j \in Fds : fdTable'[c][j] = None
        <3>1. \A c \in Tasks : c # t => fdTable'[c] = fdTable[c]
            BY <1>c DEF FileInv, FileTypeOK
        <3>2. alive' = alive /\ childOf' = childOf /\ t \in alive
            BY <1>c, <1>d
        <3>. QED
            BY <3>1, <3>2 DEF FileInv, CallersExist
    <2>. QED
        BY <2>1, <2>2, <2>3, <2>4, <2>5 DEF CallersExist
<1>3. OneAtATime'
    BY DEF FileInv, FileTypeOK, OneAtATime, ClosePoints, Calls, Goes, devVars, dup_fd
<1>4. CallsKnow'
    <2>1. Knows(t)'
        BY DEF FileInv, FileTypeOK, CallersExist, OneAtATime, CallsKnow, Knows,
           FreshIsPrivate, Private, NamedInUse, NoArg, ClosePoints, FdsToCopy, Calls, Goes,
           devVars, dup_fd
    <2>2. ASSUME NEW u \in Tasks, u # t PROVE Knows(u)'
        BY <1>0, <1>c, <1>d, <2>2, KnowsKept DEF FileInv, FileTypeOK, CallsKnow,
           CallersExist, Alone
    <2>. QED
        BY <2>1, <2>2 DEF CallsKnow
<1>5. FreshIsPrivate'
    <2>1. Private(t)'
        BY DEF FileInv, FileTypeOK, CallersExist, OneAtATime, CallsKnow, Knows,
           FreshIsPrivate, Private, NamedInUse, FilePoints, Points, ClosePoints, NoArg,
           FdsToCopy, Calls, Goes, devVars, dup_fd
    <2>2. ASSUME NEW u \in Tasks, u # t PROVE Private(u)'
        BY <2>2 DEF FileInv, FileTypeOK, CallersExist, OneAtATime, CallsKnow, Knows,
           FreshIsPrivate, Private, NamedInUse, FilePoints, Points, ClosePoints, NoArg,
           Calls, Goes, devVars, dup_fd
    <2>. QED
        BY <2>1, <2>2 DEF FreshIsPrivate
<1>6. NamedInUse'
    BY DEF FileInv, FileTypeOK, CallersExist, OneAtATime, CallsKnow, Knows, FreshIsPrivate,
       Private, NamedInUse, Closed, ClosePoints, Calls, Goes, devVars, dup_fd
<1>7. Balanced'
    <2>1. \A g \in Files \ {f} : ref'[g] = ref[g] /\ Named(g)' = Named(g)
        BY <1>b, <1>c, NameAdded DEF FileInv, FileTypeOK
    <2>2. \A g \in Files \ {f} : /\ IsUncounted(t, g)' <=> IsUncounted(t, g)
                                 /\ IsUnnamed(t, g)' <=> IsUnnamed(t, g)
        BY <1>d, <1>e DEF IsUncounted, IsUnnamed
    <2>3. /\ IsUncounted(t, f)' /\ ~IsUncounted(t, f)
          /\ ~IsUnnamed(t, f)' /\ ~IsUnnamed(t, f)
        BY <1>c, <1>d, <1>e DEF FileInv, FileTypeOK, IsUncounted, IsUnnamed
    <2>4. /\ Cardinality(Uncounted(f)') = Cardinality(Uncounted(f)) + 1
          /\ Unnamed(f)' = Unnamed(f)
          /\ Cardinality(Named(f)') = Cardinality(Named(f)) + 1
        BY <1>0, <1>b, <1>c, <2>3, UncountedMoves, UnnamedMoves, NameAdded DEF FileInv,
           FileTypeOK
    <2>5. ref'[f] = Cardinality(Named(f)') + Cardinality(Unnamed(f)') - Cardinality(Uncounted(f)')
        BY <1>c, <2>4, SetsAreFinite DEF FileInv, Balanced
    <2>. QED
        BY <1>0, <2>1, <2>2, <2>5, BalancedStep DEF FileInv
<1>8. DevicesBalanced'
    BY DevicesKept DEF FileInv, InUse, FileTypeOK, ClosePoints, Goes, Calls, devVars, dup_fd
<1>. QED
    BY <1>1, <1>2, <1>3, <1>4, <1>5, <1>6, <1>7, <1>8 DEF FileInv

LEMMA dup_load_Keeps ==
    ASSUME ~ClosesOverlap, FileInv, NEW t \in Tasks, dup_load(t)
    PROVE  FileInv'
<1>. USE FileAssumption, DevAssumption
<1>0. Alone(t)
    BY DEF FileInv, FileTypeOK, Alone, Goes, inc_load, devVars, dup_load
<1>a. PICK f \in Files : f = arg[t].file
    BY DEF dup_load, FileInv, CallsKnow, Knows
<1>b. ref[f] \in Int
    BY DEF FileInv, FileTypeOK
<1>c. /\ arg' \in [Tasks -> Arguments]
      /\ arg'[t].file = f /\ arg'[t].value = ref[f] /\ arg'[t].fd = arg[t].fd
    BY <1>a, <1>b, ArgLoaded DEF dup_load, FileInv, FileTypeOK, Arguments
<1>d. /\ pc[t] = "dup_load" /\ pc' = [pc EXCEPT ![t] = "dup_store"]
      /\ UNCHANGED <<openCount, minor, ref, devId, fdTable, alive, childOf>>
    BY DEF dup_load, Goes, devVars
<1>1. FileTypeOK'
    <2>1. arg' \in [Tasks -> Arguments]
        BY <1>c
    <2>2. pc' \in [Tasks -> Points]
        BY DEF FileInv, FileTypeOK, Points, ClosePoints, Goes, MutexFree, inc_load, devVars,
           dup_load
    <2>. QED
        BY <2>1, <2>2 DEF FileInv, FileTypeOK, DevTypeOK, Arguments, devVars, dup_load
<1>2. CallersExist'
    BY DEF FileInv, FileTypeOK, CallersExist, OneAtATime, Goes, MutexFree, inc_load,
       devVars, dup_load
<1>3. OneAtATime'
    BY DEF FileInv, FileTypeOK, OneAtATime, ClosePoints, Goes, MutexFree, inc_load, devVars,
       dup_load
<1>4. CallsKnow'
    <2>1. Knows(t)'
        BY <1>a, <1>c, <1>d DEF FileInv, FileTypeOK, CallsKnow, Knows, ClosePoints
    <2>2. ASSUME NEW u \in Tasks, u # t PROVE Knows(u)'
        BY <1>0, <1>d, <2>2, KnowsKept DEF FileInv, FileTypeOK, CallsKnow, Alone
    <2>. QED
        BY <2>1, <2>2 DEF CallsKnow
<1>5. FreshIsPrivate'
    <2>1. Private(t)'
        BY DEF FileInv, FileTypeOK, CallersExist, OneAtATime, CallsKnow, Knows,
           FreshIsPrivate, Private, NamedInUse, FilePoints, Points, ClosePoints, NoArg,
           FdsToCopy, Goes, MutexFree, inc_load, devVars, dup_load
    <2>2. ASSUME NEW u \in Tasks, u # t PROVE Private(u)'
        BY <2>2 DEF FileInv, FileTypeOK, CallersExist, OneAtATime, CallsKnow, Knows,
           FreshIsPrivate, Private, NamedInUse, FilePoints, Points, ClosePoints, NoArg,
           Goes, MutexFree, inc_load, devVars, dup_load
    <2>. QED
        BY <2>1, <2>2 DEF FreshIsPrivate
<1>6. NamedInUse'
    BY DEF FileInv, FileTypeOK, CallersExist, OneAtATime, CallsKnow, Knows, FreshIsPrivate,
       Private, NamedInUse, Closed, ClosePoints, Goes, MutexFree, inc_load, devVars,
       dup_load
<1>7. Balanced'
    <2>1. \A g \in Files : /\ IsUncounted(t, g)' <=> IsUncounted(t, g)
                           /\ IsUnnamed(t, g)' <=> IsUnnamed(t, g)
        BY DEF FileInv, FileTypeOK, CallsKnow, Knows, IsUncounted, IsUnnamed, NoArg,
           ClosePoints, Goes, inc_load, devVars, dup_load
    <2>. QED
        BY <1>0, <2>1, BalancedKept DEF FileInv, devVars, dup_load
<1>8. DevicesBalanced'
    BY DevicesKept DEF FileInv, InUse, FileTypeOK, ClosePoints, Goes, inc_load, devVars,
       dup_load
<1>. QED
    BY <1>1, <1>2, <1>3, <1>4, <1>5, <1>6, <1>7, <1>8 DEF FileInv

LEMMA dup_store_Keeps ==
    ASSUME ~ClosesOverlap, FileInv, NEW t \in Tasks, dup_store(t)
    PROVE  FileInv'
<1>. USE FileAssumption, DevAssumption
<1>0. Alone(t)
    BY DEF FileInv, FileTypeOK, Alone, Goes, Returns, devVars, dup_store
<1>a. PICK f \in Files : f = arg[t].file /\ arg[t].value = ref[f]
    BY DEF dup_store, FileInv, CallsKnow, Knows
<1>b. /\ ref' = [ref EXCEPT ![f] = @ + 1]
      /\ pc' = [pc EXCEPT ![t] = "user"] /\ arg' = [arg EXCEPT ![t] = NoArg]
      /\ UNCHANGED <<openCount, minor, devId, fdTable, alive, childOf>>
    BY <1>a DEF dup_store, inc_store, Returns, Goes, devVars, FileInv, FileTypeOK
<1>c. /\ pc[t] = "dup_store"
      /\ \A u \in Tasks \ {t} : pc[u] \notin {"dup_store", "fork_store"} \cup ClosePoints
    BY DEF dup_store, FileInv, OneAtATime
<1>d. ref[f] > 0
    <2>1. PICK i \in Fds : fdTable[t][i] = f
        BY <1>a DEF dup_store, FileInv, CallsKnow, Knows
    <2>. QED
        BY <1>c, <2>1 DEF FileInv, NamedInUse, Closed, ClosePoints
<1>1. FileTypeOK'
    BY DEF FileInv, FileTypeOK, DevTypeOK, CallsKnow, Knows, NamedInUse, Closed,
       ClosePoints, Points, NoArg, Goes, Returns, inc_store, devVars, dup_store
<1>2. CallersExist'
    BY DEF FileInv, FileTypeOK, CallersExist, OneAtATime, Goes, Returns, inc_store, devVars,
       dup_store
<1>3. OneAtATime'
    BY DEF FileInv, FileTypeOK, OneAtATime, ClosePoints, Goes, Returns, inc_store, devVars,
       dup_store
<1>4. CallsKnow'
    <2>1. Knows(t)'
        BY DEF FileInv, FileTypeOK, CallersExist, OneAtATime, CallsKnow, Knows,
           FreshIsPrivate, Private, NamedInUse, NoArg, ClosePoints, FdsToCopy, Goes,
           Returns, inc_store, devVars, dup_store
    <2>2. ASSUME NEW u \in Tasks, u # t PROVE Knows(u)'
        BY <1>0, <1>a, <1>b, <1>c, <2>2, KnowsKept DEF FileInv, FileTypeOK, CallsKnow,
           Alone, ClosePoints
    <2>. QED
        BY <2>1, <2>2 DEF CallsKnow
<1>5. FreshIsPrivate'
    <2>1. Private(t)'
        BY DEF FileInv, FileTypeOK, CallersExist, OneAtATime, CallsKnow, Knows,
           FreshIsPrivate, Private, NamedInUse, FilePoints, Points, ClosePoints, NoArg,
           FdsToCopy, Goes, Returns, inc_store, devVars, dup_store
    <2>2. ASSUME NEW u \in Tasks, u # t PROVE Private(u)'
        BY <2>2 DEF FileInv, FileTypeOK, CallersExist, OneAtATime, CallsKnow, Knows,
           FreshIsPrivate, Private, NamedInUse, FilePoints, Points, ClosePoints, NoArg,
           Goes, Returns, inc_store, devVars, dup_store
    <2>. QED
        BY <2>1, <2>2 DEF FreshIsPrivate
<1>6. NamedInUse'
    BY DEF FileInv, FileTypeOK, CallersExist, OneAtATime, CallsKnow, Knows, FreshIsPrivate,
       Private, NamedInUse, Closed, ClosePoints, Goes, Returns, inc_store, devVars,
       dup_store
<1>7. Balanced'
    <2>1. \A g \in Files \ {f} : ref'[g] = ref[g] /\ Named(g)' = Named(g)
        BY <1>b, NamesKept DEF FileInv, FileTypeOK
    <2>2. \A g \in Files \ {f} : /\ IsUncounted(t, g)' <=> IsUncounted(t, g)
                                 /\ IsUnnamed(t, g)' <=> IsUnnamed(t, g)
        BY <1>a, <1>b, <1>c DEF IsUncounted, IsUnnamed, FileInv, FileTypeOK
    <2>3. /\ ~IsUncounted(t, f)' /\ IsUncounted(t, f)
          /\ ~IsUnnamed(t, f)' /\ ~IsUnnamed(t, f)
        BY <1>a, <1>b, <1>c DEF FileInv, FileTypeOK, IsUncounted, IsUnnamed
    <2>4. /\ Cardinality(Uncounted(f)') = Cardinality(Uncounted(f)) - 1
          /\ Unnamed(f)' = Unnamed(f) /\ Named(f)' = Named(f)
        BY <1>0, <1>b, <2>3, UncountedMoves, UnnamedMoves, NamesKept
    <2>5. ref'[f] = Cardinality(Named(f)') + Cardinality(Unnamed(f)') - Cardinality(Uncounted(f)')
        BY <1>b, <2>4, SetsAreFinite DEF FileInv, FileTypeOK, Balanced
    <2>. QED
        BY <1>0, <2>1, <2>2, <2>5, BalancedStep DEF FileInv
<1>8. DevicesBalanced'
    <2>1. \A g \in Files, d \in DevIds :
              (devId'[g] = d /\ InUse(g)') <=> (devId[g] = d /\ InUse(g))
        BY <1>0, <1>b, <1>c, <1>d DEF FileInv, FileTypeOK, InUse, Alone, ClosePoints
    <2>. QED
        BY <1>b, <2>1, DevicesKept DEF FileInv, devVars
<1>. QED
    BY <1>1, <1>2, <1>3, <1>4, <1>5, <1>6, <1>7, <1>8 DEF FileInv

LEMMA fork_init_Keeps ==
    ASSUME ~ClosesOverlap, FileInv, NEW t \in Tasks, NEW c \in Tasks, fork_init(t, c)
    PROVE  FileInv'
<1>. USE FileAssumption, DevAssumption
<1>0. Alone(t)
    BY DEF FileInv, FileTypeOK, Alone, Goes, devVars, fork_init
<1>1. FileTypeOK'
    BY DEF FileInv, FileTypeOK, DevTypeOK, Points, ClosePoints, Calls, Goes, devVars,
       fork_init
<1>2. CallersExist'
    <2>1. \A u \in Tasks : pc'[u] # "user" => u \in alive'
        BY DEF FileInv, FileTypeOK, CallersExist, OneAtATime, Calls, Goes, devVars,
           fork_init
    <2>2. \A u \in Tasks : childOf'[u] # None <=> pc'[u] \in {"fork_load", "fork_store"}
        BY DEF FileInv, FileTypeOK, CallersExist, OneAtATime, Calls, Goes, devVars,
           fork_init
    <2>3. \A u \in Tasks : childOf'[u] # None => childOf'[u] \notin alive'
        BY DEF FileInv, FileTypeOK, CallersExist, OneAtATime, Calls, Goes, devVars,
           fork_init
    <2>4. \A u, v \in Tasks : childOf'[u] # None /\ childOf'[u] = childOf'[v] => u = v
        BY DEF FileInv, FileTypeOK, CallersExist, OneAtATime, Calls, Goes, devVars,
           fork_init
    <2>5. \A d \in Tasks : (d \notin alive' /\ \A u \in Tasks : childOf'[u] # d)
                            => \A j \in Fds : fdTable'[d][j] = None
        <3>1. ASSUME NEW d \in Tasks, d \notin alive', \A u \in Tasks : childOf'[u] # d
              PROVE  d \notin alive /\ \A u \in Tasks : childOf[u] # d
            BY <3>1 DEF FileInv, FileTypeOK, CallersExist, Calls, fork_init
        <3>. QED
            BY <3>1 DEF FileInv, CallersExist, fork_init
    <2>. QED
        BY <2>1, <2>2, <2>3, <2>4, <2>5 DEF CallersExist
<1>3. OneAtATime'
    BY DEF FileInv, FileTypeOK, OneAtATime, ClosePoints, Calls, Goes, devVars, fork_init
<1>4. CallsKnow'
    <2>1. Knows(t)'
        BY DEF FileInv, FileTypeOK, CallersExist, OneAtATime, CallsKnow, Knows,
           FreshIsPrivate, Private, NamedInUse, NoArg, ClosePoints, FdsToCopy, Calls, Goes,
           devVars, fork_init
    <2>2. ASSUME NEW u \in Tasks, u # t PROVE Knows(u)'
        BY <1>0, <2>2, KnowsKept DEF FileInv, FileTypeOK, Alone, CallersExist, OneAtATime,
           CallsKnow, FreshIsPrivate, Private, FilePoints, Points, ClosePoints, Calls, Goes,
           devVars, fork_init
    <2>. QED
        BY <2>1, <2>2 DEF CallsKnow
<1>5. FreshIsPrivate'
    <2>1. Private(t)'
        BY DEF FileInv, FileTypeOK, CallersExist, OneAtATime, CallsKnow, Knows,
           FreshIsPrivate, Private, NamedInUse, FilePoints, Points, ClosePoints, NoArg,
           FdsToCopy, Calls, Goes, devVars, fork_init
    <2>2. ASSUME NEW u \in Tasks, u # t PROVE Private(u)'
        BY <2>2 DEF FileInv, FileTypeOK, CallersExist, OneAtATime, CallsKnow, Knows,
           FreshIsPrivate, Private, NamedInUse, FilePoints, Points, ClosePoints, NoArg,
           Calls, Goes, devVars, fork_init
    <2>. QED
        BY <2>1, <2>2 DEF FreshIsPrivate
<1>6. NamedInUse'
    BY DEF FileInv, FileTypeOK, CallersExist, OneAtATime, CallsKnow, Knows, FreshIsPrivate,
       Private, NamedInUse, Closed, ClosePoints, Calls, Goes, devVars, fork_init
<1>7. Balanced'
    <2>1. \A f \in Files : /\ IsUncounted(t, f)' <=> IsUncounted(t, f)
                           /\ IsUnnamed(t, f)' <=> IsUnnamed(t, f)
        BY DEF FileInv, FileTypeOK, CallsKnow, Knows, IsUncounted, IsUnnamed, NoArg,
           ClosePoints, Goes, Calls, devVars, fork_init
    <2>. QED
        BY <1>0, <2>1, BalancedKept DEF FileInv, devVars, fork_init
<1>8. DevicesBalanced'
    BY DevicesKept DEF FileInv, InUse, FileTypeOK, ClosePoints, Goes, Calls, devVars,
       fork_init
<1>. QED
    BY <1>1, <1>2, <1>3, <1>4, <1>5, <1>6, <1>7, <1>8 DEF FileInv

LEMMA fork_load_Keeps ==
    ASSUME ~ClosesOverlap, FileInv, NEW t \in Tasks, fork_load(t)
    PROVE  FileInv'
<1>. USE FileAssumption, DevAssumption
<1>0. Alone(t)
    BY DEF FileInv, FileTypeOK, Alone, Goes, inc_load, devVars, fork_load
<1>a. PICK k \in Fds : /\ k = Lowest(FdsToCopy(t))
                       /\ fdTable[t][k] # None
    <2>1. FdsToCopy(t) \in SUBSET Nat /\ FdsToCopy(t) # {}
        BY DEF FdsToCopy, fork_load
    <2>. QED
        BY <2>1, LowestIsIn DEF FdsToCopy
<1>b. PICK f \in Files : f = fdTable[t][k]
    <2>1. fdTable[t][k] \in Files
        BY <1>a DEF FileInv, FileTypeOK
    <2>. QED
        BY <2>1
<1>e. ref[f] \in Int
    BY DEF FileInv, FileTypeOK
<1>c. /\ arg' \in [Tasks -> Arguments]
      /\ arg'[t].file = f /\ arg'[t].value = ref[f] /\ arg'[t].fd = arg[t].fd
    BY <1>a, <1>b, <1>e, ArgLoaded DEF fork_load, FileInv, FileTypeOK, Arguments
<1>d. /\ pc[t] = "fork_load" /\ pc' = [pc EXCEPT ![t] = "fork_store"]
      /\ UNCHANGED <<openCount, minor, ref, devId, fdTable, alive, childOf>>
    BY DEF fork_load, Goes, devVars
<1>1. FileTypeOK'
    <2>1. arg' \in [Tasks -> Arguments]
        BY <1>c
    <2>2. pc' \in [Tasks -> Points]
        BY DEF FileInv, FileTypeOK, Points, ClosePoints, Goes, MutexFree, inc_load, devVars,
           fork_load
    <2>. QED
        BY <2>1, <2>2 DEF FileInv, FileTypeOK, DevTypeOK, Arguments, devVars, fork_load
<1>2. CallersExist'
    BY DEF FileInv, FileTypeOK, CallersExist, OneAtATime, Goes, MutexFree, inc_load,
       devVars, fork_load
<1>3. OneAtATime'
    BY DEF FileInv, FileTypeOK, OneAtATime, ClosePoints, Goes, MutexFree, inc_load, devVars,
       fork_load
<1>4. CallsKnow'
    <2>1. Knows(t)'
        <3>1. FdsToCopy(t)' = FdsToCopy(t)
            BY <1>d DEF FdsToCopy
        <3>2. FdsToCopy(t) # {}
            BY DEF fork_load
        <3>. QED
            BY <1>a, <1>b, <1>c, <1>d, <3>1, <3>2 DEF FileInv, FileTypeOK, Knows,
               ClosePoints
    <2>2. ASSUME NEW u \in Tasks, u # t PROVE Knows(u)'
        BY <1>0, <1>d, <2>2, KnowsKept DEF FileInv, FileTypeOK, CallsKnow, Alone
    <2>. QED
        BY <2>1, <2>2 DEF CallsKnow
<1>5. FreshIsPrivate'
    <2>1. Private(t)'
        BY <1>d DEF FileInv, FileTypeOK, Private
    <2>2. ASSUME NEW u \in Tasks, u # t PROVE Private(u)'
        BY <1>0, <1>b, <1>c, <1>d, <2>2 DEF FileInv, FileTypeOK, FreshIsPrivate, Private,
           Alone
    <2>. QED
        BY <2>1, <2>2 DEF FreshIsPrivate
<1>6. NamedInUse'
    BY DEF FileInv, FileTypeOK, CallersExist, OneAtATime, CallsKnow, Knows, FreshIsPrivate,
       Private, NamedInUse, Closed, ClosePoints, Goes, MutexFree, inc_load, devVars,
       fork_load
<1>7. Balanced'
    <2>1. \A g \in Files : /\ IsUncounted(t, g)' <=> IsUncounted(t, g)
                           /\ IsUnnamed(t, g)' <=> IsUnnamed(t, g)
        BY DEF FileInv, FileTypeOK, CallsKnow, Knows, IsUncounted, IsUnnamed, NoArg,
           ClosePoints, Goes, inc_load, devVars, fork_load
    <2>. QED
        BY <1>0, <2>1, BalancedKept DEF FileInv, devVars, fork_load
<1>8. DevicesBalanced'
    BY DevicesKept DEF FileInv, InUse, FileTypeOK, ClosePoints, Goes, inc_load, devVars,
       fork_load
<1>. QED
    BY <1>1, <1>2, <1>3, <1>4, <1>5, <1>6, <1>7, <1>8 DEF FileInv

LEMMA fork_store_Keeps ==
    ASSUME ~ClosesOverlap, FileInv, NEW t \in Tasks, fork_store(t)
    PROVE  FileInv'
<1>. USE FileAssumption, DevAssumption
<1>0. Alone(t)
    BY DEF FileInv, FileTypeOK, Alone, Goes, devVars, fork_store
<1>a. PICK c \in Tasks, k \in Fds :
          /\ c = childOf[t] /\ k = Lowest(FdsToCopy(t)) /\ c # t
          /\ fdTable[t][k] # None /\ fdTable[c][k] = None
    <2>1. childOf[t] \in Tasks /\ childOf[t] # t
        BY DEF fork_store, FileInv, FileTypeOK, CallersExist
    <2>2. FdsToCopy(t) \in SUBSET Nat /\ FdsToCopy(t) # {}
        BY DEF FdsToCopy, fork_store, FileInv, CallsKnow, Knows
    <2>. QED
        BY <2>1, <2>2, LowestIsIn DEF FdsToCopy
<1>b. PICK f \in Files : f = arg[t].file /\ f = fdTable[t][k] /\ ref[f] = arg[t].value
    BY <1>a DEF fork_store, FileInv, FileTypeOK, CallsKnow, Knows
<1>c. /\ ref' = [ref EXCEPT ![f] = @ + 1]
      /\ fdTable' = [fdTable EXCEPT ![c][k] = f]
      /\ pc' = [pc EXCEPT ![t] = "fork_load"]
      /\ UNCHANGED <<openCount, minor, devId, alive, arg, childOf>>
    BY <1>a, <1>b DEF fork_store, inc_store, Goes, devVars, FileInv, FileTypeOK
<1>d. /\ pc[t] = "fork_store" /\ c \notin alive /\ pc[c] = "user"
      /\ \A u \in Tasks \ {t} : /\ pc[u] \notin {"dup_store", "fork_store"} \cup ClosePoints
                                /\ childOf[u] # c
    BY <1>a DEF fork_store, FileInv, OneAtATime, CallersExist, ClosePoints
<1>e. ref[f] > 0
    BY <1>a, <1>b, <1>d DEF FileInv, NamedInUse, Closed
<1>1. FileTypeOK'
    <2>1. ref' \in [Files -> Nat]
        BY <1>c DEF FileInv, FileTypeOK
    <2>2. fdTable' \in [Tasks -> [Fds -> Files \cup {None}]]
        BY <1>c DEF FileInv, FileTypeOK
    <2>3. pc' \in [Tasks -> Points]
        BY DEF FileInv, FileTypeOK, Points, ClosePoints, Goes, inc_store, devVars,
           fork_store
    <2>. QED
        BY <2>1, <2>2, <2>3 DEF FileInv, FileTypeOK, DevTypeOK, Arguments, devVars,
           fork_store
<1>2. CallersExist'
    <2>1. \A u \in Tasks : pc'[u] # "user" => u \in alive'
        BY DEF FileInv, FileTypeOK, CallersExist, OneAtATime, Goes, inc_store, devVars,
           fork_store
    <2>2. \A u \in Tasks : childOf'[u] # None <=> pc'[u] \in {"fork_load", "fork_store"}
        BY DEF FileInv, FileTypeOK, CallersExist, OneAtATime, Goes, inc_store, devVars,
           fork_store
    <2>3. \A u \in Tasks : childOf'[u] # None => childOf'[u] \notin alive'
        BY DEF FileInv, FileTypeOK, CallersExist, OneAtATime, Goes, inc_store, devVars,
           fork_store
    <2>4. \A u, v \in Tasks : childOf'[u] # None /\ childOf'[u] = childOf'[v] => u = v
        BY DEF FileInv, FileTypeOK, CallersExist, OneAtATime, Goes, inc_store, devVars,
           fork_store
    <2>5. \A d \in Tasks : (d \notin alive' /\ \A u \in Tasks : childOf'[u] # d)
                            => \A j \in Fds : fdTable'[d][j] = None
        BY <1>a, <1>c, <1>d DEF FileInv, FileTypeOK, CallersExist
    <2>. QED
        BY <2>1, <2>2, <2>3, <2>4, <2>5 DEF CallersExist
<1>3. OneAtATime'
    BY DEF FileInv, FileTypeOK, OneAtATime, ClosePoints, Goes, inc_store, devVars,
       fork_store
<1>4. CallsKnow'
    <2>1. Knows(t)'
        BY <1>c DEF FileInv, FileTypeOK, Knows, ClosePoints
    <2>2. ASSUME NEW u \in Tasks, u # t PROVE Knows(u)'
        BY <1>0, <1>c, <1>d, <2>2, KnowsKept DEF FileInv, FileTypeOK, CallsKnow, Alone,
           ClosePoints
    <2>. QED
        BY <2>1, <2>2 DEF CallsKnow
<1>5. FreshIsPrivate'
    <2>1. Private(t)'
        BY <1>c DEF FileInv, FileTypeOK, Private
    <2>2. ASSUME NEW u \in Tasks, u # t PROVE Private(u)'
        BY <1>0, <1>b, <1>c, <1>d, <2>2 DEF FileInv, FileTypeOK, FreshIsPrivate, Private,
           Alone, FilePoints, Points
    <2>. QED
        BY <2>1, <2>2 DEF FreshIsPrivate
<1>6. NamedInUse'
    BY <1>a, <1>b, <1>c, <1>d, <1>e DEF FileInv, FileTypeOK, NamedInUse, Closed
<1>7. Balanced'
    <2>1. \A g \in Files \ {f} : ref'[g] = ref[g] /\ Named(g)' = Named(g)
        BY <1>a, <1>c, NameAdded DEF FileInv, FileTypeOK
    <2>2. \A g \in Files : /\ IsUncounted(t, g)' <=> IsUncounted(t, g)
                           /\ IsUnnamed(t, g)' <=> IsUnnamed(t, g)
        BY <1>c, <1>d DEF IsUncounted, IsUnnamed, FileInv, FileTypeOK
    <2>3. /\ Uncounted(f)' = Uncounted(f) /\ Unnamed(f)' = Unnamed(f)
          /\ Cardinality(Named(f)') = Cardinality(Named(f)) + 1
        <3>1. Uncounted(f)' = Uncounted(f) /\ Unnamed(f)' = Unnamed(f)
            BY <1>0, <2>2, UncountedMoves, UnnamedMoves
        <3>2. Cardinality(Named(f)') = Cardinality(Named(f)) + 1
            BY <1>a, <1>c, NameAdded DEF FileInv, FileTypeOK
        <3>. QED
            BY <3>1, <3>2
    <2>4. ref'[f] = Cardinality(Named(f)') + Cardinality(Unnamed(f)') - Cardinality(Uncounted(f)')
        BY <1>c, <2>3, SetsAreFinite DEF FileInv, FileTypeOK, Balanced
    <2>. QED
        BY <1>0, <2>1, <2>2, <2>4, BalancedStep DEF FileInv
<1>8. DevicesBalanced'
    <2>1. \A g \in Files, d \in DevIds :
              (devId'[g] = d /\ InUse(g)') <=> (devId[g] = d /\ InUse(g))
        BY <1>0, <1>c, <1>d, <1>e DEF FileInv, FileTypeOK, InUse, Alone, ClosePoints
    <2>. QED
        BY <1>c, <2>1, DevicesKept DEF FileInv, devVars
<1>. QED
    BY <1>1, <1>2, <1>3, <1>4, <1>5, <1>6, <1>7, <1>8 DEF FileInv

LEMMA fork_end_Keeps ==
    ASSUME ~ClosesOverlap, FileInv, NEW t \in Tasks, fork_end(t)
    PROVE  FileInv'
<1>. USE FileAssumption, DevAssumption
<1>0. Alone(t)
    BY DEF FileInv, FileTypeOK, Alone, Goes, Returns, devVars, fork_end
<1>1. FileTypeOK'
    BY DEF FileInv, FileTypeOK, DevTypeOK, CallersExist, Points, ClosePoints, NoArg, Goes,
       Returns, devVars, fork_end
<1>2. CallersExist'
    BY DEF FileInv, FileTypeOK, CallersExist, OneAtATime, Goes, Returns, devVars, fork_end
<1>3. OneAtATime'
    BY DEF FileInv, FileTypeOK, OneAtATime, ClosePoints, Goes, Returns, devVars, fork_end
<1>4. CallsKnow'
    <2>1. Knows(t)'
        BY DEF FileInv, FileTypeOK, CallersExist, OneAtATime, CallsKnow, Knows,
           FreshIsPrivate, Private, NamedInUse, NoArg, ClosePoints, FdsToCopy, Goes,
           Returns, devVars, fork_end
    <2>2. ASSUME NEW u \in Tasks, u # t PROVE Knows(u)'
        BY <1>0, <2>2, KnowsKept DEF FileInv, FileTypeOK, Alone, CallersExist, OneAtATime,
           CallsKnow, FreshIsPrivate, Private, FilePoints, Points, ClosePoints, Goes,
           Returns, devVars, fork_end
    <2>. QED
        BY <2>1, <2>2 DEF CallsKnow
<1>5. FreshIsPrivate'
    <2>1. Private(t)'
        BY DEF FileInv, FileTypeOK, CallersExist, OneAtATime, CallsKnow, Knows,
           FreshIsPrivate, Private, NamedInUse, FilePoints, Points, ClosePoints, NoArg,
           FdsToCopy, Goes, Returns, devVars, fork_end
    <2>2. ASSUME NEW u \in Tasks, u # t PROVE Private(u)'
        BY <2>2 DEF FileInv, FileTypeOK, CallersExist, OneAtATime, CallsKnow, Knows,
           FreshIsPrivate, Private, NamedInUse, FilePoints, Points, ClosePoints, NoArg,
           Goes, Returns, devVars, fork_end
    <2>. QED
        BY <2>1, <2>2 DEF FreshIsPrivate
<1>6. NamedInUse'
    BY DEF FileInv, FileTypeOK, CallersExist, OneAtATime, CallsKnow, Knows, FreshIsPrivate,
       Private, NamedInUse, Closed, ClosePoints, Goes, Returns, devVars, fork_end
<1>7. Balanced'
    <2>1. \A f \in Files : /\ IsUncounted(t, f)' <=> IsUncounted(t, f)
                           /\ IsUnnamed(t, f)' <=> IsUnnamed(t, f)
        BY DEF FileInv, FileTypeOK, CallsKnow, Knows, IsUncounted, IsUnnamed, NoArg,
           ClosePoints, Goes, Returns, devVars, fork_end
    <2>. QED
        BY <1>0, <2>1, BalancedKept DEF FileInv, devVars, fork_end
<1>8. DevicesBalanced'
    BY DevicesKept DEF FileInv, InUse, FileTypeOK, ClosePoints, Goes, Returns, devVars,
       fork_end
<1>. QED
    BY <1>1, <1>2, <1>3, <1>4, <1>5, <1>6, <1>7, <1>8 DEF FileInv

LEMMA close_call_Keeps ==
    ASSUME ~ClosesOverlap, FileInv, NEW t \in Tasks, NEW i \in Fds, close_call(t, i)
    PROVE  FileInv'
<1>. USE FileAssumption, DevAssumption
<1>0. Alone(t)
    BY DEF FileInv, FileTypeOK, Alone, Goes, devVars, close_call
<1>a. PICK f \in Files : f = fdTable[t][i]
    BY DEF close_call, FileInv, FileTypeOK
<1>b. arg' \in [Tasks -> Arguments] /\ arg'[t].file = f /\ arg'[t].fd = i
    BY <1>a, ArgFresh DEF close_call, FileInv, FileTypeOK, Arguments
<1>1. FileTypeOK'
    <2>1. arg' \in [Tasks -> Arguments]
        BY <1>b
    <2>2. pc' \in [Tasks -> Points]
        BY DEF FileInv, FileTypeOK, Points, ClosePoints, Calls, Goes, devVars, close_call
    <2>. QED
        BY <2>1, <2>2 DEF FileInv, FileTypeOK, DevTypeOK, Arguments, devVars, close_call
<1>2. CallersExist'
    <2>1. \A u \in Tasks : pc'[u] # "user" => u \in alive'
        BY DEF FileInv, FileTypeOK, CallersExist, OneAtATime, Calls, Goes, devVars,
           close_call
    <2>2. \A u \in Tasks : childOf'[u] # None <=> pc'[u] \in {"fork_load", "fork_store"}
        BY DEF FileInv, FileTypeOK, CallersExist, OneAtATime, Calls, Goes, devVars,
           close_call
    <2>3. \A u \in Tasks : childOf'[u] # None => childOf'[u] \notin alive'
        BY DEF FileInv, FileTypeOK, CallersExist, OneAtATime, Calls, Goes, devVars,
           close_call
    <2>4. \A u, v \in Tasks : childOf'[u] # None /\ childOf'[u] = childOf'[v] => u = v
        BY DEF FileInv, FileTypeOK, CallersExist, OneAtATime, Calls, Goes, devVars,
           close_call
    <2>5. \A c \in Tasks : (c \notin alive' /\ \A u \in Tasks : childOf'[u] # c)
                            => \A j \in Fds : fdTable'[c][j] = None
        BY DEF FileInv, CallersExist, close_call
    <2>. QED
        BY <2>1, <2>2, <2>3, <2>4, <2>5 DEF CallersExist
<1>3. OneAtATime'
    BY DEF FileInv, FileTypeOK, OneAtATime, ClosePoints, Calls, Goes, devVars, close_call
<1>4. CallsKnow'
    <2>1. Knows(t)'
        BY DEF FileInv, FileTypeOK, CallersExist, OneAtATime, CallsKnow, Knows,
           FreshIsPrivate, Private, NamedInUse, NoArg, ClosePoints, FdsToCopy, Calls, Goes,
           devVars, close_call
    <2>2. ASSUME NEW u \in Tasks, u # t PROVE Knows(u)'
        BY <1>0, <2>2, KnowsKept DEF FileInv, FileTypeOK, Alone, CallersExist, OneAtATime,
           CallsKnow, FreshIsPrivate, Private, FilePoints, Points, ClosePoints, Calls, Goes,
           devVars, close_call
    <2>. QED
        BY <2>1, <2>2 DEF CallsKnow
<1>5. FreshIsPrivate'
    <2>1. Private(t)'
        BY DEF FileInv, FileTypeOK, CallersExist, OneAtATime, CallsKnow, Knows,
           FreshIsPrivate, Private, NamedInUse, FilePoints, Points, ClosePoints, NoArg,
           FdsToCopy, Calls, Goes, devVars, close_call
    <2>2. ASSUME NEW u \in Tasks, u # t PROVE Private(u)'
        BY <2>2 DEF FileInv, FileTypeOK, CallersExist, OneAtATime, CallsKnow, Knows,
           FreshIsPrivate, Private, NamedInUse, FilePoints, Points, ClosePoints, NoArg,
           Calls, Goes, devVars, close_call
    <2>. QED
        BY <2>1, <2>2 DEF FreshIsPrivate
<1>6. NamedInUse'
    BY DEF FileInv, FileTypeOK, CallersExist, OneAtATime, CallsKnow, Knows, FreshIsPrivate,
       Private, NamedInUse, Closed, ClosePoints, Calls, Goes, devVars, close_call
<1>7. Balanced'
    <2>1. \A g \in Files : /\ IsUncounted(t, g)' <=> IsUncounted(t, g)
                           /\ IsUnnamed(t, g)' <=> IsUnnamed(t, g)
        BY DEF FileInv, FileTypeOK, CallsKnow, Knows, IsUncounted, IsUnnamed, NoArg,
           ClosePoints, Goes, Calls, devVars, close_call
    <2>. QED
        BY <1>0, <2>1, BalancedKept DEF FileInv, devVars, close_call
<1>8. DevicesBalanced'
    BY DevicesKept DEF FileInv, InUse, FileTypeOK, ClosePoints, Goes, Calls, devVars,
       close_call
<1>. QED
    BY <1>1, <1>2, <1>3, <1>4, <1>5, <1>6, <1>7, <1>8 DEF FileInv

LEMMA close_load_Keeps ==
    ASSUME ~ClosesOverlap, FileInv, NEW t \in Tasks, close_load(t)
    PROVE  FileInv'
<1>. USE FileAssumption, DevAssumption
<1>0. Alone(t)
    BY DEF FileInv, FileTypeOK, Alone, Goes, devVars, close_load
<1>a. PICK f \in Files, i \in Fds : f = arg[t].file /\ i = arg[t].fd /\ fdTable[t][i] = f
    BY DEF close_load, FileInv, CallsKnow, Knows, ClosePoints
<1>b. \A u \in Tasks \ {t} : pc[u] = "user"
    BY DEF close_load, FileInv, OneAtATime, ClosePoints
<1>c. /\ arg' \in [Tasks -> Arguments]
      /\ arg'[t].file = f /\ arg'[t].value = ref[f] /\ arg'[t].fd = i
    <2>1. ref[f] \in Int
        BY DEF FileInv, FileTypeOK
    <2>. QED
        BY <1>a, <2>1, ArgValue DEF close_load, FileInv, FileTypeOK, Arguments
<1>1. FileTypeOK'
    <2>1. arg' \in [Tasks -> Arguments]
        BY <1>c
    <2>2. pc' \in [Tasks -> Points]
        BY DEF FileInv, FileTypeOK, Points, ClosePoints, Goes, devVars, close_load
    <2>. QED
        BY <2>1, <2>2 DEF FileInv, FileTypeOK, DevTypeOK, Arguments, devVars, close_load
<1>2. CallersExist'
    <2>1. \A u \in Tasks : pc'[u] # "user" => u \in alive'
        BY DEF FileInv, FileTypeOK, CallersExist, OneAtATime, Goes, devVars, close_load
    <2>2. \A u \in Tasks : childOf'[u] # None <=> pc'[u] \in {"fork_load", "fork_store"}
        BY DEF FileInv, FileTypeOK, CallersExist, OneAtATime, Goes, devVars, close_load
    <2>3. \A u \in Tasks : childOf'[u] # None => childOf'[u] \notin alive'
        BY DEF FileInv, FileTypeOK, CallersExist, OneAtATime, Goes, devVars, close_load
    <2>4. \A u, v \in Tasks : childOf'[u] # None /\ childOf'[u] = childOf'[v] => u = v
        BY DEF FileInv, FileTypeOK, CallersExist, OneAtATime, Goes, devVars, close_load
    <2>5. \A c \in Tasks : (c \notin alive' /\ \A u \in Tasks : childOf'[u] # c)
                            => \A j \in Fds : fdTable'[c][j] = None
        BY DEF FileInv, FileTypeOK, CallersExist, OneAtATime, Goes, devVars, close_load
    <2>. QED
        BY <2>1, <2>2, <2>3, <2>4, <2>5 DEF CallersExist
<1>3. OneAtATime'
    BY DEF FileInv, FileTypeOK, OneAtATime, ClosePoints, Goes, devVars, close_load
<1>4. CallsKnow'
    <2>1. Knows(t)'
        BY <1>a, <1>c DEF close_load, Goes, FileInv, FileTypeOK, Knows, ClosePoints
    <2>2. ASSUME NEW u \in Tasks, u # t PROVE Knows(u)'
        BY <1>0, <2>2, KnowsKept DEF FileInv, FileTypeOK, Alone, CallersExist, OneAtATime,
           CallsKnow, FreshIsPrivate, Private, FilePoints, Points, ClosePoints, Goes,
           devVars, close_load
    <2>. QED
        BY <2>1, <2>2 DEF CallsKnow
<1>5. FreshIsPrivate'
    <2>1. Private(t)'
        BY DEF FileInv, FileTypeOK, CallersExist, OneAtATime, CallsKnow, Knows,
           FreshIsPrivate, Private, NamedInUse, FilePoints, Points, ClosePoints, NoArg,
           FdsToCopy, Goes, devVars, close_load
    <2>2. ASSUME NEW u \in Tasks, u # t PROVE Private(u)'
        BY <2>2 DEF FileInv, FileTypeOK, CallersExist, OneAtATime, CallsKnow, Knows,
           FreshIsPrivate, Private, NamedInUse, FilePoints, Points, ClosePoints, NoArg,
           Goes, devVars, close_load
    <2>. QED
        BY <2>1, <2>2 DEF FreshIsPrivate
<1>6. NamedInUse'
    BY DEF FileInv, FileTypeOK, CallersExist, OneAtATime, CallsKnow, Knows, FreshIsPrivate,
       Private, NamedInUse, Closed, ClosePoints, Goes, devVars, close_load
<1>7. Balanced'
    <2>1. \A g \in Files : /\ IsUncounted(t, g)' <=> IsUncounted(t, g)
                           /\ IsUnnamed(t, g)' <=> IsUnnamed(t, g)
        BY DEF IsUncounted, IsUnnamed, FileInv, FileTypeOK, close_load, Goes
    <2>. QED
        BY <1>0, <2>1, BalancedKept DEF FileInv, close_load
<1>8. DevicesBalanced'
    BY DevicesKept DEF FileInv, InUse, FileTypeOK, ClosePoints, Goes, devVars, close_load
<1>. QED
    BY <1>1, <1>2, <1>3, <1>4, <1>5, <1>6, <1>7, <1>8 DEF FileInv

LEMMA close_store_Keeps ==
    ASSUME ~ClosesOverlap, FileInv, NEW t \in Tasks, close_store(t)
    PROVE  FileInv'
<1>. USE FileAssumption, DevAssumption
<1>0. Alone(t)
    BY DEF FileInv, FileTypeOK, Alone, Goes, devVars, close_store
<1>a. PICK f \in Files, i \in Fds : f = arg[t].file /\ i = arg[t].fd /\ fdTable[t][i] = f
    BY DEF close_store, FileInv, CallsKnow, Knows, ClosePoints
<1>b. \A u \in Tasks \ {t} : pc[u] = "user"
    BY DEF close_store, FileInv, OneAtATime, ClosePoints
<1>c. arg[t].value = ref[f] /\ ref[f] > 0
    BY <1>a DEF close_store, FileInv, CallsKnow, Knows, NamedInUse, Closed
<1>d. /\ ref' = [ref EXCEPT ![f] = @ - 1]
      /\ pc[t] = "close_store"
      /\ pc' = [pc EXCEPT ![t] = IF ref[f] = 1 THEN "close_dev" ELSE "close_fd"]
      /\ UNCHANGED <<openCount, minor, devId, fdTable, alive, arg, childOf>>
    BY <1>a, <1>c DEF close_store, close_last, Goes, devVars, FileInv, FileTypeOK
<1>1. FileTypeOK'
    <2>1. ref' \in [Files -> Nat]
        BY <1>c, <1>d DEF FileInv, FileTypeOK
    <2>2. pc' \in [Tasks -> Points]
        BY <1>d DEF FileInv, FileTypeOK, Points, ClosePoints
    <2>. QED
        BY <2>1, <2>2 DEF FileInv, FileTypeOK, DevTypeOK, Arguments, devVars, close_store
<1>2. CallersExist'
    BY DEF FileInv, FileTypeOK, CallersExist, OneAtATime, Goes, devVars, close_store
<1>3. OneAtATime'
    BY DEF FileInv, FileTypeOK, OneAtATime, ClosePoints, Goes, devVars, close_store
<1>4. CallsKnow'
    <2>1. Knows(t)'
        BY <1>a, <1>d DEF FileInv, FileTypeOK, Knows, ClosePoints
    <2>2. ASSUME NEW u \in Tasks, u # t PROVE Knows(u)'
        BY <1>0, <2>2, KnowsKept DEF FileInv, FileTypeOK, Alone, CallersExist, OneAtATime,
           CallsKnow, FreshIsPrivate, Private, FilePoints, Points, ClosePoints, Goes,
           devVars, close_store
    <2>. QED
        BY <2>1, <2>2 DEF CallsKnow
<1>5. FreshIsPrivate'
    <2>1. Private(t)'
        BY DEF FileInv, FileTypeOK, CallersExist, OneAtATime, CallsKnow, Knows,
           FreshIsPrivate, Private, NamedInUse, FilePoints, Points, ClosePoints, NoArg,
           FdsToCopy, Goes, devVars, close_store
    <2>2. ASSUME NEW u \in Tasks, u # t PROVE Private(u)'
        BY <2>2 DEF FileInv, FileTypeOK, CallersExist, OneAtATime, CallsKnow, Knows,
           FreshIsPrivate, Private, NamedInUse, FilePoints, Points, ClosePoints, NoArg,
           Goes, devVars, close_store
    <2>. QED
        BY <2>1, <2>2 DEF FreshIsPrivate
<1>6. NamedInUse'
    <2>1. ASSUME ref[f] = 1, NEW u \in Tasks, NEW j \in Fds, fdTable[u][j] = f
          PROVE  u = t /\ j = i
        <3>1. Uncounted(f) = {}
            BY <1>b, <1>d DEF Uncounted
        <3>2. Cardinality(Uncounted(f)) = 0
            BY <3>1, FS_EmptySet
        <3>3. Cardinality(Named(f)) <= 1
            BY <2>1, <3>2, SetsAreFinite DEF FileInv, Balanced
        <3>4. <<t, i>> \in Named(f) /\ <<u, j>> \in Named(f)
            BY <1>a, <2>1 DEF Named
        <3>5. <<t, i>> = <<u, j>>
            BY <3>3, <3>4, SetsAreFinite, AtMostOne
        <3>. QED
            BY <3>5
    <2>2. ASSUME NEW u \in Tasks, NEW j \in Fds, fdTable[u][j] # None, ~Closed(u, j)'
          PROVE  ref'[fdTable[u][j]] > 0
        <3>1. ~Closed(u, j) /\ ref[fdTable[u][j]] > 0 /\ fdTable[u][j] \in Files
            BY <1>b, <1>d, <2>2 DEF Closed, FileInv, FileTypeOK, NamedInUse
        <3>2. CASE ref[f] = 1 /\ fdTable[u][j] = f
            BY <1>a, <1>d, <2>1, <2>2, <3>2 DEF Closed, FileInv, FileTypeOK
        <3>3. CASE ~(ref[f] = 1 /\ fdTable[u][j] = f)
            BY <1>c, <1>d, <3>1, <3>3 DEF FileInv, FileTypeOK
        <3>. QED
            BY <3>2, <3>3
    <2>. QED
        BY <1>d, <2>2 DEF NamedInUse
<1>7. Balanced'
    <2>1. \A g \in Files \ {f} : ref'[g] = ref[g] /\ Named(g)' = Named(g)
        BY <1>d, NamesKept DEF FileInv, FileTypeOK
    <2>2. \A g \in Files \ {f} : /\ IsUncounted(t, g)' <=> IsUncounted(t, g)
                                 /\ IsUnnamed(t, g)' <=> IsUnnamed(t, g)
        BY <1>a, <1>d DEF IsUncounted, IsUnnamed
    <2>3. /\ IsUncounted(t, f)' /\ ~IsUncounted(t, f)
          /\ ~IsUnnamed(t, f)' /\ ~IsUnnamed(t, f)
        BY <1>a, <1>d DEF FileInv, FileTypeOK, IsUncounted, IsUnnamed
    <2>4. /\ Cardinality(Uncounted(f)') = Cardinality(Uncounted(f)) + 1
          /\ Unnamed(f)' = Unnamed(f) /\ Named(f)' = Named(f)
        BY <1>0, <1>d, <2>3, UncountedMoves, UnnamedMoves, NamesKept
    <2>5. ref'[f] = Cardinality(Named(f)') + Cardinality(Unnamed(f)') - Cardinality(Uncounted(f)')
        BY <1>d, <2>4, SetsAreFinite DEF FileInv, FileTypeOK, Balanced
    <2>. QED
        BY <1>0, <2>1, <2>2, <2>5, BalancedStep DEF FileInv
<1>8. DevicesBalanced'
    <2>1. \A g \in Files, d \in DevIds :
              (devId'[g] = d /\ InUse(g)') <=> (devId[g] = d /\ InUse(g))
        BY <1>0, <1>a, <1>b, <1>c, <1>d DEF FileInv, FileTypeOK, InUse, Alone, ClosePoints
    <2>. QED
        BY <1>d, <2>1, DevicesKept DEF FileInv, devVars
<1>. QED
    BY <1>1, <1>2, <1>3, <1>4, <1>5, <1>6, <1>7, <1>8 DEF FileInv

LEMMA close_dev_Keeps ==
    ASSUME ~ClosesOverlap, FileInv, NEW t \in Tasks, close_dev(t)
    PROVE  FileInv'
<1>. USE FileAssumption, DevAssumption
<1>0. Alone(t)
    BY DEF FileInv, FileTypeOK, Alone, Goes, devVars, close_dev
<1>a. PICK f \in Files, i \in Fds : f = arg[t].file /\ i = arg[t].fd /\ fdTable[t][i] = f
    BY DEF close_dev, FileInv, CallsKnow, Knows, ClosePoints
<1>b. \A u \in Tasks \ {t} : pc[u] = "user"
    BY DEF close_dev, FileInv, OneAtATime, ClosePoints
<1>c. /\ pc[t] = "close_dev" /\ pc' = [pc EXCEPT ![t] = "close_free"]
      /\ ref[f] = 0
      /\ UNCHANGED <<ref, devId, fdTable, alive, arg, childOf>>
    BY <1>a DEF close_dev, Goes, FileInv, CallsKnow, Knows
<1>d. devId[f] \in DevIds \cup {None}
    BY DEF FileInv, FileTypeOK
<1>e. \A g \in Files : /\ InUse(g)' <=> InUse(g) /\ g # f
                       /\ g = f => InUse(g)
    BY <1>0, <1>a, <1>b, <1>c DEF InUse, Alone, FileInv, FileTypeOK
<1>f. /\ \A d : Using(d) = {g \in Files : devId[g] = d /\ InUse(g)}
      /\ \A d : Using(d)' = {g \in Files : devId[g] = d /\ InUse(g)'}
    BY <1>c DEF Using, InUse
<1>g. devId[f] = None => UNCHANGED devVars
    BY <1>a DEF close_dev
<1>h. ASSUME NEW d \in DevIds, d = devId[f]
      PROVE  /\ openCount' = [openCount EXCEPT ![d] = @ - 1]
             /\ minor' = IF openCount[d] = 1 THEN [minor EXCEPT ![d] = NoDev] ELSE minor
             /\ Cardinality(Using(d)') = Cardinality(Using(d)) - 1
             /\ Cardinality(Using(d)) >= 1
             /\ \A e \in DevIds \ {d} : Using(e)' = Using(e)
    <2>1. Using(d)' = Using(d) \ {f} /\ f \in Using(d)
        BY <1>e, <1>f, <1>h
    <2>2. Cardinality(Using(d)') = Cardinality(Using(d)) - 1 /\ Cardinality(Using(d)) >= 1
        BY <2>1, CountDown, SetsAreFinite
    <2>3. minor[d] # NoDev
        BY <2>2 DEF FileInv, DevicesBalanced
    <2>4. \A e \in DevIds \ {d} : Using(e)' = Using(e)
        BY <1>e, <1>f, <1>h
    <2>5. dev_close(d)
        BY <1>a, <1>h DEF close_dev
    <2>. QED
        BY <2>2, <2>3, <2>4, <2>5 DEF dev_close
<1>1. FileTypeOK'
    <2>1. DevTypeOK'
        <3>1. CASE devId[f] = None
            BY <1>g, <3>1 DEF FileInv, FileTypeOK, DevTypeOK, devVars
        <3>2. CASE devId[f] \in DevIds
            <4>1. PICK d \in DevIds : d = devId[f]
                BY <3>2
            <4>. QED
                BY <1>h, <4>1 DEF FileInv, FileTypeOK, DevTypeOK
        <3>. QED
            BY <1>d, <3>1, <3>2
    <2>2. pc' \in [Tasks -> Points]
        BY DEF FileInv, FileTypeOK, Points, ClosePoints, Goes, devVars, close_dev
    <2>. QED
        BY <2>1, <2>2 DEF FileInv, FileTypeOK, DevTypeOK, Arguments, devVars, close_dev
<1>2. CallersExist'
    BY DEF FileInv, FileTypeOK, CallersExist, OneAtATime, Goes, devVars, close_dev
<1>3. OneAtATime'
    BY DEF FileInv, FileTypeOK, OneAtATime, ClosePoints, Goes, devVars, close_dev
<1>4. CallsKnow'
    <2>1. Knows(t)'
        BY <1>a, <1>c DEF FileInv, FileTypeOK, CallsKnow, Knows, ClosePoints
    <2>2. ASSUME NEW u \in Tasks, u # t PROVE Knows(u)'
        BY <1>0, <2>2, KnowsKept DEF FileInv, FileTypeOK, Alone, CallersExist, OneAtATime,
           CallsKnow, FreshIsPrivate, Private, FilePoints, Points, ClosePoints, Goes,
           devVars, close_dev
    <2>. QED
        BY <2>1, <2>2 DEF CallsKnow
<1>5. FreshIsPrivate'
    <2>1. Private(t)'
        BY DEF FileInv, FileTypeOK, CallersExist, OneAtATime, CallsKnow, Knows,
           FreshIsPrivate, Private, NamedInUse, FilePoints, Points, ClosePoints, NoArg,
           FdsToCopy, Goes, devVars, close_dev
    <2>2. ASSUME NEW u \in Tasks, u # t PROVE Private(u)'
        BY <2>2 DEF FileInv, FileTypeOK, CallersExist, OneAtATime, CallsKnow, Knows,
           FreshIsPrivate, Private, NamedInUse, FilePoints, Points, ClosePoints, NoArg,
           Goes, devVars, close_dev
    <2>. QED
        BY <2>1, <2>2 DEF FreshIsPrivate
<1>6. NamedInUse'
    BY DEF FileInv, FileTypeOK, CallersExist, OneAtATime, CallsKnow, Knows, FreshIsPrivate,
       Private, NamedInUse, Closed, ClosePoints, Goes, devVars, close_dev
<1>7. Balanced'
    <2>1. \A g \in Files : /\ IsUncounted(t, g)' <=> IsUncounted(t, g)
                           /\ IsUnnamed(t, g)' <=> IsUnnamed(t, g)
        BY DEF FileInv, FileTypeOK, CallsKnow, Knows, IsUncounted, IsUnnamed, NoArg,
           ClosePoints, Goes, devVars, close_dev
    <2>. QED
        BY <1>0, <2>1, BalancedKept DEF FileInv, devVars, close_dev
<1>8. DevicesBalanced'
    <2>1. CASE devId[f] = None
        <3>1. \A d \in DevIds : Using(d)' = Using(d)
            BY <1>e, <1>f, <2>1
        <3>. QED
            BY <1>g, <2>1, <3>1 DEF FileInv, DevicesBalanced, devVars
    <2>2. CASE devId[f] \in DevIds
        <3>1. PICK d \in DevIds : d = devId[f]
            BY <2>2
        <3>2. /\ openCount[d] \in Int /\ openCount'[d] = openCount[d] - 1
              /\ \A e \in DevIds \ {d} : openCount'[e] = openCount[e]
              /\ \A e \in DevIds : openCount'[e] # 0 => minor'[e] = minor[e]
            BY <1>h, <3>1 DEF FileInv, FileTypeOK, DevTypeOK
        <3>3. openCount[d] # 0
            BY <1>h, <3>1 DEF FileInv, DevicesBalanced
        <3>4. \A e \in DevIds : openCount'[e] = Cardinality(Using(e)')
            BY <1>h, <3>1, <3>2 DEF FileInv, DevicesBalanced
        <3>. QED
            BY <3>2, <3>3, <3>4 DEF FileInv, DevicesBalanced
    <2>. QED
        BY <1>d, <2>1, <2>2
<1>. QED
    BY <1>1, <1>2, <1>3, <1>4, <1>5, <1>6, <1>7, <1>8 DEF FileInv

LEMMA close_free_Keeps ==
    ASSUME ~ClosesOverlap, FileInv, NEW t \in Tasks, close_free(t)
    PROVE  FileInv'
<1>. USE FileAssumption, DevAssumption
<1>0. Alone(t)
    BY DEF FileInv, FileTypeOK, Alone, Goes, devVars, close_free
<1>a. PICK f \in Files, i \in Fds : f = arg[t].file /\ i = arg[t].fd /\ fdTable[t][i] = f
    BY DEF close_free, FileInv, CallsKnow, Knows, ClosePoints
<1>b. \A u \in Tasks \ {t} : pc[u] = "user"
    BY DEF close_free, FileInv, OneAtATime, ClosePoints
<1>c. /\ pc[t] = "close_free" /\ pc' = [pc EXCEPT ![t] = "close_fd"]
      /\ ref' = ref
      /\ UNCHANGED <<openCount, minor, devId, fdTable, alive, arg, childOf>>
    BY <1>a DEF close_free, file_free, Goes, devVars, FileInv, FileTypeOK, CallsKnow, Knows
<1>1. FileTypeOK'
    BY DEF FileInv, FileTypeOK, DevTypeOK, CallsKnow, Knows, NamedInUse, Closed,
       ClosePoints, Points, Goes, MutexFree, file_free, devVars, close_free
<1>2. CallersExist'
    BY DEF FileInv, FileTypeOK, CallersExist, OneAtATime, Goes, MutexFree, file_free,
       devVars, close_free
<1>3. OneAtATime'
    BY DEF FileInv, FileTypeOK, OneAtATime, ClosePoints, Goes, MutexFree, file_free,
       devVars, close_free
<1>4. CallsKnow'
    <2>1. Knows(t)'
        BY <1>a, <1>c DEF FileInv, FileTypeOK, CallsKnow, Knows, ClosePoints
    <2>2. ASSUME NEW u \in Tasks, u # t PROVE Knows(u)'
        BY <1>0, <2>2, KnowsKept DEF FileInv, FileTypeOK, Alone, CallersExist, OneAtATime,
           CallsKnow, FreshIsPrivate, Private, FilePoints, Points, ClosePoints, Goes,
           MutexFree, file_free, devVars, close_free
    <2>. QED
        BY <2>1, <2>2 DEF CallsKnow
<1>5. FreshIsPrivate'
    <2>1. Private(t)'
        BY DEF FileInv, FileTypeOK, CallersExist, OneAtATime, CallsKnow, Knows,
           FreshIsPrivate, Private, NamedInUse, FilePoints, Points, ClosePoints, NoArg,
           FdsToCopy, Goes, MutexFree, file_free, devVars, close_free
    <2>2. ASSUME NEW u \in Tasks, u # t PROVE Private(u)'
        BY <2>2 DEF FileInv, FileTypeOK, CallersExist, OneAtATime, CallsKnow, Knows,
           FreshIsPrivate, Private, NamedInUse, FilePoints, Points, ClosePoints, NoArg,
           Goes, MutexFree, file_free, devVars, close_free
    <2>. QED
        BY <2>1, <2>2 DEF FreshIsPrivate
<1>6. NamedInUse'
    BY DEF FileInv, FileTypeOK, CallersExist, OneAtATime, CallsKnow, Knows, FreshIsPrivate,
       Private, NamedInUse, Closed, ClosePoints, Goes, MutexFree, file_free, devVars,
       close_free
<1>7. Balanced'
    <2>1. \A g \in Files : /\ IsUncounted(t, g)' <=> IsUncounted(t, g)
                           /\ IsUnnamed(t, g)' <=> IsUnnamed(t, g)
        BY <1>c DEF IsUncounted, IsUnnamed, FileInv, FileTypeOK
    <2>. QED
        BY <1>0, <1>c, <2>1, BalancedKept DEF FileInv
<1>8. DevicesBalanced'
    <2>1. \A g \in Files, d \in DevIds :
              (devId'[g] = d /\ InUse(g)') <=> (devId[g] = d /\ InUse(g))
        BY <1>0, <1>c DEF FileInv, FileTypeOK, InUse, Alone, ClosePoints
    <2>. QED
        BY <1>c, <2>1, DevicesKept DEF FileInv, devVars
<1>. QED
    BY <1>1, <1>2, <1>3, <1>4, <1>5, <1>6, <1>7, <1>8 DEF FileInv

LEMMA close_fd_Keeps ==
    ASSUME ~ClosesOverlap, FileInv, NEW t \in Tasks, close_fd(t)
    PROVE  FileInv'
<1>. USE FileAssumption, DevAssumption
<1>0. Alone(t)
    BY DEF FileInv, FileTypeOK, Alone, Goes, Returns, devVars, close_fd
<1>a. PICK f \in Files, i \in Fds : f = arg[t].file /\ i = arg[t].fd /\ fdTable[t][i] = f
    BY DEF close_fd, FileInv, CallsKnow, Knows, ClosePoints
<1>b. \A u \in Tasks \ {t} : pc[u] = "user"
    BY DEF close_fd, FileInv, OneAtATime, ClosePoints
<1>c. /\ pc[t] = "close_fd" /\ pc' = [pc EXCEPT ![t] = "user"]
      /\ arg' = [arg EXCEPT ![t] = NoArg]
      /\ fdTable' = [fdTable EXCEPT ![t][i] = None]
      /\ UNCHANGED <<openCount, minor, ref, devId, alive, childOf>>
    BY <1>a DEF close_fd, Returns, Goes, devVars
<1>1. FileTypeOK'
    BY DEF FileInv, FileTypeOK, DevTypeOK, CallsKnow, Knows, ClosePoints, Points, NoArg,
       Goes, Returns, devVars, close_fd
<1>2. CallersExist'
    BY DEF FileInv, FileTypeOK, CallersExist, OneAtATime, Goes, Returns, devVars, close_fd
<1>3. OneAtATime'
    BY DEF FileInv, FileTypeOK, OneAtATime, ClosePoints, Goes, Returns, devVars, close_fd
<1>4. CallsKnow'
    <2>1. Knows(t)'
        BY DEF FileInv, FileTypeOK, CallersExist, OneAtATime, CallsKnow, Knows,
           FreshIsPrivate, Private, NamedInUse, NoArg, ClosePoints, FdsToCopy, Goes,
           Returns, devVars, close_fd
    <2>2. ASSUME NEW u \in Tasks, u # t PROVE Knows(u)'
        BY <1>0, <2>2, KnowsKept DEF FileInv, FileTypeOK, Alone, CallersExist, OneAtATime,
           CallsKnow, FreshIsPrivate, Private, FilePoints, Points, ClosePoints, Goes,
           Returns, devVars, close_fd
    <2>. QED
        BY <2>1, <2>2 DEF CallsKnow
<1>5. FreshIsPrivate'
    <2>1. Private(t)'
        BY DEF FileInv, FileTypeOK, CallersExist, OneAtATime, CallsKnow, Knows,
           FreshIsPrivate, Private, NamedInUse, FilePoints, Points, ClosePoints, NoArg,
           FdsToCopy, Goes, Returns, devVars, close_fd
    <2>2. ASSUME NEW u \in Tasks, u # t PROVE Private(u)'
        BY <2>2 DEF FileInv, FileTypeOK, CallersExist, OneAtATime, CallsKnow, Knows,
           FreshIsPrivate, Private, NamedInUse, FilePoints, Points, ClosePoints, NoArg,
           Goes, Returns, devVars, close_fd
    <2>. QED
        BY <2>1, <2>2 DEF FreshIsPrivate
<1>6. NamedInUse'
    BY DEF FileInv, FileTypeOK, CallersExist, OneAtATime, CallsKnow, Knows, FreshIsPrivate,
       Private, NamedInUse, Closed, ClosePoints, Goes, Returns, devVars, close_fd
<1>7. Balanced'
    <2>0. /\ Cardinality(Named(f)') = Cardinality(Named(f)) - 1
          /\ \A g \in Files : g # f => Named(g)' = Named(g)
        <3>1. fdTable \in [Tasks -> [Fds -> Files \cup {None}]] /\ fdTable[t][i] = f
            BY <1>a DEF FileInv, FileTypeOK
        <3>. QED
            BY <1>c, <3>1, NameDropped
    <2>1. \A g \in Files \ {f} : ref'[g] = ref[g] /\ Named(g)' = Named(g)
        BY <1>c, <2>0
    <2>2. \A g \in Files \ {f} : /\ IsUncounted(t, g)' <=> IsUncounted(t, g)
                                 /\ IsUnnamed(t, g)' <=> IsUnnamed(t, g)
        BY <1>a, <1>c DEF IsUncounted, IsUnnamed, FileInv, FileTypeOK
    <2>3. /\ ~IsUncounted(t, f)' /\ IsUncounted(t, f)
          /\ ~IsUnnamed(t, f)' /\ ~IsUnnamed(t, f)
        BY <1>a, <1>c DEF FileInv, FileTypeOK, IsUncounted, IsUnnamed
    <2>4. /\ Cardinality(Uncounted(f)') = Cardinality(Uncounted(f)) - 1
          /\ Unnamed(f)' = Unnamed(f)
          /\ Cardinality(Named(f)') = Cardinality(Named(f)) - 1
        BY <1>0, <2>0, <2>3, UncountedMoves, UnnamedMoves
    <2>5. ref'[f] = Cardinality(Named(f)') + Cardinality(Unnamed(f)') - Cardinality(Uncounted(f)')
        BY <1>c, <2>4, SetsAreFinite DEF FileInv, Balanced
    <2>. QED
        BY <1>0, <2>1, <2>2, <2>5, BalancedStep DEF FileInv
<1>8. DevicesBalanced'
    BY DevicesKept DEF FileInv, InUse, FileTypeOK, ClosePoints, Goes, Returns, devVars,
       close_fd
<1>. QED
    BY <1>1, <1>2, <1>3, <1>4, <1>5, <1>6, <1>7, <1>8 DEF FileInv

LEMMA exit_Keeps ==
    ASSUME ~ClosesOverlap, FileInv, NEW t \in Tasks, exit(t)
    PROVE  FileInv'
<1>. USE FileAssumption, DevAssumption
<1>0. Alone(t)
    BY DEF FileInv, FileTypeOK, Alone, devVars, exit
<1>1. FileTypeOK'
    BY DEF FileInv, FileTypeOK, DevTypeOK, CallersExist, Calls, devVars, exit
<1>2. CallersExist'
    <2>1. \A u \in Tasks : pc'[u] # "user" => u \in alive'
        BY DEF FileInv, FileTypeOK, CallersExist, OneAtATime, Calls, devVars, exit
    <2>2. \A u \in Tasks : childOf'[u] # None <=> pc'[u] \in {"fork_load", "fork_store"}
        BY DEF FileInv, FileTypeOK, CallersExist, OneAtATime, Calls, devVars, exit
    <2>3. \A u \in Tasks : childOf'[u] # None => childOf'[u] \notin alive'
        BY DEF FileInv, FileTypeOK, CallersExist, OneAtATime, Calls, devVars, exit
    <2>4. \A u, v \in Tasks : childOf'[u] # None /\ childOf'[u] = childOf'[v] => u = v
        BY DEF FileInv, FileTypeOK, CallersExist, OneAtATime, Calls, devVars, exit
    <2>5. \A c \in Tasks : (c \notin alive' /\ \A u \in Tasks : childOf'[u] # c)
                            => \A j \in Fds : fdTable'[c][j] = None
        <3>1. \A j \in Fds : fdTable[t][j] = None
            BY DEF exit, FreeFds
        <3>. QED
            BY <3>1 DEF FileInv, CallersExist, exit
    <2>. QED
        BY <2>1, <2>2, <2>3, <2>4, <2>5 DEF CallersExist
<1>3. OneAtATime'
    BY DEF FileInv, FileTypeOK, OneAtATime, ClosePoints, Calls, devVars, exit
<1>4. CallsKnow'
    <2>1. Knows(t)'
        BY DEF FileInv, FileTypeOK, CallersExist, OneAtATime, CallsKnow, Knows,
           FreshIsPrivate, Private, NamedInUse, NoArg, ClosePoints, FdsToCopy, Calls,
           devVars, exit
    <2>2. ASSUME NEW u \in Tasks, u # t PROVE Knows(u)'
        BY <1>0, <2>2, KnowsKept DEF FileInv, FileTypeOK, Alone, CallersExist, OneAtATime,
           CallsKnow, FreshIsPrivate, Private, FilePoints, Points, ClosePoints, Calls,
           devVars, exit
    <2>. QED
        BY <2>1, <2>2 DEF CallsKnow
<1>5. FreshIsPrivate'
    <2>1. Private(t)'
        BY DEF FileInv, FileTypeOK, CallersExist, OneAtATime, CallsKnow, Knows,
           FreshIsPrivate, Private, NamedInUse, FilePoints, Points, ClosePoints, NoArg,
           FdsToCopy, Calls, devVars, exit
    <2>2. ASSUME NEW u \in Tasks, u # t PROVE Private(u)'
        BY <2>2 DEF FileInv, FileTypeOK, CallersExist, OneAtATime, CallsKnow, Knows,
           FreshIsPrivate, Private, NamedInUse, FilePoints, Points, ClosePoints, NoArg,
           Calls, devVars, exit
    <2>. QED
        BY <2>1, <2>2 DEF FreshIsPrivate
<1>6. NamedInUse'
    BY DEF FileInv, FileTypeOK, CallersExist, OneAtATime, CallsKnow, Knows, FreshIsPrivate,
       Private, NamedInUse, Closed, ClosePoints, Calls, devVars, exit
<1>7. Balanced'
    <2>1. \A f \in Files : /\ IsUncounted(t, f)' <=> IsUncounted(t, f)
                           /\ IsUnnamed(t, f)' <=> IsUnnamed(t, f)
        BY DEF FileInv, FileTypeOK, CallsKnow, Knows, IsUncounted, IsUnnamed, NoArg,
           ClosePoints, Calls, devVars, exit
    <2>. QED
        BY <1>0, <2>1, BalancedKept DEF FileInv, devVars, exit
<1>8. DevicesBalanced'
    BY DevicesKept DEF FileInv, InUse, FileTypeOK, ClosePoints, Calls, devVars, exit
<1>. QED
    BY <1>1, <1>2, <1>3, <1>4, <1>5, <1>6, <1>7, <1>8 DEF FileInv

-----------------------------------------------------------------------------
(* The theorems. *)

LEMMA FileInit_Inv ==
    ASSUME FileInit
    PROVE  FileInv
<1>. USE FileAssumption, DevAssumption
<1>1. FileTypeOK
    BY DEF FileInit, DevInit, FileTypeOK, DevTypeOK, NoArg, Points
<1>2. CallersExist /\ OneAtATime /\ CallsKnow /\ FreshIsPrivate /\ NamedInUse
    BY DEF FileInit, CallersExist, OneAtATime, CallsKnow, Knows, FreshIsPrivate, Private,
           NamedInUse, ClosePoints
<1>3. Balanced
    <2>1. ASSUME NEW f \in Files
          PROVE  Named(f) = {} /\ Unnamed(f) = {} /\ Uncounted(f) = {} /\ ref[f] = 0
        BY DEF FileInit, Named, Unnamed, Uncounted
    <2>. QED
        BY <2>1, FS_EmptySet DEF Balanced
<1>4. DevicesBalanced
    <2>1. ASSUME NEW d \in DevIds
          PROVE  Using(d) = {} /\ openCount[d] = 0
        BY DEF FileInit, DevInit, Using
    <2>. QED
        BY <2>1, FS_EmptySet DEF DevicesBalanced
<1>. QED
    BY <1>1, <1>2, <1>3, <1>4 DEF FileInv

LEMMA FileStutter_Keeps ==
    ASSUME FileInv, UNCHANGED allVars
    PROVE  FileInv'
<1>1. UNCHANGED <<openCount, minor, ref, devId, fdTable, alive, pc, arg, childOf>>
    BY DEF allVars, devVars, fileVars
<1>2. /\ \A f : Named(f)' = Named(f) /\ Unnamed(f)' = Unnamed(f) /\ Uncounted(f)' = Uncounted(f)
      /\ \A d : Using(d)' = Using(d)
      /\ \A t : FdsToCopy(t)' = FdsToCopy(t)
    BY <1>1 DEF Named, Unnamed, Uncounted, Using, FdsToCopy
<1>3. FileTypeOK' /\ CallersExist' /\ OneAtATime'
    BY <1>1 DEF FileInv, FileTypeOK, DevTypeOK, CallersExist, OneAtATime
<1>4. CallsKnow' /\ FreshIsPrivate' /\ NamedInUse'
    BY <1>1, <1>2 DEF FileInv, CallsKnow, Knows, FreshIsPrivate, Private, NamedInUse, Closed
<1>5. Balanced' /\ DevicesBalanced'
    BY <1>1, <1>2 DEF FileInv, Balanced, DevicesBalanced
<1>. QED
    BY <1>3, <1>4, <1>5 DEF FileInv

LEMMA FileNext_Keeps ==
    ASSUME ~ClosesOverlap, FileInv, FileNext
    PROVE  FileInv'
    BY open_alloc_Keeps, open_free_Keeps, open_dev_Keeps, open_dev_fails_Keeps, dup_fd_Keeps,
       dup_load_Keeps, dup_store_Keeps, fork_init_Keeps, fork_load_Keeps, fork_store_Keeps,
       fork_end_Keeps, close_call_Keeps, close_load_Keeps, close_store_Keeps, close_dev_Keeps,
       close_free_Keeps, close_fd_Keeps, exit_Keeps DEF FileNext

(* Where a sys_close has the file table to itself, the inductive invariant      *)
(* holds, with any interleaving of the opens, dups and forks of all tasks.      *)
THEOREM FileSafe ==
    ASSUME ~ClosesOverlap
    PROVE  FileSpec => []FileInv
<1>1. FileInit => FileInv
    BY FileInit_Inv
<1>2. FileInv /\ [FileNext]_allVars => FileInv'
    BY FileNext_Keeps, FileStutter_Keeps
<1>. QED
    BY <1>1, <1>2, PTL DEF FileSpec

(* The reference count of a file is the number of descriptors that name it, in  *)
(* the tables of all tasks, through failing opens, sys_dup and sys_fork.        *)
THEOREM CountsAreExact ==
    ASSUME ~ClosesOverlap
    PROVE  FileSpec => []RefIsNumberOfDescriptors
<1>1. FileInv => RefIsNumberOfDescriptors
    BY DEF FileInv, Balanced, RefIsNumberOfDescriptors
<1>. QED
    BY <1>1, FileSafe, PTL

(* dev_open and dev_close agree with the files: one entry for a device, whose   *)
(* count is the number of files open on it.                                     *)
THEOREM OpenCountsAreExact ==
    ASSUME ~ClosesOverlap
    PROVE  FileSpec => []OpenCountIsNumberOfFiles
<1>1. ASSUME FileInv, NEW m \in Minors
      PROVE  Cardinality(OpenEntries(m)) <= 1
    <2>1. CASE OpenEntries(m) = {}
        BY <2>1, FS_EmptySet
    <2>2. CASE OpenEntries(m) # {}
        <3>1. PICK d \in OpenEntries(m) : TRUE
            BY <2>2
        <3>2. OpenEntries(m) = {d}
            BY <1>1, <3>1 DEF OpenEntries, FileInv, DevicesBalanced
        <3>. QED
            BY <3>2, FS_Singleton
    <2>. QED
        BY <2>1, <2>2
<1>2. FileInv => OpenCountIsNumberOfFiles
    BY <1>1 DEF FileInv, DevicesBalanced, OpenCountIsNumberOfFiles, DeviceOpenOnce
<1>. QED
    BY <1>2, FileSafe, PTL

=============================================================================

----------------------------- MODULE MemProofs ------------------------------
(***************************************************************************)
(* Frames and address spaces, for any number of tasks and frames, any page *)
(* and table size and any programs that link.lds lays out: every frame is  *)
(* held once and by whom the bitmap says, what is mapped is what the calls *)
(* were asked for, and a process keeps its pages.                          *)
(*                                                                         *)
(* The claims on a frame are the relation Owns here.  A step of the        *)
(* allocator adds a claim on a frame that had none, a step that frees      *)
(* drops all the claims on what it frees; the rest follows from            *)
(* directories, tables and pages being different frames.  What is mapped   *)
(* (Space) depends on where the task is in its call: some pages are there  *)
(* already, the others are on the list still to be mapped.                 *)
(*                                                                         *)
(* Left out, because it does not hold there: sbrk of a forked process that *)
(* has no heap (HeapAfterFork), and execve that fails after it has set the *)
(* heap of the program that it then does not enter (LateExecFails).        *)
(***************************************************************************)
EXTENDS AddressSpace, FiniteSetTheorems, WellFoundedInduction, TLAPS

-----------------------------------------------------------------------------
(* Numbers, frames and sorted lists. *)

(* Quotients and products with a positive divisor. *)
LEMMA DivDef ==
    ASSUME NEW m \in Nat \ {0}, NEW a \in Nat
    PROVE  /\ a \div m \in Nat /\ a % m \in Nat /\ a % m < m
           /\ a = m * (a \div m) + (a % m)
    OBVIOUS

LEMMA MulMono ==
    ASSUME NEW m \in Nat \ {0}, NEW x \in Int, NEW y \in Int, x < y
    PROVE  m * x + m <= m * y
<1>1. y - x - 1 \in Nat
    OBVIOUS
<1>2. m * (y - x - 1) \in Nat
    BY <1>1
<1>3. m * (y - x - 1) = m * y - m * x - m
    OBVIOUS
<1>. QED
    BY <1>2, <1>3

LEMMA DivIs ==
    ASSUME NEW m \in Nat \ {0}, NEW a \in Nat, NEW q \in Int,
           m * q <= a, a < m * q + m
    PROVE  a \div m = q
<1>1. PICK r \in Nat : r = a \div m
    BY DivDef
<1>2. m * r <= a /\ a < m * r + m
    BY <1>1, DivDef
<1>3. ~(q < r)
    BY <1>2, MulMono
<1>4. ~(r < q)
    BY <1>2, MulMono
<1>. QED
    BY <1>1, <1>3, <1>4

LEMMA MemConstants ==
    /\ PAGE \in Nat \ {0} /\ ENTRIES \in Nat \ {0, 1}
    /\ None \notin Frames /\ Kernel \notin Frames /\ Kernel # None
    /\ Frames \subseteq Nat
    /\ First \in Tasks /\ First \notin Slots /\ Slots \subseteq Tasks
    /\ None \notin Tasks
    BY MemAssumption DEF Slots

(* The two indices of a user page, and what they determine. *)
LEMMA PageIndices ==
    ASSUME NEW v \in UserPages
    PROVE  /\ v \in Nat /\ pde_index(v) \in UserEntries /\ pte_index(v) \in Index
           /\ pde_index(v) \in Index
           /\ v = ENTRIES * pde_index(v) + pte_index(v)
<1>1. ENTRIES \in Nat \ {0} /\ v \in Nat /\ ENTRIES <= v /\ v <= ENTRIES * ENTRIES - 1
    BY MemConstants DEF UserPages
<1>2. PICK q \in Nat, r \in Nat : /\ q = v \div ENTRIES /\ r = v % ENTRIES
                                  /\ v = ENTRIES * q + r /\ r < ENTRIES
    BY <1>1, DivDef
<1>3. q # 0
    BY <1>1, <1>2
<1>4. q < ENTRIES
    <2>1. CASE ENTRIES = q
        <3>1. ENTRIES * ENTRIES \in Nat
            BY <1>1
        <3>2. ENTRIES * ENTRIES = ENTRIES * q
            BY <2>1
        <3>. QED
            BY <1>1, <1>2, <3>1, <3>2
    <2>2. CASE ENTRIES < q
        <3>1. ENTRIES * ENTRIES + ENTRIES <= ENTRIES * q
            BY <1>1, <2>2, MulMono
        <3>2. ENTRIES * ENTRIES \in Nat /\ ENTRIES * q \in Nat
            BY <1>1
        <3>. QED
            BY <1>1, <1>2, <3>1, <3>2
    <2>. QED
        BY <1>1, <2>1, <2>2
<1>. QED
    BY <1>1, <1>2, <1>3, <1>4 DEF pde_index, pte_index, UserEntries, Index

(* The frames the allocator hands out. *)
LEMMA LeastExists ==
    ASSUME NEW S \in SUBSET Nat, S # {}
    PROVE  \E x \in S : \A y \in S : x <= y
<1>1. \E x \in S : \A y \in S : ~(<<y, x>> \in OpToRel(<, Nat))
    BY NatLessThanWellFounded, WFMin
<1>2. PICK x \in S : \A y \in S : ~(<<y, x>> \in OpToRel(<, Nat))
    BY <1>1
<1>3. \A y \in S : ~(y < x)
    BY <1>2 DEF OpToRel
<1>. QED
    BY <1>3

LEMMA LowestIsIn ==
    ASSUME NEW S \in SUBSET Nat, S # {}
    PROVE  Lowest(S) \in S
    BY LeastExists DEF Lowest

LEMMA PageIsFree ==
    ASSUME Free # {}
    PROVE  Page \in Frames /\ Page \notin used
<1>1. Free \in SUBSET Nat
    BY MemConstants DEF Free
<1>. QED
    BY <1>1, LowestIsIn DEF Page, Free

LEMMA SecondPageIsFree ==
    ASSUME Free # {}, Cardinality(Free) > 1
    PROVE  /\ Lowest(Free \ {Page}) \in Frames \ used
           /\ Lowest(Free \ {Page}) # Page
<1>1. Free \in SUBSET Nat
    BY MemConstants DEF Free
<1>2. Free \ {Page} # {}
    <2>1. SUFFICES ASSUME Free \ {Page} = {} PROVE FALSE
        OBVIOUS
    <2>2. Free = {Page}
        BY <2>1
    <2>3. Cardinality(Free) = 1
        BY <2>2, FS_Singleton
    <2>. QED
        BY <2>3
<1>3. Lowest(Free \ {Page}) \in Free \ {Page}
    <2>1. Free \ {Page} \in SUBSET Nat
        BY <1>1
    <2>. QED
        BY <1>2, <2>1, LowestIsIn
<1>. QED
    BY <1>3 DEF Free

(* Sorted lists the elements of a finite set, each of them once. *)
LEMMA SortedLists ==
    ASSUME NEW S \in SUBSET Nat, IsFiniteSet(S)
    PROVE  /\ Sorted(S) \in Seq(S)
           /\ Len(Sorted(S)) = Cardinality(S)
           /\ \A i, j \in 1 .. Len(Sorted(S)) : Sorted(S)[i] = Sorted(S)[j] => i = j
<1>1. PICK n \in Nat : n = Cardinality(S)
    BY FS_CardinalityType
<1>2. PICK r : r = [x \in S |-> Cardinality({y \in S : y < x})]
    OBVIOUS
<1>3. \A x \in S : IsFiniteSet({y \in S : y < x}) /\ Cardinality({y \in S : y < x}) \in Nat
    <2>. SUFFICES ASSUME NEW x \in S
                  PROVE  IsFiniteSet({y \in S : y < x}) /\ Cardinality({y \in S : y < x}) \in Nat
        OBVIOUS
    <2>1. {y \in S : y < x} \in SUBSET S
        OBVIOUS
    <2>2. IsFiniteSet({y \in S : y < x})
        BY <2>1, FS_Subset
    <2>. QED
        BY <2>2, FS_CardinalityType
<1>4. ASSUME NEW x \in S, NEW T \in SUBSET S, x \notin T, \A y \in S : y < x => y \in T,
             IsFiniteSet(T)
      PROVE  r[x] <= Cardinality(T)
    <2>1. {y \in S : y < x} \in SUBSET T
        BY <1>4
    <2>2. Cardinality({y \in S : y < x}) <= Cardinality(T)
        BY <1>4, <2>1, FS_Subset
    <2>. QED
        BY <1>2, <2>2
<1>5. ASSUME NEW x \in S PROVE r[x] \in 0 .. n - 1
    <2>1. IsFiniteSet(S \ {x}) /\ Cardinality(S \ {x}) = n - 1
        BY <1>1, FS_RemoveElement
    <2>2. r[x] <= Cardinality(S \ {x})
        BY <1>4, <2>1
    <2>. QED
        BY <1>1, <1>2, <1>3, <2>1, <2>2
<1>6. ASSUME NEW x \in S, NEW z \in S, x < z PROVE r[x] < r[z]
    <2>1. PICK T : T = {y \in S : y < z}
        OBVIOUS
    <2>2. IsFiniteSet(T) /\ r[z] = Cardinality(T) /\ x \in T
        BY <1>2, <1>3, <1>6, <2>1
    <2>3. IsFiniteSet(T \ {x}) /\ Cardinality(T \ {x}) = Cardinality(T) - 1
        BY <2>2, FS_RemoveElement
    <2>4. r[x] <= Cardinality(T \ {x})
        <3>1. T \ {x} \in SUBSET S /\ x \notin T \ {x}
            BY <2>1
        <3>2. \A y \in S : y < x => y \in T \ {x}
            BY <1>6, <2>1
        <3>. QED
            BY <1>4, <2>3, <3>1, <3>2
    <2>5. r[x] \in Nat /\ r[z] \in Nat
        BY <1>1, <1>5
    <2>. QED
        BY <2>2, <2>3, <2>4, <2>5
<1>7. r \in Injection(S, 0 .. n - 1)
    <2>1. r \in [S -> 0 .. n - 1]
        BY <1>2, <1>5
    <2>2. \A x, z \in S : r[x] = r[z] => x = z
        BY <1>5, <1>6
    <2>. QED
        BY <2>1, <2>2 DEF Injection, IsInjective
<1>8. IsFiniteSet(0 .. n - 1) /\ Cardinality(0 .. n - 1) = n
    BY FS_Interval
<1>9. r \in Surjection(S, 0 .. n - 1)
    BY <1>1, <1>7, <1>8, FS_Injection
<1>10. \A k \in 0 .. n - 1 : \E x \in S : r[x] = k
    BY <1>9 DEF Surjection
<1>11. PICK s : s = Sorted(S)
    OBVIOUS
<1>12. /\ s = [i \in 1 .. n |-> CHOOSE x \in S : Cardinality({y \in S : y < x}) = i - 1]
    BY <1>1, <1>11 DEF Sorted
<1>13. ASSUME NEW i \in 1 .. n PROVE s[i] \in S /\ r[s[i]] = i - 1
    <2>1. i - 1 \in 0 .. n - 1
        OBVIOUS
    <2>2. \E x \in S : Cardinality({y \in S : y < x}) = i - 1
        BY <1>2, <1>10, <2>1
    <2>. QED
        BY <1>2, <1>12, <2>2
<1>14. s \in Seq(S) /\ Len(s) = n
    <2>1. s \in [1 .. n -> S]
        BY <1>12, <1>13
    <2>. QED
        BY <2>1
<1>15. \A i, j \in 1 .. n : s[i] = s[j] => i = j
    BY <1>13
<1>. QED
    BY <1>1, <1>11, <1>14, <1>15
-----------------------------------------------------------------------------
(* Addresses and pages. *)

StackPage == FirstPage(Stack)

\* The first page that lies behind address a and all before it.
Top(a) == (a + PAGE - 1) \div PAGE

LEMMA TopBounds ==
    ASSUME NEW a \in Nat
    PROVE  /\ Top(a) \in Nat
           /\ a <= PAGE * Top(a)
           /\ PAGE * Top(a) < a + PAGE
<1>1. PAGE \in Nat \ {0} /\ a + PAGE - 1 \in Nat
    BY MemConstants
<1>2. PICK q \in Nat, r \in Nat : q = Top(a) /\ a + PAGE - 1 = PAGE * q + r /\ r < PAGE
    BY <1>1, DivDef DEF Top
<1>. QED
    BY <1>1, <1>2

LEMMA TopIs ==
    ASSUME NEW a \in Nat, NEW q \in Nat, a <= PAGE * q, PAGE * q < a + PAGE
    PROVE  Top(a) = q
<1>1. PAGE \in Nat \ {0} /\ a + PAGE - 1 \in Nat /\ PAGE * q \in Nat
    BY MemConstants
<1>2. PAGE * q <= a + PAGE - 1 /\ a + PAGE - 1 < PAGE * q + PAGE
    BY <1>1
<1>. QED
    BY <1>1, <1>2, DivIs DEF Top

(* The last byte before a is in the page before Top(a). *)
LEMMA LastByte ==
    ASSUME NEW a \in Nat \ {0}
    PROVE  (a - 1) \div PAGE = Top(a) - 1
<1>1. PAGE \in Nat \ {0} /\ a - 1 \in Nat
    BY MemConstants
<1>2. PICK q \in Nat : q = Top(a) /\ a <= PAGE * q /\ PAGE * q < a + PAGE
    BY TopBounds
<1>3. PAGE * (q - 1) = PAGE * q - PAGE /\ PAGE * q \in Nat
    BY <1>1
<1>4. PAGE * (q - 1) <= a - 1 /\ a - 1 < PAGE * (q - 1) + PAGE
    BY <1>1, <1>2, <1>3
<1>5. q - 1 \in Int
    OBVIOUS
<1>6. (a - 1) \div PAGE = q - 1
    BY <1>1, <1>4, <1>5, DivIs
<1>. QED
    BY <1>2, <1>6

(* A heap that grows in its last page. *)
LEMMA GrowsInPage ==
    ASSUME NEW a \in Nat \ {0}, NEW incr \in Nat \ {0}, FitsInPage(a, incr)
    PROVE  Top(a + incr) = Top(a)
<1>1. PAGE \in Nat \ {0}
    BY MemConstants
<1>2. PICK q \in Nat, r \in Nat : a = PAGE * q + r /\ r = a % PAGE /\ r < PAGE
    BY <1>1, DivDef
<1>3. r # 0 /\ r + incr <= PAGE
    BY <1>2 DEF FitsInPage, Offset
<1>4. PAGE * (q + 1) = PAGE * q + PAGE /\ PAGE * q \in Nat
    BY <1>1
<1>5. /\ a <= PAGE * (q + 1) /\ PAGE * (q + 1) < a + PAGE
      /\ a + incr <= PAGE * (q + 1) /\ PAGE * (q + 1) < a + incr + PAGE
    BY <1>1, <1>2, <1>3, <1>4
<1>6. Top(a) = q + 1
    BY <1>5, TopIs
<1>7. Top(a + incr) = q + 1
    BY <1>5, TopIs
<1>. QED
    BY <1>6, <1>7

(* A heap that needs new pages: those from the next page boundary on. *)
LEMMA GrowsByPages ==
    ASSUME NEW a \in Nat, NEW incr \in Nat \ {0}, ~FitsInPage(a, incr)
    PROVE  LET p == PagesFor(NextPage(a), (a + incr) - NextPage(a))
           IN  /\ p \in Seq(Nat)
               /\ Len(p) = Top(a + incr) - Top(a)
               /\ \A i \in 1 .. Len(p) : p[i] = Top(a) + i - 1
               /\ Top(a) <= Top(a + incr)
<1>1. PAGE \in Nat \ {0}
    BY MemConstants
<1>2. PICK q \in Nat, r \in Nat : a = PAGE * q + r /\ r = a % PAGE /\ r < PAGE
    BY <1>1, DivDef
<1>3. PICK k \in Nat : k = IF r = 0 THEN q ELSE q + 1
    OBVIOUS
<1>4. PAGE * (q + 1) = PAGE * q + PAGE /\ PAGE * q \in Nat /\ PAGE * k \in Nat
    BY <1>1
<1>5. /\ NextPage(a) = PAGE * k
      /\ a <= PAGE * k /\ PAGE * k < a + PAGE
      /\ PAGE * k < a + incr
    <2>1. CASE r = 0
        BY <1>1, <1>2, <1>3, <1>4, <2>1 DEF NextPage, Offset
    <2>2. CASE r # 0
        <3>1. r + incr > PAGE
            BY <1>1, <1>2, <2>2 DEF FitsInPage, Offset
        <3>2. NextPage(a) = a + PAGE - r /\ k = q + 1
            BY <1>2, <1>3, <2>2 DEF NextPage, Offset
        <3>. QED
            BY <1>1, <1>2, <1>4, <2>2, <3>1, <3>2
    <2>. QED
        BY <2>1, <2>2
<1>6. Top(a) = k
    BY <1>5, TopIs
<1>7. PICK n \in Nat : n = Top(a + incr) /\ a + incr <= PAGE * n /\ PAGE * n < a + incr + PAGE
    BY TopBounds
<1>8. k <= n
    <2>1. SUFFICES ASSUME n < k PROVE FALSE
        BY <1>7
    <2>2. PAGE * n + PAGE <= PAGE * k
        BY <1>1, <2>1, MulMono
    <2>. QED
        BY <1>1, <1>4, <1>5, <1>7, <2>2
<1>9. PICK s \in Nat : s = (a + incr) - NextPage(a)
    BY <1>4, <1>5
<1>10. Top(s) = n - k
    <2>1. n - k \in Nat /\ PAGE * (n - k) = PAGE * n - PAGE * k
        BY <1>1, <1>8
    <2>2. s <= PAGE * (n - k) /\ PAGE * (n - k) < s + PAGE
        BY <1>1, <1>4, <1>5, <1>7, <1>9, <2>1
    <2>. QED
        BY <2>1, <2>2, TopIs
<1>11. NextPage(a) \div PAGE = k
    BY <1>1, <1>4, <1>5, DivIs
<1>12. PagesFor(NextPage(a), s) = [i \in 1 .. n - k |-> k + i - 1]
    BY <1>10, <1>11 DEF PagesFor, Top
<1>. QED
    BY <1>6, <1>7, <1>8, <1>9, <1>12, SMTT(30)

(* The heap stays below the stack. *)
LEMMA TopBelowStack ==
    ASSUME NEW a \in Nat, a <= HeapLimit
    PROVE  Top(a) <= StackPage
<1>1. /\ PAGE \in Nat \ {0} /\ HeapLimit \in Nat /\ HeapLimit <= PAGE * StackPage
      /\ Stack \in Segment
    BY MemConstants, ProgramAssumption DEF StackPage, Fits
<1>2. StackPage \in Nat
    BY <1>1, DivDef DEF StackPage, FirstPage, Segment
<1>3. Top(a) \in Nat /\ PAGE * Top(a) < a + PAGE
    BY TopBounds
<1>4. SUFFICES ASSUME StackPage < Top(a) PROVE FALSE
    BY <1>2, <1>3
<1>5. PAGE * StackPage + PAGE <= PAGE * Top(a)
    BY <1>1, <1>2, <1>3, <1>4, MulMono
<1>6. PAGE * StackPage \in Nat /\ PAGE * Top(a) \in Nat
    BY <1>1, <1>2, <1>3
<1>. QED
    BY <1>1, <1>3, <1>5, <1>6

(* The pages that are mapped for a segment. *)
LEMMA PagesOfSegment ==
    ASSUME NEW s, Fits(s)
    PROVE  LET p == PagesFor(s.at, s.size)
           IN  /\ s.at \in Nat /\ s.size \in Nat \ {0}
               /\ FirstPage(s) \in Nat /\ LastPage(s) \in Nat /\ FirstPage(s) <= LastPage(s)
               /\ p \in Seq(Nat)
               /\ Len(p) = LastPage(s) - FirstPage(s) + 1
               /\ \A i \in 1 .. Len(p) : p[i] = FirstPage(s) + i - 1
               /\ Top(s.at + s.size) = LastPage(s) + 1
<1>1. /\ PAGE \in Nat \ {0} /\ s.at \in Nat /\ s.size \in Nat \ {0}
      /\ (s.size + PAGE - 1) \div PAGE = LastPage(s) - FirstPage(s) + 1
    BY MemConstants DEF Fits, Segment
<1>2. FirstPage(s) \in Nat /\ LastPage(s) \in Nat
    <2>1. s.at + s.size - 1 \in Nat
        BY <1>1
    <2>2. s.at \div PAGE \in Nat
        BY <1>1, DivDef
    <2>3. (s.at + s.size - 1) \div PAGE \in Nat
        BY <1>1, <2>1, DivDef
    <2>. QED
        BY <2>2, <2>3 DEF FirstPage, LastPage
<1>3. Top(s.size) \in Nat /\ s.size <= PAGE * Top(s.size)
    BY <1>1, TopBounds
<1>4. Top(s.size) # 0
    BY <1>1, <1>3
<1>5. Top(s.size) = LastPage(s) - FirstPage(s) + 1
    BY <1>1 DEF Top
<1>6. FirstPage(s) <= LastPage(s)
    BY <1>2, <1>3, <1>4, <1>5
<1>7. LastPage(s) = Top(s.at + s.size) - 1
    <2>1. s.at + s.size \in Nat \ {0}
        BY <1>1
    <2>2. PICK a \in Nat \ {0} : a = s.at + s.size
        BY <2>1
    <2>3. (a - 1) \div PAGE = Top(a) - 1
        BY LastByte
    <2>4. LastPage(s) = (a - 1) \div PAGE
        <3>1. s.at + s.size - 1 = a - 1
            BY <1>1, <2>2
        <3>. QED
            BY <3>1 DEF LastPage
    <2>. QED
        BY <2>2, <2>3, <2>4
<1>8. Top(s.at + s.size) \in Nat
    BY <1>1, TopBounds
<1>9. PICK p : p = PagesFor(s.at, s.size)
    OBVIOUS
<1>10. PICK f \in Nat, n \in Nat : f = FirstPage(s) /\ n = LastPage(s) - FirstPage(s) + 1
    BY <1>2, <1>6
<1>11. p = [i \in 1 .. n |-> f + i - 1]
    BY <1>1, <1>9, <1>10 DEF PagesFor, FirstPage
<1>12. p \in Seq(Nat) /\ Len(p) = n /\ \A i \in 1 .. n : p[i] = f + i - 1
    BY <1>11
<1>13. Top(s.at + s.size) = LastPage(s) + 1
    BY <1>2, <1>7, <1>8
<1>. QED
    BY <1>1, <1>2, <1>6, <1>9, <1>10, <1>12, <1>13

-----------------------------------------------------------------------------
(* The invariant. *)

InForkAt == {"fork_dir", "fork_copy", "fork_map"}
Builds == {"fork_map", "load", "stack"}

MemTypes ==
    /\ used \subseteq Frames /\ lost \subseteq Frames
    /\ dead \subseteq alive /\ alive \subseteq Tasks /\ First \in alive \ dead
    /\ content \in [Frames -> [Index -> Frames \cup {None, Kernel}]]
    /\ dir \in [Tasks -> Frames \cup {None}]
    /\ kstack \in [Tasks -> Frames \cup {None}]
    /\ new \in [Tasks -> Frames \cup {None}]
    /\ heapEnd \in [Tasks -> Nat] /\ loaded \in [Tasks -> Nat] /\ end \in [Tasks -> Nat]
    /\ pc \in [Tasks -> Points]
    /\ todo \in [Tasks -> Seq(UserPages)] /\ segs \in [Tasks -> Seq(Segment)]
    /\ child \in [Tasks -> Slots \cup {None}]

\* Which directories and stacks there are while a task is at a point of a call.
Point(t) ==
    /\ t \notin alive \ dead => pc[t] = "user"
    /\ (child[t] # None) <=> (pc[t] \in InForkAt)
    /\ (new[t] # None) <=> (pc[t] \in Builds \cup {"sbrk"})
    /\ pc[t] = "sbrk" => new[t] = dir[t]
    /\ todo[t] # <<>> => pc[t] \in Builds \cup {"sbrk"}
    /\ loaded[t] # 0 => pc[t] \in {"load", "stack"}

Forking(t) ==
    child[t] # None =>
        /\ child[t] \notin alive /\ kstack[child[t]] # None
        /\ (dir[child[t]] = None) <=> (pc[t] = "fork_dir")

Holding(t) ==
    /\ t \in alive => kstack[t] # None /\ dir[t] # None
    /\ t \notin alive => heapEnd[t] = 0
    /\ t \notin alive /\ (\A u \in Tasks : child[u] # t) => kstack[t] = None /\ dir[t] = None

Call(t) == Point(t) /\ Forking(t) /\ Holding(t)

Calls ==
    /\ \A t \in Tasks : Call(t)
    /\ \A t, u \in Tasks : child[t] # None /\ child[t] = child[u] => t = u

\* A directory holds the kernel and tables, a table holds pages.
DirectoriesSound ==
    \A d \in Directories :
        /\ content[d][0] = Kernel
        /\ \A i \in UserEntries : content[d][i] # None =>
             /\ content[d][i] \in Frames
             /\ \A j \in Index : content[content[d][i]][j] \in Frames \cup {None}

\* The directory of tss_init stays empty.
BlankUntilCopied ==
    \A t \in Tasks : pc[t] \in {"fork_copy", "fork_map"} =>
        \A i \in UserEntries : content[dir[child[t]]][i] = None

Tables == DirectoriesSound /\ BlankUntilCopied

\* The claims on frame f, in a form to reason with: what Claims has as a set.
Tabled(d, i, f) == d \in Directories /\ i \in UserEntries /\ content[d][i] = f
Paged(d, v, f) == d \in Directories /\ v \in UserPages /\ Mapped(d, v) = f

Owns(k, x, i, f) ==
    /\ f \in Frames
    /\ \/ k = "stack" /\ x \in Tasks /\ i = 0 /\ kstack[x] = f
       \/ k = "dir" /\ x \in Tasks /\ i = 0 /\ dir[x] = f
       \/ k = "new" /\ x \in Tasks /\ i = 0 /\ new[x] = f /\ pc[x] # "sbrk"
       \/ k = "table" /\ Tabled(x, i, f)
       \/ k = "page" /\ Paged(x, i, f)
       \/ k = "lost" /\ x = f /\ i = 0 /\ f \in lost

Once ==
    \A f, k, x, i, l, y, j :
        Owns(k, x, i, f) /\ Owns(l, y, j, f) => k = l /\ x = y /\ i = j

Accounted == \A f : f \in used <=> \E k, x, i : Owns(k, x, i, f)

\* The pages a call has still to map are different, and nothing is there yet.
Pending(t) == {todo[t][i] : i \in 1 .. Len(todo[t])}
Todo(t) ==
    \A i \in 1 .. Len(todo[t]) :
        /\ Mapped(new[t], todo[t][i]) = None
        /\ \A j \in 1 .. Len(todo[t]) : todo[t][i] = todo[t][j] => i = j

\* A heap that ends at a: its last page is there, and nothing from there to the
\* stack.
Ends(d, a) ==
    /\ Top(a) \in ENTRIES + 1 .. StackPage
    /\ Mapped(d, Top(a) - 1) # None
    /\ \A v \in Top(a) .. StackPage - 1 : Mapped(d, v) = None

\* A heap that grows: the pages up to its new end are there or to be mapped.
Grows(t) ==
    /\ heapEnd[t] # 0 /\ end[t] # 0
    /\ Top(heapEnd[t]) \in ENTRIES + 1 .. StackPage
    /\ Top(heapEnd[t]) <= Top(end[t]) /\ Top(end[t]) <= StackPage
    /\ Mapped(dir[t], Top(heapEnd[t]) - 1) # None
    /\ \A v \in Top(heapEnd[t]) .. StackPage - 1 :
          (Mapped(dir[t], v) # None \/ v \in Pending(t)) <=> v < Top(end[t])

\* A program that is loaded: the pages of the segments so far, and of the one
\* that is being loaded, are there or to be mapped.
Reached(t, p, v) ==
    \/ \E i \in 1 .. Len(p) : i <= loaded[t] + 1 /\ v \in SegPages(p[i])
    \/ pc[t] = "stack" /\ v \in SegPages(Stack)

Loads(t) ==
    \E p \in Programs :
        /\ loaded[t] + Len(segs[t]) = Len(p)
        /\ (segs[t] = <<>>) <=> (pc[t] = "stack")
        /\ \A i \in 1 .. Len(segs[t]) : segs[t][i] = p[loaded[t] + i]
        /\ loaded[t] # 0 => heapEnd[t] = p[loaded[t]].at + p[loaded[t]].size
        /\ \A v \in UserPages :
              (Mapped(new[t], v) # None \/ v \in Pending(t)) <=> Reached(t, p, v)

Space(t) ==
    /\ Todo(t)
    /\ t \in alive /\ heapEnd[t] # 0 /\ loaded[t] = 0 /\ pc[t] # "sbrk" => Ends(dir[t], heapEnd[t])
    /\ pc[t] = "sbrk" => Grows(t)
    /\ pc[t] \in {"load", "stack"} => Loads(t)

Sound == MemTypes /\ Calls /\ Tables /\ Once /\ Accounted
MemInv == Sound /\ \A t \in Tasks : Space(t)

-----------------------------------------------------------------------------
(* Directories, tables and pages are different frames. *)

LEMMA DirectoryIsOwned ==
    ASSUME MemTypes, Calls, NEW d \in Directories
    PROVE  /\ d \in Frames
           /\ \E t \in Tasks : Owns("dir", t, 0, d) \/ Owns("new", t, 0, d)
<1>1. PICK t \in Tasks : (d = dir[t] \/ d = new[t]) /\ d # None
    BY DEF Directories
<1>2. d \in Frames
    BY <1>1 DEF MemTypes
<1>3. CASE d = dir[t]
    BY <1>2, <1>3 DEF Owns
<1>4. CASE d = new[t] /\ pc[t] # "sbrk"
    BY <1>2, <1>4 DEF Owns
<1>5. CASE d = new[t] /\ pc[t] = "sbrk"
    <2>1. d = dir[t]
        BY <1>5 DEF Calls, Call, Point, Forking, Holding
    <2>. QED
        BY <1>3, <2>1
<1>. QED
    BY <1>1, <1>2, <1>3, <1>4, <1>5

LEMMA ForkingTask ==
    ASSUME MemTypes, Calls, NEW u \in Tasks, pc[u] \in InForkAt
    PROVE  /\ child[u] \in Slots /\ child[u] \in Tasks /\ child[u] # None
           /\ child[u] \notin alive /\ child[u] # First
           /\ kstack[child[u]] # None
           /\ (dir[child[u]] = None) <=> (pc[u] = "fork_dir")
           /\ \A w \in Tasks : child[w] = child[u] => w = u
<1>1. Point(u) /\ Forking(u)
    BY DEF Calls, Call
<1>2. child[u] # None
    BY <1>1 DEF Point
<1>3. child[u] \in Slots /\ child[u] \in Tasks /\ child[u] # First
    BY <1>2, MemConstants DEF MemTypes
<1>4. \A w \in Tasks : child[w] = child[u] => w = u
    BY <1>2 DEF Calls
<1>. QED
    BY <1>1, <1>2, <1>3, <1>4 DEF Forking

LEMMA TablesApart ==
    ASSUME MemTypes, Calls, Tables, Once,
           NEW d \in Directories, NEW i \in UserEntries, content[d][i] # None
    PROVE  /\ content[d][i] \in Frames /\ content[d][i] \notin Directories
           /\ \A e \in Directories, j \in UserEntries :
                content[e][j] = content[d][i] => e = d /\ j = i
<1>1. PICK f \in Frames : f = content[d][i]
    BY DEF Tables, DirectoriesSound
<1>2. Owns("table", d, i, f)
    BY <1>1 DEF Owns, Tabled
<1>3. f \notin Directories
    <2>1. SUFFICES ASSUME f \in Directories PROVE FALSE
        OBVIOUS
    <2>2. PICK t \in Tasks : Owns("dir", t, 0, f) \/ Owns("new", t, 0, f)
        BY <2>1, DirectoryIsOwned
    <2>. QED
        BY <1>2, <2>2 DEF Once
<1>4. ASSUME NEW e \in Directories, NEW j \in UserEntries, content[e][j] = f
      PROVE  e = d /\ j = i
    <2>1. Owns("table", e, j, f)
        BY <1>4 DEF Owns, Tabled
    <2>. QED
        BY <1>2, <2>1 DEF Once
<1>. QED
    BY <1>1, <1>3, <1>4

LEMMA MappedIs ==
    ASSUME MemTypes, Tables, NEW d \in Directories, NEW v \in UserPages
    PROVE  /\ TableOf(d, v) = content[d][pde_index(v)]
           /\ TableOf(d, v) \in Frames \cup {None}
           /\ TableOf(d, v) = None => Mapped(d, v) = None
           /\ TableOf(d, v) # None => Mapped(d, v) = content[TableOf(d, v)][pte_index(v)]
           /\ Mapped(d, v) \in Frames \cup {None}
<1>1. pde_index(v) \in UserEntries /\ pte_index(v) \in Index
    BY PageIndices
<1>2. Kernel \notin Frames /\ Kernel # None
    BY MemConstants
<1>3. /\ TableOf(d, v) = content[d][pde_index(v)]
      /\ TableOf(d, v) \in Frames \cup {None}
      /\ TableOf(d, v) # None => content[TableOf(d, v)][pte_index(v)] \in Frames \cup {None}
    BY <1>1 DEF Tables, DirectoriesSound, TableOf
<1>4. TableOf(d, v) # Kernel
    BY <1>2, <1>3
<1>. QED
    BY <1>3, <1>4 DEF Mapped

LEMMA OneDirectory ==
    ASSUME MemTypes, Calls, Once, NEW t \in Tasks, NEW u \in Tasks
    PROVE  /\ dir[t] # None /\ dir[t] = dir[u] => t = u
           /\ new[t] # None /\ pc[t] # "sbrk" /\ new[t] = new[u] => t = u
           /\ new[t] # None /\ pc[t] # "sbrk" => new[t] # dir[u]
<1>1. dir[t] # None => Owns("dir", t, 0, dir[t])
    BY DEF Owns, MemTypes
<1>2. dir[u] # None => Owns("dir", u, 0, dir[u])
    BY DEF Owns, MemTypes
<1>3. new[t] # None /\ pc[t] # "sbrk" => Owns("new", t, 0, new[t])
    BY DEF Owns, MemTypes
<1>4. new[u] # None /\ pc[u] # "sbrk" => Owns("new", u, 0, new[u])
    BY DEF Owns, MemTypes
<1>5. pc[u] = "sbrk" => new[u] = dir[u]
    BY DEF Calls, Call, Point, Forking, Holding
<1>. QED
    BY <1>1, <1>2, <1>3, <1>4, <1>5 DEF Once

-----------------------------------------------------------------------------
(* How the claims change. *)

LEMMA ClaimGained ==
    ASSUME Once, Accounted,
           NEW K, NEW X, NEW I, NEW p, p \notin used, used' = used \cup {p},
           \A k, x, i, f :
               Owns(k, x, i, f)' <=> Owns(k, x, i, f) \/ (k = K /\ x = X /\ i = I /\ f = p)
    PROVE  Once' /\ Accounted'
<1>1. \A k, x, i : ~Owns(k, x, i, p)
    BY DEF Accounted
<1>2. Once'
    BY <1>1 DEF Once
<1>3. Accounted'
    BY DEF Accounted
<1>. QED
    BY <1>2, <1>3

LEMMA ClaimsDropped ==
    ASSUME Once, Accounted,
           NEW gone, used' = used \ gone,
           \A k, x, i, f : Owns(k, x, i, f)' <=> Owns(k, x, i, f) /\ f \notin gone
    PROVE  Once' /\ Accounted'
<1>1. Once'
    BY DEF Once
<1>2. Accounted'
    BY DEF Accounted
<1>. QED
    BY <1>1, <1>2

(* What Owned gives back is what is claimed in the directory. *)
LEMMA OwnedIs ==
    ASSUME MemTypes, Calls, Tables, NEW d \in Directories
    PROVE  \A f : f \in Owned(d) <=>
              /\ f \in Frames
              /\ f = d \/ (\E i : Tabled(d, i, f)) \/ (\E v : Paged(d, v, f))
<1>1. d \in Frames
    BY DirectoryIsOwned
<1>2. None \notin Frames
    BY MemConstants
<1>3. \A i \in UserEntries : content[d][i] # None => content[d][i] \in Frames
    BY DEF Tables, DirectoriesSound
<1>4. \A v \in UserPages : Mapped(d, v) \in Frames \cup {None}
    BY MappedIs
<1>. QED
    BY <1>1, <1>2, <1>3, <1>4 DEF Owned, Present, Tabled, Paged

LEMMA OwnedApart ==
    ASSUME MemTypes, Calls, Tables, Once, NEW d \in Directories,
           NEW k, NEW x, NEW i, NEW f, Owns(k, x, i, f)
    PROVE  f \in Owned(d) <=> (f = d \/ (k \in {"table", "page"} /\ x = d))
<1>1. PICK t \in Tasks, l \in {"dir", "new"} : Owns(l, t, 0, d)
    BY DirectoryIsOwned
<1>2. f \in Frames
    BY DEF Owns
<1>3. ASSUME f \in Owned(d), f # d PROVE k \in {"table", "page"} /\ x = d
    <2>1. (\E j : Tabled(d, j, f)) \/ (\E v : Paged(d, v, f))
        BY <1>3, OwnedIs
    <2>2. CASE \E j : Tabled(d, j, f)
        <3>1. PICK j : Owns("table", d, j, f)
            BY <1>2, <2>2 DEF Owns
        <3>. QED
            BY <3>1 DEF Once
    <2>3. CASE \E v : Paged(d, v, f)
        <3>1. PICK v : Owns("page", d, v, f)
            BY <1>2, <2>3 DEF Owns
        <3>. QED
            BY <3>1 DEF Once
    <2>. QED
        BY <2>1, <2>2, <2>3
<1>4. ASSUME k \in {"table", "page"} /\ x = d PROVE f \in Owned(d)
    <2>1. Tabled(d, i, f) \/ Paged(d, i, f)
        BY <1>4 DEF Owns
    <2>. QED
        BY <1>2, <2>1, OwnedIs
<1>5. f = d => f \in Owned(d)
    BY DEF Owned
<1>. QED
    BY <1>3, <1>4, <1>5

(* A frame that is free becomes a directory. *)
LEMMA FreshFrame ==
    ASSUME Sound, NEW p, p \in Frames \ used,
           content' = [content EXCEPT ![p] = NewDirectory(p)]
    PROVE  /\ content' \in [Frames -> [Index -> Frames \cup {None, Kernel}]]
           /\ p \notin Directories
           /\ \A d \in Directories : content'[d] = content[d]
           /\ \A d \in Directories, i \in UserEntries :
                content[d][i] # None => content'[content[d][i]] = content[content[d][i]]
           /\ content'[p][0] = Kernel /\ \A i \in UserEntries : content'[p][i] = None
           /\ \A d \in Directories, v \in UserPages : Mapped(d, v)' = Mapped(d, v)
           /\ \A v \in UserPages : Mapped(p, v)' = None
<1>. USE DEF Sound
<1>1. 0 \in Index /\ UserEntries \subseteq Index /\ 0 \notin UserEntries
    BY MemConstants DEF UserEntries, Index
<1>2. \A d \in Directories : d \in Frames /\ d # p
    BY DirectoryIsOwned DEF Accounted
<1>3. \A d \in Directories, i \in UserEntries :
        content[d][i] # None => content[d][i] \in Frames /\ content[d][i] # p
    <2>. SUFFICES ASSUME NEW d \in Directories, NEW i \in UserEntries, content[d][i] # None
                  PROVE  content[d][i] \in Frames /\ content[d][i] # p
        OBVIOUS
    <2>1. content[d][i] \in Frames
        BY TablesApart
    <2>2. Owns("table", d, i, content[d][i])
        BY <2>1 DEF Owns, Tabled
    <2>. QED
        BY <2>1, <2>2 DEF Accounted
<1>4. NewDirectory(p) \in [Index -> Frames \cup {None, Kernel}]
    BY DEF NewDirectory, NoEntries
<1>5. content' \in [Frames -> [Index -> Frames \cup {None, Kernel}]]
    BY <1>4 DEF MemTypes
<1>6. \A f \in Frames \ {p} : content'[f] = content[f]
    BY DEF MemTypes
<1>7. content'[p] = NewDirectory(p)
    BY DEF MemTypes
<1>8. content'[p][0] = Kernel /\ \A i \in UserEntries : content'[p][i] = None
    BY <1>1, <1>7 DEF NewDirectory, NoEntries
<1>9. \A d \in Directories, v \in UserPages : Mapped(d, v)' = Mapped(d, v)
    <2>. SUFFICES ASSUME NEW d \in Directories, NEW v \in UserPages
                  PROVE  Mapped(d, v)' = Mapped(d, v)
        OBVIOUS
    <2>1. pde_index(v) \in UserEntries
        BY PageIndices
    <2>2. content'[d] = content[d]
        BY <1>2, <1>6
    <2>4. Kernel \notin Frames /\ Kernel # None /\ None \notin Frames
        BY MemConstants
    <2>3. TableOf(d, v) \in Frames \cup {None} /\ TableOf(d, v) # p
        <3>1. TableOf(d, v) = content[d][pde_index(v)] /\ TableOf(d, v) \in Frames \cup {None}
            BY MappedIs
        <3>. QED
            BY <1>3, <2>1, <2>4, <3>1
    <2>5. TableOf(d, v)' = TableOf(d, v)
        BY <2>2 DEF TableOf
    <2>. QED
        BY <1>6, <2>3, <2>4, <2>5 DEF Mapped
<1>10. \A v \in UserPages : Mapped(p, v)' = None
    <2>. SUFFICES ASSUME NEW v \in UserPages PROVE Mapped(p, v)' = None
        OBVIOUS
    <2>1. TableOf(p, v)' = None
        BY <1>8, PageIndices DEF TableOf
    <2>. QED
        BY <2>1, MemConstants DEF Mapped
<1>11. \A d \in Directories : content'[d] = content[d]
    BY <1>2, <1>6
<1>12. \A d \in Directories, i \in UserEntries :
        content[d][i] # None => content'[content[d][i]] = content[content[d][i]]
    BY <1>3, <1>6
<1>. QED
    BY <1>2, <1>5, <1>8, <1>9, <1>10, <1>11, <1>12

LEMMA FreshDirectory ==
    ASSUME Sound, NEW p, p \in Frames \ used,
           content' = [content EXCEPT ![p] = NewDirectory(p)],
           Directories' = Directories \cup {p}
    PROVE  /\ DirectoriesSound'
           /\ \A x, i, f : f \in Frames => (Tabled(x, i, f)' <=> Tabled(x, i, f))
           /\ \A x, i, f : f \in Frames => (Paged(x, i, f)' <=> Paged(x, i, f))
<1>1. /\ \A d \in Directories : content'[d] = content[d]
      /\ \A d \in Directories, i \in UserEntries :
           content[d][i] # None => content'[content[d][i]] = content[content[d][i]]
      /\ content'[p][0] = Kernel /\ \A i \in UserEntries : content'[p][i] = None
      /\ p \notin Directories
    BY FreshFrame
<1>2. /\ \A d \in Directories, v \in UserPages : Mapped(d, v)' = Mapped(d, v)
      /\ \A v \in UserPages : Mapped(p, v)' = None
    BY FreshFrame
<1>3. None \notin Frames
    BY MemConstants
<1>4. DirectoriesSound'
    <2>1. \A d \in Directories :
            /\ content[d][0] = Kernel
            /\ \A i \in UserEntries : content[d][i] # None =>
                 /\ content[d][i] \in Frames
                 /\ \A j \in Index : content[content[d][i]][j] \in Frames \cup {None}
        BY DEF Sound, Tables, DirectoriesSound
    <2>2. ASSUME NEW d \in Directories
          PROVE  /\ content'[d][0] = Kernel
                 /\ \A i \in UserEntries : content'[d][i] # None =>
                      /\ content'[d][i] \in Frames
                      /\ \A j \in Index : content'[content'[d][i]][j] \in Frames \cup {None}
        BY <1>1, <2>1
    <2>. QED
        BY <1>1, <2>2 DEF DirectoriesSound
<1>5. ASSUME NEW x, NEW i, NEW f \in Frames PROVE Tabled(x, i, f)' <=> Tabled(x, i, f)
    BY <1>1, <1>3, <1>5 DEF Tabled
<1>6. ASSUME NEW x, NEW i, NEW f \in Frames PROVE Paged(x, i, f)' <=> Paged(x, i, f)
    BY <1>1, <1>2, <1>3, <1>6 DEF Paged
<1>. QED
    BY <1>4, <1>5, <1>6

LEMMA KeptDirectories ==
    ASSUME Tables, content' = content, Directories' \subseteq Directories
    PROVE  /\ DirectoriesSound'
           /\ \A x, i, f : Tabled(x, i, f)' <=> (Tabled(x, i, f) /\ x \in Directories')
           /\ \A x, i, f : Paged(x, i, f)' <=> (Paged(x, i, f) /\ x \in Directories')
           /\ \A d, v : Mapped(d, v)' = Mapped(d, v)
<1>1. \A d, v : Mapped(d, v)' = Mapped(d, v)
    BY DEF Mapped, TableOf
<1>2. DirectoriesSound'
    BY DEF Tables, DirectoriesSound
<1>3. \A x, i, f : Tabled(x, i, f)' <=> (Tabled(x, i, f) /\ x \in Directories')
    BY DEF Tabled
<1>4. \A x, i, f : Paged(x, i, f)' <=> (Paged(x, i, f) /\ x \in Directories')
    BY <1>1 DEF Paged
<1>. QED
    BY <1>1, <1>2, <1>3, <1>4

-----------------------------------------------------------------------------
(* The directories, tables and claims after each step. *)

Exact == Tables /\ Once /\ Accounted

LEMMA NoFrameMoves ==
    ASSUME Sound, UNCHANGED <<used, content, dir, kstack, lost>>,
           Directories' = Directories,
           \A x \in Tasks, f \in Frames :
               (new'[x] = f /\ pc'[x] # "sbrk") <=> (new[x] = f /\ pc[x] # "sbrk"),
           \A x \in Tasks : pc'[x] \in {"fork_copy", "fork_map"} =>
               pc[x] \in {"fork_copy", "fork_map"} /\ child'[x] = child[x]
    PROVE  Exact'
<1>. USE DEF Sound
<1>1. /\ DirectoriesSound'
      /\ \A x, i, f : Tabled(x, i, f)' <=> (Tabled(x, i, f) /\ x \in Directories')
      /\ \A x, i, f : Paged(x, i, f)' <=> (Paged(x, i, f) /\ x \in Directories')
    BY KeptDirectories
<1>2. /\ \A x, i, f : Tabled(x, i, f)' <=> Tabled(x, i, f)
      /\ \A x, i, f : Paged(x, i, f)' <=> Paged(x, i, f)
    BY <1>1 DEF Tabled, Paged
<1>3. \A k, x, i, f : Owns(k, x, i, f)' <=> Owns(k, x, i, f)
    BY <1>2 DEF Owns
<1>4. Once'
    BY <1>3 DEF Once
<1>5. Accounted'
    BY <1>3 DEF Accounted
<1>6. BlankUntilCopied'
    BY DEF Tables, BlankUntilCopied
<1>. QED
    BY <1>1, <1>4, <1>5, <1>6 DEF Exact, Tables

LEMMA ForkStackExact ==
    ASSUME Sound, NEW t \in Tasks, NEW c \in Slots, fork_stack(t, c)
    PROVE  Exact'
<1>. USE DEF Sound
<1>1. PICK p : p = Page
    OBVIOUS
<1>2. p \in Frames \ used
    BY <1>1, PageIsFree DEF fork_stack
<1>3. /\ kstack' = [kstack EXCEPT ![c] = p] /\ used' = used \cup {p}
      /\ child' = [child EXCEPT ![t] = c] /\ pc' = [pc EXCEPT ![t] = "fork_dir"]
      /\ UNCHANGED <<content, dir, new, lost>>
      /\ c \in Slots \ (alive \cup InFork) /\ pc[t] = "user"
    BY <1>1 DEF fork_stack, Goes, At, workVars
<1>4. c \in Tasks /\ kstack[c] = None
    BY <1>3, MemConstants DEF Calls, Call, Point, Forking, Holding, InFork
<1>5. Directories' = Directories
    BY <1>3 DEF Directories
<1>6. /\ DirectoriesSound'
      /\ \A x, i, f : Tabled(x, i, f)' <=> (Tabled(x, i, f) /\ x \in Directories')
      /\ \A x, i, f : Paged(x, i, f)' <=> (Paged(x, i, f) /\ x \in Directories')
    BY <1>3, <1>5, KeptDirectories
<1>7. /\ \A x, i, f : Tabled(x, i, f)' <=> Tabled(x, i, f)
      /\ \A x, i, f : Paged(x, i, f)' <=> Paged(x, i, f)
    BY <1>5, <1>6 DEF Tabled, Paged
<1>8. \A x \in Tasks : pc'[x] = IF x = t THEN "fork_dir" ELSE pc[x]
    BY <1>3 DEF MemTypes
<1>9. \A x \in Tasks : kstack'[x] = IF x = c THEN p ELSE kstack[x]
    BY <1>3 DEF MemTypes
<1>10. \A k, x, i, f :
         Owns(k, x, i, f)' <=> Owns(k, x, i, f) \/ (k = "stack" /\ x = c /\ i = 0 /\ f = p)
    <2>. SUFFICES ASSUME NEW k, NEW x, NEW i, NEW f
                  PROVE  Owns(k, x, i, f)' <=>
                         Owns(k, x, i, f) \/ (k = "stack" /\ x = c /\ i = 0 /\ f = p)
        OBVIOUS
    <2>1. None \notin Frames
        BY MemConstants
    <2>. QED
        BY <1>2, <1>3, <1>4, <1>7, <1>8, <1>9, <2>1 DEF Owns
<1>11. Once' /\ Accounted'
    <2>1. p \notin used
        BY <1>2
    <2>. QED
        BY <1>3, <1>10, <2>1, ClaimGained
<1>12. BlankUntilCopied'
    BY <1>3, <1>8 DEF Tables, BlankUntilCopied, MemTypes
<1>. QED
    BY <1>6, <1>11, <1>12 DEF Exact, Tables

LEMMA ForkDirExact ==
    ASSUME Sound, NEW t \in Tasks, fork_dir(t)
    PROVE  Exact'
<1>. USE DEF Sound
<1>1. PICK p : p = Page
    OBVIOUS
<1>2. p \in Frames \ used
    BY <1>1, PageIsFree DEF fork_dir
<1>3. PICK c : c = child[t]
    OBVIOUS
<1>4. /\ dir' = [dir EXCEPT ![c] = p] /\ used' = used \cup {p}
      /\ content' = [content EXCEPT ![p] = NewDirectory(p)]
      /\ pc' = [pc EXCEPT ![t] = "fork_copy"] /\ pc[t] = "fork_dir"
      /\ UNCHANGED <<kstack, new, child, lost>>
    BY <1>1, <1>3 DEF fork_dir, Goes, At, workVars
<1>5. c \in Tasks /\ c # None /\ dir[c] = None
    BY <1>3, <1>4, MemConstants DEF Calls, Call, Point, Forking, Holding, InForkAt, MemTypes
<1>6. \A x \in Tasks : /\ dir'[x] = IF x = c THEN p ELSE dir[x]
                       /\ pc'[x] = IF x = t THEN "fork_copy" ELSE pc[x]
    BY <1>4 DEF MemTypes
<1>7. Directories' = Directories \cup {p}
    <2>1. None \notin Frames
        BY MemConstants
    <2>. QED
        BY <1>2, <1>4, <1>5, <1>6, <2>1 DEF Directories
<1>8. /\ DirectoriesSound'
      /\ \A x, i, f : f \in Frames => (Tabled(x, i, f)' <=> Tabled(x, i, f))
      /\ \A x, i, f : f \in Frames => (Paged(x, i, f)' <=> Paged(x, i, f))
    BY <1>2, <1>4, <1>7, FreshDirectory
<1>9. \A k, x, i, f :
         Owns(k, x, i, f)' <=> Owns(k, x, i, f) \/ (k = "dir" /\ x = c /\ i = 0 /\ f = p)
    <2>. SUFFICES ASSUME NEW k, NEW x, NEW i, NEW f
                  PROVE  Owns(k, x, i, f)' <=>
                         Owns(k, x, i, f) \/ (k = "dir" /\ x = c /\ i = 0 /\ f = p)
        OBVIOUS
    <2>1. None \notin Frames
        BY MemConstants
    <2>. QED
        BY <1>2, <1>4, <1>5, <1>6, <1>8, <2>1 DEF Owns
<1>10. Once' /\ Accounted'
    <2>1. p \notin used
        BY <1>2
    <2>. QED
        BY <1>4, <1>9, <2>1, ClaimGained
<1>11. ASSUME NEW u \in Tasks, pc'[u] \in {"fork_copy", "fork_map"}, NEW i \in UserEntries
       PROVE  content'[dir'[child'[u]]][i] = None
    <2>1. /\ \A d \in Directories : content'[d] = content[d]
          /\ content'[p][i] = None
        BY <1>2, <1>4, FreshFrame
    <2>2. CASE u = t
        BY <1>3, <1>4, <1>5, <1>6, <2>1, <2>2
    <2>3. CASE u # t
        <3>1. pc[u] \in {"fork_copy", "fork_map"}
            BY <1>6, <1>11, <2>3
        <3>2. child[u] \in Tasks /\ child[u] # c /\ dir[child[u]] # None
            <4>1. pc[u] \in InForkAt /\ pc[u] # "fork_dir"
                BY <3>1 DEF InForkAt
            <4>2. /\ child[u] \in Tasks /\ dir[child[u]] # None
                  /\ \A w \in Tasks : child[w] = child[u] => w = u
                BY <4>1, ForkingTask
            <4>. QED
                BY <1>3, <2>3, <4>2
        <3>3. dir'[child'[u]] = dir[child[u]] /\ dir[child[u]] \in Directories
            BY <1>4, <1>6, <3>2 DEF Directories
        <3>4. content[dir[child[u]]][i] = None
            BY <3>1 DEF Tables, BlankUntilCopied
        <3>. QED
            BY <2>1, <3>3, <3>4
    <2>. QED
        BY <2>2, <2>3
<1>. QED
    BY <1>8, <1>10, <1>11 DEF Exact, Tables, BlankUntilCopied

(* memory_create_uvm in a fork or an execve. *)
LEMMA NewSpaceExact ==
    ASSUME Sound, NEW t \in Tasks, NEW p, p \in Frames \ used, NEW q,
           new[t] = None, new' = [new EXCEPT ![t] = p], used' = used \cup {p},
           content' = [content EXCEPT ![p] = NewDirectory(p)],
           pc' = [pc EXCEPT ![t] = q], UNCHANGED <<dir, kstack, child, lost>>,
           (pc[t] = "fork_copy" /\ q = "fork_map") \/ (pc[t] = "user" /\ q = "load")
    PROVE  Exact'
<1>. USE DEF Sound
<1>1. \A x \in Tasks : /\ new'[x] = IF x = t THEN p ELSE new[x]
                       /\ pc'[x] = IF x = t THEN q ELSE pc[x]
    BY DEF MemTypes
<1>2. Directories' = Directories \cup {p}
    <2>1. None \notin Frames
        BY MemConstants
    <2>. QED
        BY <1>1, <2>1 DEF Directories
<1>3. /\ DirectoriesSound'
      /\ \A x, i, f : f \in Frames => (Tabled(x, i, f)' <=> Tabled(x, i, f))
      /\ \A x, i, f : f \in Frames => (Paged(x, i, f)' <=> Paged(x, i, f))
    BY <1>2, FreshDirectory
<1>4. \A k, x, i, f :
         Owns(k, x, i, f)' <=> Owns(k, x, i, f) \/ (k = "new" /\ x = t /\ i = 0 /\ f = p)
    <2>. SUFFICES ASSUME NEW k, NEW x, NEW i, NEW f
                  PROVE  Owns(k, x, i, f)' <=>
                         Owns(k, x, i, f) \/ (k = "new" /\ x = t /\ i = 0 /\ f = p)
        OBVIOUS
    <2>1. None \notin Frames
        BY MemConstants
    <2>. QED
        BY <1>1, <1>3, <2>1 DEF Owns
<1>5. Once' /\ Accounted'
    <2>1. p \notin used
        OBVIOUS
    <2>. QED
        BY <1>4, <2>1, ClaimGained
<1>6. ASSUME NEW u \in Tasks, pc'[u] \in {"fork_copy", "fork_map"}, NEW i \in UserEntries
      PROVE  content'[dir'[child'[u]]][i] = None
    <2>1. \A d \in Directories : content'[d] = content[d]
        BY FreshFrame
    <2>2. pc[u] \in {"fork_copy", "fork_map"}
        BY <1>1, <1>6
    <2>3. child[u] \in Tasks /\ dir[child[u]] # None
        BY <2>2, MemConstants DEF Calls, Call, Point, Forking, Holding, InForkAt, MemTypes
    <2>4. dir'[child'[u]] = dir[child[u]] /\ dir[child[u]] \in Directories
        BY <2>3 DEF Directories
    <2>5. content[dir[child[u]]][i] = None
        BY <2>2 DEF Tables, BlankUntilCopied
    <2>. QED
        BY <2>1, <2>4, <2>5
<1>. QED
    BY <1>3, <1>5, <1>6 DEF Exact, Tables, BlankUntilCopied

LEMMA ForkCopyExact ==
    ASSUME Sound, NEW t \in Tasks, fork_copy(t)
    PROVE  Exact'
<1>1. PICK p : p = Page
    OBVIOUS
<1>2. p \in Frames \ used
    BY <1>1, PageIsFree DEF fork_copy
<1>3. new[t] = None
    BY DEF Sound, Calls, Call, Point, Forking, Holding, fork_copy, At, Builds
<1>4. /\ new' = [new EXCEPT ![t] = p] /\ used' = used \cup {p}
      /\ content' = [content EXCEPT ![p] = NewDirectory(p)]
      /\ pc' = [pc EXCEPT ![t] = "fork_map"] /\ pc[t] = "fork_copy"
      /\ UNCHANGED <<dir, kstack, child, lost>>
    BY <1>1 DEF fork_copy, Goes, At
<1>. QED
    BY <1>2, <1>3, <1>4, NewSpaceExact

LEMMA ExecStartExact ==
    ASSUME Sound, NEW t \in Tasks, NEW program \in Programs, exec_start(t, program)
    PROVE  Exact'
<1>1. PICK p : p = Page
    OBVIOUS
<1>2. p \in Frames \ used
    BY <1>1, PageIsFree DEF exec_start
<1>3. new[t] = None
    BY DEF Sound, Calls, Call, Point, Forking, Holding, exec_start, At, Builds
<1>4. /\ new' = [new EXCEPT ![t] = p] /\ used' = used \cup {p}
      /\ content' = [content EXCEPT ![p] = NewDirectory(p)]
      /\ pc' = [pc EXCEPT ![t] = "load"] /\ pc[t] = "user"
      /\ UNCHANGED <<dir, kstack, child, lost>>
    BY <1>1 DEF exec_start, Goes, At
<1>. QED
    BY <1>2, <1>3, <1>4, NewSpaceExact

(* A directory is given up with all that is in it. *)
LEMMA DirectoryDropped ==
    ASSUME Sound, NEW d \in Directories, content' = content, Directories' = Directories \ {d}
    PROVE  /\ DirectoriesSound'
           /\ \A x, i, f : f \in Frames => (Tabled(x, i, f)' <=> (Tabled(x, i, f) /\ f \notin Owned(d)))
           /\ \A x, i, f : f \in Frames => (Paged(x, i, f)' <=> (Paged(x, i, f) /\ f \notin Owned(d)))
<1>. USE DEF Sound
<1>1. /\ DirectoriesSound'
      /\ \A x, i, f : Tabled(x, i, f)' <=> (Tabled(x, i, f) /\ x \in Directories')
      /\ \A x, i, f : Paged(x, i, f)' <=> (Paged(x, i, f) /\ x \in Directories')
    BY KeptDirectories
<1>2. PICK k, t : k \in {"dir", "new"} /\ Owns(k, t, 0, d)
    BY DirectoryIsOwned
<1>3. ASSUME NEW x, NEW i, NEW f \in Frames, Tabled(x, i, f)
      PROVE  f \in Owned(d) <=> x = d
    <2>1. Owns("table", x, i, f)
        BY <1>3 DEF Owns
    <2>2. f # d
        BY <1>2, <2>1 DEF Once
    <2>. QED
        BY <2>1, <2>2, OwnedApart
<1>4. ASSUME NEW x, NEW i, NEW f \in Frames, Paged(x, i, f)
      PROVE  f \in Owned(d) <=> x = d
    <2>1. Owns("page", x, i, f)
        BY <1>4 DEF Owns
    <2>2. f # d
        BY <1>2, <2>1 DEF Once
    <2>. QED
        BY <2>1, <2>2, OwnedApart
<1>5. \A x, i, f : /\ Tabled(x, i, f) => x \in Directories
                   /\ Paged(x, i, f) => x \in Directories
    BY DEF Tabled, Paged
<1>. QED
    BY <1>1, <1>3, <1>4, <1>5

LEMMA ExecFailsExact ==
    ASSUME Sound, NEW t \in Tasks, exec_fails(t)
    PROVE  Exact'
<1>. USE DEF Sound
<1>1. PICK d : d = new[t]
    OBVIOUS
<1>2. /\ used' = used \ Owned(d) /\ new' = [new EXCEPT ![t] = None]
      /\ pc' = [pc EXCEPT ![t] = "user"] /\ pc[t] \in {"load", "stack"}
      /\ UNCHANGED <<content, dir, kstack, child, lost>>
    BY <1>1 DEF exec_fails, At, Goes
<1>3. d \in Frames /\ d # None
    BY <1>1, <1>2, MemConstants DEF Calls, Call, Point, Forking, Holding, Builds, MemTypes
<1>4. \A x \in Tasks : /\ new'[x] = IF x = t THEN None ELSE new[x]
                       /\ pc'[x] = IF x = t THEN "user" ELSE pc[x]
    BY <1>2 DEF MemTypes
<1>5. \A x \in Tasks : dir[x] # d /\ (x # t => new[x] # d)
    BY <1>1, <1>2, <1>3, OneDirectory
<1>6. d \in Directories /\ Directories' = Directories \ {d}
    <2>1. d \in Directories
        BY <1>1, <1>3 DEF Directories
    <2>2. Directories' = Directories \ {d}
        BY <1>1, <1>2, <1>4, <1>5 DEF Directories
    <2>. QED
        BY <2>1, <2>2
<1>7. /\ DirectoriesSound'
      /\ \A x, i, f : f \in Frames => (Tabled(x, i, f)' <=> (Tabled(x, i, f) /\ f \notin Owned(d)))
      /\ \A x, i, f : f \in Frames => (Paged(x, i, f)' <=> (Paged(x, i, f) /\ f \notin Owned(d)))
    BY <1>2, <1>6, DirectoryDropped
<1>8. ASSUME NEW k, NEW x, NEW i, NEW f
      PROVE  Owns(k, x, i, f)' <=> Owns(k, x, i, f) /\ f \notin Owned(d)
    <2>1. Owns("new", t, 0, d)
        BY <1>1, <1>2, <1>3 DEF Owns
    <2>2. Owns(k, x, i, f) /\ f = d => k = "new" /\ x = t
        BY <2>1 DEF Once
    <2>3. Owns(k, x, i, f) => (f \in Owned(d) <=> (f = d \/ (k \in {"table", "page"} /\ x = d)))
        BY <1>6, OwnedApart
    <2>4. None \notin Frames
        BY MemConstants
    <2>. QED
        BY <1>1, <1>2, <1>4, <1>5, <1>7, <2>2, <2>3, <2>4 DEF Owns
<1>9. Once' /\ Accounted'
    BY <1>2, <1>8, ClaimsDropped
<1>10. BlankUntilCopied'
    BY <1>2, <1>4 DEF Tables, BlankUntilCopied
<1>. QED
    BY <1>7, <1>9, <1>10 DEF Exact, Tables

LEMMA ExecDoneExact ==
    ASSUME Sound, NEW t \in Tasks, exec_done(t)
    PROVE  Exact'
<1>. USE DEF Sound
<1>1. PICK old, n : old = dir[t] /\ n = new[t]
    OBVIOUS
<1>2. /\ used' = used \ Owned(old) /\ new' = [new EXCEPT ![t] = None]
      /\ dir' = [dir EXCEPT ![t] = n]
      /\ pc' = [pc EXCEPT ![t] = "user"] /\ pc[t] = "stack" /\ t \in alive
      /\ UNCHANGED <<content, kstack, child, lost>>
    BY <1>1 DEF exec_done, At, Goes
<1>3. n \in Frames /\ n # None /\ old \in Frames /\ old # None
    BY <1>1, <1>2, MemConstants DEF Calls, Call, Point, Forking, Holding, Builds, MemTypes
<1>4. \A x \in Tasks : /\ new'[x] = IF x = t THEN None ELSE new[x]
                       /\ dir'[x] = IF x = t THEN n ELSE dir[x]
                       /\ pc'[x] = IF x = t THEN "user" ELSE pc[x]
    BY <1>2 DEF MemTypes
<1>5. \A x \in Tasks : /\ dir[x] # n /\ (x # t => new[x] # n)
                       /\ new[x] # old /\ (x # t => dir[x] # old)
    <2>. SUFFICES ASSUME NEW x \in Tasks
                  PROVE  /\ dir[x] # n /\ (x # t => new[x] # n)
                         /\ new[x] # old /\ (x # t => dir[x] # old)
        OBVIOUS
    <2>1. dir[x] # n /\ (x # t => new[x] # n) /\ (x # t => dir[x] # old)
        BY <1>1, <1>2, <1>3, OneDirectory
    <2>2. pc[x] = "sbrk" => new[x] = dir[x]
        BY DEF Calls, Call, Point, Forking, Holding
    <2>3. new[x] = old /\ pc[x] # "sbrk" => FALSE
        BY <1>1, <1>3, OneDirectory
    <2>. QED
        BY <1>1, <1>2, <2>1, <2>2, <2>3
<1>6. old \in Directories /\ Directories' = Directories \ {old}
    <2>1. old \in Directories
        BY <1>1, <1>3 DEF Directories
    <2>2. Directories' = Directories \ {old}
        BY <1>1, <1>3, <1>4, <1>5 DEF Directories
    <2>. QED
        BY <2>1, <2>2
<1>7. /\ DirectoriesSound'
      /\ \A x, i, f : f \in Frames => (Tabled(x, i, f)' <=> (Tabled(x, i, f) /\ f \notin Owned(old)))
      /\ \A x, i, f : f \in Frames => (Paged(x, i, f)' <=> (Paged(x, i, f) /\ f \notin Owned(old)))
    BY <1>2, <1>6, DirectoryDropped
<1>8. Owns("new", t, 0, n) /\ Owns("dir", t, 0, old)
    BY <1>1, <1>2, <1>3 DEF Owns
<1>9. n \notin Owned(old)
    <2>1. n # old
        BY <1>8 DEF Once
    <2>. QED
        BY <1>6, <1>8, <2>1, OwnedApart
<1>10. old \in Owned(old)
    BY DEF Owned
<1>11. ASSUME NEW k, NEW x, NEW i, NEW f
       PROVE  Owns(k, x, i, f)' <=>
                 \/ k = "dir" /\ x = t /\ i = 0 /\ f = n
                 \/ ~(k \in {"dir", "new"} /\ x = t) /\ Owns(k, x, i, f) /\ f \notin Owned(old)
    <2>1. Owns(k, x, i, f) /\ f = old => k = "dir" /\ x = t
        BY <1>8 DEF Once
    <2>2. Owns(k, x, i, f) => (f \in Owned(old) <=> (f = old \/ (k \in {"table", "page"} /\ x = old)))
        BY <1>6, OwnedApart
    <2>3. None \notin Frames
        BY MemConstants
    <2>. QED
        BY <1>1, <1>2, <1>3, <1>4, <1>7, <2>1, <2>2, <2>3 DEF Owns
<1>12. Once'
    BY <1>8, <1>11 DEF Once
<1>13. Accounted'
    <2>1. \A f : f \in used' <=> f \in used /\ f \notin Owned(old)
        BY <1>2
    <2>2. ASSUME NEW f, f \in used' PROVE \E k, x, i : Owns(k, x, i, f)'
        <3>1. PICK k, x, i : Owns(k, x, i, f)
            BY <2>1, <2>2 DEF Accounted
        <3>2. CASE k \in {"dir", "new"} /\ x = t
            <4>1. f = old \/ f = n
                BY <1>1, <3>1, <3>2 DEF Owns
            <4>2. f = n
                BY <1>10, <2>1, <2>2, <4>1
            <4>. QED
                BY <1>11, <4>2
        <3>3. CASE ~(k \in {"dir", "new"} /\ x = t)
            BY <1>11, <2>1, <2>2, <3>1, <3>3
        <3>. QED
            BY <3>2, <3>3
    <2>3. ASSUME NEW f, NEW k, NEW x, NEW i, Owns(k, x, i, f)' PROVE f \in used'
        BY <1>8, <1>9, <1>11, <2>1, <2>3 DEF Accounted
    <2>. QED
        BY <2>2, <2>3 DEF Accounted
<1>14. BlankUntilCopied'
    <2>1. \A u \in Tasks : pc[u] \in {"fork_copy", "fork_map"} => child[u] \in Tasks /\ child[u] # t
        BY <1>2, ForkingTask DEF InForkAt
    <2>. QED
        BY <1>2, <1>4, <2>1 DEF Tables, BlankUntilCopied
<1>. QED
    BY <1>7, <1>12, <1>13, <1>14 DEF Exact, Tables

LEMMA ForkEndExact ==
    ASSUME Sound, NEW t \in Tasks, fork_end(t)
    PROVE  Exact'
<1>. USE DEF Sound
<1>1. PICK c, old, n : c = child[t] /\ old = dir[c] /\ n = new[t]
    OBVIOUS
<1>2. /\ new' = [new EXCEPT ![t] = None] /\ dir' = [dir EXCEPT ![c] = n]
      /\ child' = [child EXCEPT ![t] = None] /\ lost' = lost \cup {old}
      /\ pc' = [pc EXCEPT ![t] = "user"] /\ pc[t] = "fork_map"
      /\ UNCHANGED <<used, content, kstack>>
    BY <1>1 DEF fork_end, At, Goes
<1>3. c \in Tasks /\ c # None
    BY <1>1, <1>2, MemConstants DEF Calls, Call, Point, Forking, Holding, InForkAt, MemTypes
<1>4. n \in Frames /\ n # None /\ old \in Frames /\ old # None
    <2>1. new[t] # None /\ dir[child[t]] # None
        BY <1>1, <1>2, <1>3 DEF Calls, Call, Point, Forking, Holding, Builds
    <2>. QED
        BY <1>1, <1>3, <2>1 DEF MemTypes
<1>5. \A x \in Tasks : /\ new'[x] = IF x = t THEN None ELSE new[x]
                       /\ dir'[x] = IF x = c THEN n ELSE dir[x]
                       /\ pc'[x] = IF x = t THEN "user" ELSE pc[x]
                       /\ child'[x] = IF x = t THEN None ELSE child[x]
    BY <1>2 DEF MemTypes
<1>6. \A x \in Tasks : /\ dir[x] # n /\ (x # t => new[x] # n)
                       /\ new[x] # old /\ (x # c => dir[x] # old)
    <2>. SUFFICES ASSUME NEW x \in Tasks
                  PROVE  /\ dir[x] # n /\ (x # t => new[x] # n)
                         /\ new[x] # old /\ (x # c => dir[x] # old)
        OBVIOUS
    <2>1. dir[x] # n /\ (x # t => new[x] # n)
        BY <1>1, <1>2, <1>4, OneDirectory
    <2>2. x # c => dir[x] # old
        BY <1>1, <1>3, <1>4, OneDirectory
    <2>3. pc[x] = "sbrk" => new[x] = dir[x] /\ x # c
        <3>1. c \notin alive
            BY <1>1, <1>3 DEF Calls, Call, Point, Forking, Holding
        <3>. QED
            BY <3>1 DEF Calls, Call, Point, Forking, Holding
    <2>4. ~(new[x] = old /\ pc[x] # "sbrk")
        BY <1>1, <1>3, <1>4, OneDirectory
    <2>. QED
        BY <2>1, <2>2, <2>3, <2>4
<1>7. old \in Directories /\ Directories' = Directories \ {old}
    <2>1. old \in Directories
        BY <1>1, <1>3, <1>4 DEF Directories
    <2>2. Directories' = Directories \ {old}
        BY <1>1, <1>3, <1>4, <1>5, <1>6 DEF Directories
    <2>. QED
        BY <2>1, <2>2
<1>8. /\ \A i \in UserEntries : content[old][i] = None
      /\ \A v \in UserPages : Mapped(old, v) = None
    <2>1. \A i \in UserEntries : content[old][i] = None
        BY <1>1, <1>2 DEF Tables, BlankUntilCopied
    <2>2. ASSUME NEW v \in UserPages PROVE Mapped(old, v) = None
        <3>1. TableOf(old, v) = None
            BY <2>1, PageIndices DEF TableOf
        <3>. QED
            BY <1>7, <3>1, MappedIs
    <2>. QED
        BY <2>1, <2>2
<1>9. /\ DirectoriesSound'
      /\ \A x, i, f : Tabled(x, i, f)' <=> (Tabled(x, i, f) /\ x \in Directories')
      /\ \A x, i, f : Paged(x, i, f)' <=> (Paged(x, i, f) /\ x \in Directories')
    BY <1>2, <1>7, KeptDirectories
<1>10. \A x, i, f : f \in Frames => /\ Tabled(x, i, f)' <=> Tabled(x, i, f)
                                    /\ Paged(x, i, f)' <=> Paged(x, i, f)
    BY <1>7, <1>8, <1>9, MemConstants DEF Tabled, Paged
<1>11. Owns("new", t, 0, n) /\ Owns("dir", c, 0, old)
    BY <1>1, <1>2, <1>3, <1>4 DEF Owns
<1>12. ASSUME NEW k, NEW x, NEW i, NEW f
       PROVE  Owns(k, x, i, f)' <=>
                 \/ k = "dir" /\ x = c /\ i = 0 /\ f = n
                 \/ k = "lost" /\ x = old /\ i = 0 /\ f = old
                 \/ ~(k = "dir" /\ x = c) /\ ~(k = "new" /\ x = t) /\ Owns(k, x, i, f)
    <2>1. None \notin Frames
        BY MemConstants
    <2>. QED
        BY <1>1, <1>2, <1>3, <1>4, <1>5, <1>10, <2>1 DEF Owns
<1>13. Once'
    BY <1>11, <1>12 DEF Once
<1>14. Accounted'
    <2>1. ASSUME NEW f, f \in used' PROVE \E k, x, i : Owns(k, x, i, f)'
        <3>1. PICK k, x, i : Owns(k, x, i, f)
            BY <1>2, <2>1 DEF Accounted
        <3>2. (k = "dir" /\ x = c => f = old) /\ (k = "new" /\ x = t => f = n)
            BY <1>1, <3>1 DEF Owns
        <3>. QED
            BY <1>12, <3>1, <3>2
    <2>2. ASSUME NEW f, NEW k, NEW x, NEW i, Owns(k, x, i, f)' PROVE f \in used'
        BY <1>2, <1>11, <1>12, <2>2 DEF Accounted
    <2>. QED
        BY <2>1, <2>2 DEF Accounted
<1>15. BlankUntilCopied'
    <2>1. \A u \in Tasks : u # t /\ pc[u] \in {"fork_copy", "fork_map"} =>
              child[u] \in Tasks /\ child[u] # c
        BY <1>1, <1>3, ForkingTask DEF InForkAt
    <2>. QED
        BY <1>2, <1>5, <2>1 DEF Tables, BlankUntilCopied
<1>. QED
    BY <1>9, <1>13, <1>14, <1>15 DEF Exact, Tables

LEMMA WaitExact ==
    ASSUME Sound, NEW t \in Tasks, NEW c \in Slots, sys_wait(t, c)
    PROVE  Exact'
<1>. USE DEF Sound
<1>1. PICK d, s : d = dir[c] /\ s = kstack[c]
    OBVIOUS
<1>2. /\ used' = used \ (Owned(d) \cup {s})
      /\ dir' = [dir EXCEPT ![c] = None] /\ kstack' = [kstack EXCEPT ![c] = None]
      /\ c \in dead /\ UNCHANGED <<content, pc, new, child, lost>>
    BY <1>1 DEF sys_wait, workVars
<1>3. c \in Tasks /\ c \in alive /\ pc[c] = "user"
    BY <1>2, MemConstants DEF MemTypes, Calls, Call, Point, Forking, Holding
<1>4. d \in Frames /\ d # None /\ s \in Frames /\ s # None
    BY <1>1, <1>3, MemConstants DEF Calls, Call, Point, Forking, Holding, MemTypes
<1>5. \A x \in Tasks : /\ dir'[x] = IF x = c THEN None ELSE dir[x]
                       /\ kstack'[x] = IF x = c THEN None ELSE kstack[x]
    BY <1>2 DEF MemTypes
<1>6. \A x \in Tasks : new[x] # d /\ (x # c => dir[x] # d)
    <2>. SUFFICES ASSUME NEW x \in Tasks PROVE new[x] # d /\ (x # c => dir[x] # d)
        OBVIOUS
    <2>1. x # c => dir[x] # d
        BY <1>1, <1>3, <1>4, OneDirectory
    <2>2. pc[x] = "sbrk" => new[x] = dir[x] /\ x # c
        BY <1>3 DEF Calls, Call, Point, Forking, Holding
    <2>3. ~(new[x] = d /\ pc[x] # "sbrk")
        BY <1>1, <1>3, <1>4, OneDirectory
    <2>. QED
        BY <2>1, <2>2, <2>3
<1>7. d \in Directories /\ Directories' = Directories \ {d}
    <2>1. d \in Directories
        BY <1>1, <1>3, <1>4 DEF Directories
    <2>2. Directories' = Directories \ {d}
        BY <1>1, <1>2, <1>4, <1>5, <1>6 DEF Directories
    <2>. QED
        BY <2>1, <2>2
<1>8. /\ DirectoriesSound'
      /\ \A x, i, f : f \in Frames => (Tabled(x, i, f)' <=> (Tabled(x, i, f) /\ f \notin Owned(d)))
      /\ \A x, i, f : f \in Frames => (Paged(x, i, f)' <=> (Paged(x, i, f) /\ f \notin Owned(d)))
    BY <1>2, <1>7, DirectoryDropped
<1>9. Owns("stack", c, 0, s) /\ Owns("dir", c, 0, d)
    BY <1>1, <1>3, <1>4 DEF Owns
<1>10. PICK gone : gone = Owned(d) \cup {s}
    OBVIOUS
<1>11. ASSUME NEW k, NEW x, NEW i, NEW f
       PROVE  Owns(k, x, i, f)' <=> Owns(k, x, i, f) /\ f \notin gone
    <2>1. Owns(k, x, i, f) /\ f = d => k = "dir" /\ x = c
        BY <1>9 DEF Once
    <2>2. Owns(k, x, i, f) /\ f = s => k = "stack" /\ x = c
        BY <1>9 DEF Once
    <2>3. Owns(k, x, i, f) => (f \in Owned(d) <=> (f = d \/ (k \in {"table", "page"} /\ x = d)))
        BY <1>7, OwnedApart
    <2>4. None \notin Frames
        BY MemConstants
    <2>5. CASE k = "table"
        BY <1>8, <1>10, <2>2, <2>5 DEF Owns
    <2>6. CASE k = "page"
        BY <1>8, <1>10, <2>2, <2>6 DEF Owns
    <2>7. CASE k \notin {"table", "page"}
        BY <1>1, <1>2, <1>3, <1>4, <1>5, <1>10, <2>1, <2>2, <2>3, <2>4, <2>7 DEF Owns
    <2>. QED
        BY <2>5, <2>6, <2>7
<1>12. Once' /\ Accounted'
    BY <1>2, <1>10, <1>11, ClaimsDropped
<1>13. BlankUntilCopied'
    <2>1. \A u \in Tasks : pc[u] \in {"fork_copy", "fork_map"} => child[u] \in Tasks /\ child[u] # c
        BY <1>3, ForkingTask DEF InForkAt
    <2>. QED
        BY <1>2, <1>5, <2>1 DEF Tables, BlankUntilCopied
<1>. QED
    BY <1>8, <1>12, <1>13 DEF Exact, Tables

-----------------------------------------------------------------------------
(* memory_alloc_for_page_dir: one page more. *)

\* Page v of directory d is mapped to p, and nothing else changes.
OnlyMaps(d, v, p) ==
    \A e \in Directories, w \in UserPages :
        Mapped(e, w)' = IF e = d /\ w = v THEN p ELSE Mapped(e, w)

LEMMA ContentInTable ==
    ASSUME NEW C \in [Frames -> [Index -> Frames \cup {None, Kernel}]],
           NEW q \in Frames, NEW j \in Index, NEW p \in Frames
    PROVE  LET D == [C EXCEPT ![q][j] = p]
           IN  /\ D \in [Frames -> [Index -> Frames \cup {None, Kernel}]]
               /\ \A k \in Index : D[q][k] = IF k = j THEN p ELSE C[q][k]
               /\ \A f \in Frames \ {q} : D[f] = C[f]
    OBVIOUS

\* The entries that are written, with and without a new table q.
EntersTable(d, v, p, q) ==
    /\ content' \in [Frames -> [Index -> Frames \cup {None, Kernel}]]
    /\ \A k \in Index : content'[q][k] = IF k = pte_index(v) THEN p ELSE None
    /\ \A k \in Index : content'[d][k] = IF k = pde_index(v) THEN q ELSE content[d][k]
    /\ \A f \in Frames \ {d, q} : content'[f] = content[f]

EntersPage(v, p, q) ==
    /\ content' \in [Frames -> [Index -> Frames \cup {None, Kernel}]]
    /\ \A k \in Index : content'[q][k] = IF k = pte_index(v) THEN p ELSE content[q][k]
    /\ \A f \in Frames \ {q} : content'[f] = content[f]

LEMMA MapWithTable ==
    ASSUME Sound, NEW d \in Directories, NEW v \in UserPages,
           NEW p, NEW q, p \in Frames \ used, q \in Frames \ used, p # q,
           TableOf(d, v) = None, used' = used \cup {p, q},
           EntersTable(d, v, p, q),
           UNCHANGED <<dir, new, pc, kstack, child, lost>>
    PROVE  /\ DirectoriesSound' /\ Once' /\ Accounted' /\ OnlyMaps(d, v, p)
           /\ \A e \in Directories \ {d} : content'[e] = content[e]
<1>. USE DEF Sound
<1>1. PICK i \in UserEntries, j \in Index : i = pde_index(v) /\ j = pte_index(v)
    BY PageIndices
<1>2. /\ None \notin Frames /\ Kernel \notin Frames /\ Kernel # None
      /\ UserEntries \subseteq Index /\ 0 \in Index /\ 0 \notin UserEntries
    BY MemConstants DEF UserEntries, Index
<1>5. \A e \in Directories : e \in Frames /\ e # q
    BY DirectoryIsOwned DEF Accounted
<1>6. /\ \A k \in Index : content'[q][k] = IF k = j THEN p ELSE None
      /\ \A k \in Index : content'[d][k] = IF k = i THEN q ELSE content[d][k]
      /\ \A f \in Frames \ {d, q} : content'[f] = content[f]
    BY <1>1 DEF EntersTable
<1>7. ASSUME NEW e \in Directories, NEW k \in UserEntries, content[e][k] # None
      PROVE  /\ content[e][k] \in Frames \ {d, q} /\ ~(e = d /\ k = i)
             /\ content'[content[e][k]] = content[content[e][k]]
    <2>1. content[e][k] \in Frames /\ content[e][k] # d
        BY <1>7, TablesApart
    <2>2. content[e][k] # q
        <3>1. Owns("table", e, k, content[e][k])
            BY <2>1 DEF Owns, Tabled
        <3>. QED
            BY <3>1 DEF Accounted
    <2>3. content[d][i] = None
        BY <1>1 DEF TableOf
    <2>. QED
        BY <1>6, <1>7, <2>1, <2>2, <2>3
<1>8. \A e \in Directories, k \in Index :
          content'[e][k] = IF e = d /\ k = i THEN q ELSE content[e][k]
    BY <1>5, <1>6
<1>9. Directories' = Directories
    BY DEF Directories
<1>10. DirectoriesSound'
    <2>1. ASSUME NEW e \in Directories
          PROVE  content'[e][0] = Kernel
        BY <1>1, <1>2, <1>8 DEF Tables, DirectoriesSound
    <2>2. ASSUME NEW e \in Directories, NEW k \in UserEntries, content'[e][k] # None
          PROVE  /\ content'[e][k] \in Frames
                 /\ \A m \in Index : content'[content'[e][k]][m] \in Frames \cup {None}
        <3>1. CASE e = d /\ k = i
            BY <1>2, <1>6, <1>8, <3>1
        <3>2. CASE ~(e = d /\ k = i)
            <4>1. content'[e][k] = content[e][k]
                BY <1>2, <1>8, <3>2
            <4>. QED
                BY <1>7, <2>2, <4>1 DEF Tables, DirectoriesSound
        <3>. QED
            BY <3>1, <3>2
    <2>. QED
        BY <1>9, <2>1, <2>2 DEF DirectoriesSound
<1>11. ASSUME NEW e \in Directories, NEW w \in UserPages
       PROVE  Mapped(e, w)' = IF e = d /\ w = v THEN p ELSE Mapped(e, w)
    <2>1. PICK k \in UserEntries, m \in Index : k = pde_index(w) /\ m = pte_index(w)
        BY PageIndices
    <2>2. TableOf(e, w) = content[e][k] /\ TableOf(e, w)' = content'[e][k]
        BY <2>1 DEF TableOf
    <2>3. CASE e = d /\ k = i
        <3>1. TableOf(e, w) = None /\ TableOf(e, w)' = q
            BY <1>1, <1>2, <1>8, <2>2, <2>3 DEF TableOf
        <3>2. Mapped(e, w) = None
            BY <1>2, <3>1 DEF Mapped
        <3>3. Mapped(e, w)' = content'[q][m]
            BY <1>2, <2>1, <3>1 DEF Mapped
        <3>4. m = j <=> w = v
            <4>1. w = ENTRIES * k + m /\ v = ENTRIES * i + j
                BY <1>1, <2>1, PageIndices
            <4>. QED
                BY <1>1, <2>1, <2>3, <4>1
        <3>. QED
            BY <1>6, <2>1, <2>3, <3>2, <3>3, <3>4
    <2>4. CASE ~(e = d /\ k = i)
        <3>1. TableOf(e, w)' = TableOf(e, w) /\ ~(e = d /\ w = v)
            BY <1>1, <1>2, <1>8, <2>1, <2>2, <2>4
        <3>2. CASE TableOf(e, w) = None
            BY <1>2, <3>1, <3>2 DEF Mapped
        <3>3. CASE TableOf(e, w) # None
            <4>1. TableOf(e, w) \in Frames /\ content'[TableOf(e, w)] = content[TableOf(e, w)]
                BY <1>7, <2>2, <3>3
            <4>. QED
                BY <1>2, <3>1, <4>1 DEF Mapped
        <3>. QED
            BY <3>2, <3>3
    <2>. QED
        BY <2>3, <2>4
<1>12. Mapped(d, v) = None
    BY <1>2 DEF Mapped
<1>13. ASSUME NEW k, NEW x, NEW y, NEW f
       PROVE  Owns(k, x, y, f)' <=> \/ Owns(k, x, y, f)
                                    \/ k = "page" /\ x = d /\ y = v /\ f = p
                                    \/ k = "table" /\ x = d /\ y = i /\ f = q
    <2>1. f \in Frames => (Tabled(x, y, f)' <=> Tabled(x, y, f) \/ (x = d /\ y = i /\ f = q))
        <3>1. content[d][i] = None
            BY <1>1 DEF TableOf
        <3>. QED
            BY <1>2, <1>8, <1>9, <3>1 DEF Tabled
    <2>2. f \in Frames => (Paged(x, y, f)' <=> Paged(x, y, f) \/ (x = d /\ y = v /\ f = p))
        BY <1>2, <1>9, <1>11, <1>12 DEF Paged
    <2>3. CASE k = "table"
        BY <2>1, <2>3 DEF Owns
    <2>4. CASE k = "page"
        BY <2>2, <2>4 DEF Owns
    <2>5. CASE k \notin {"table", "page"}
        BY <2>5 DEF Owns
    <2>. QED
        BY <2>3, <2>4, <2>5
<1>14. Once' /\ Accounted'
    <2>1. \A k, x, y : ~Owns(k, x, y, p) /\ ~Owns(k, x, y, q)
        BY DEF Accounted
    <2>2. Once'
        BY <1>13, <2>1 DEF Once
    <2>3. \A f : f \in used' <=> f \in used \/ f = p \/ f = q
        OBVIOUS
    <2>4. Accounted'
        BY <1>13, <2>3 DEF Accounted
    <2>. QED
        BY <2>2, <2>4
<1>15. OnlyMaps(d, v, p)
    BY <1>11 DEF OnlyMaps
<1>16. \A e \in Directories \ {d} : content'[e] = content[e]
    BY <1>5, <1>6
<1>. QED
    BY <1>10, <1>14, <1>15, <1>16

LEMMA MapInTable ==
    ASSUME Sound, NEW d \in Directories, NEW v \in UserPages,
           NEW p, p \in Frames \ used, NEW q, q = TableOf(d, v), q # None,
           Mapped(d, v) = None, used' = used \cup {p},
           EntersPage(v, p, q),
           UNCHANGED <<dir, new, pc, kstack, child, lost>>
    PROVE  /\ DirectoriesSound' /\ Once' /\ Accounted' /\ OnlyMaps(d, v, p)
           /\ \A e \in Directories \ {d} : content'[e] = content[e]
<1>. USE DEF Sound
<1>1. PICK i \in UserEntries, j \in Index : i = pde_index(v) /\ j = pte_index(v)
    BY PageIndices
<1>2. /\ None \notin Frames /\ Kernel \notin Frames /\ Kernel # None
      /\ UserEntries \subseteq Index /\ 0 \in Index /\ 0 \notin UserEntries
    BY MemConstants DEF UserEntries, Index
<1>3. q = content[d][i] /\ q \in Frames /\ q \notin Directories
    <2>1. q = content[d][i]
        BY <1>1 DEF TableOf
    <2>. QED
        BY <2>1, TablesApart
<1>4. \A e \in Directories, k \in UserEntries : content[e][k] = q => e = d /\ k = i
    <2>1. content[d][i] # None
        BY <1>3
    <2>. QED
        BY <1>3, <2>1, TablesApart
<1>5. \A e \in Directories : e \in Frames /\ e # q
    BY <1>3, DirectoryIsOwned
<1>6. /\ \A k \in Index : content'[q][k] = IF k = j THEN p ELSE content[q][k]
      /\ \A f \in Frames \ {q} : content'[f] = content[f]
    BY <1>1 DEF EntersPage
<1>7. \A e \in Directories : content'[e] = content[e]
    BY <1>5, <1>6
<1>8. Directories' = Directories
    BY DEF Directories
<1>9. DirectoriesSound'
    <2>1. ASSUME NEW e \in Directories
          PROVE  content'[e][0] = Kernel
        BY <1>7 DEF Tables, DirectoriesSound
    <2>2. ASSUME NEW e \in Directories, NEW k \in UserEntries, content'[e][k] # None
          PROVE  /\ content'[e][k] \in Frames
                 /\ \A m \in Index : content'[content'[e][k]][m] \in Frames \cup {None}
        <3>1. /\ content[e][k] \in Frames /\ content'[e][k] = content[e][k]
              /\ \A m \in Index : content[content[e][k]][m] \in Frames \cup {None}
            BY <1>7, <2>2 DEF Tables, DirectoriesSound
        <3>. QED
            BY <1>6, <3>1
    <2>. QED
        BY <1>8, <2>1, <2>2 DEF DirectoriesSound
<1>10. ASSUME NEW e \in Directories, NEW w \in UserPages
       PROVE  Mapped(e, w)' = IF e = d /\ w = v THEN p ELSE Mapped(e, w)
    <2>1. PICK k \in UserEntries, m \in Index : k = pde_index(w) /\ m = pte_index(w)
        BY PageIndices
    <2>2. TableOf(e, w) = content[e][k] /\ TableOf(e, w)' = TableOf(e, w)
        BY <1>7, <2>1 DEF TableOf
    <2>3. CASE TableOf(e, w) = None
        BY <1>2, <2>2, <2>3 DEF Mapped
    <2>4. CASE TableOf(e, w) # None
        <3>1. TableOf(e, w) \in Frames
            BY <2>4, MappedIs
        <3>2. /\ Mapped(e, w) = content[TableOf(e, w)][m]
              /\ Mapped(e, w)' = content'[TableOf(e, w)][m]
            BY <1>2, <2>1, <2>2, <2>4, <3>1 DEF Mapped
        <3>3. CASE TableOf(e, w) = q
            <4>1. e = d /\ k = i
                BY <1>4, <2>2, <3>3
            <4>2. m = j <=> w = v
                <5>1. w = ENTRIES * k + m /\ v = ENTRIES * i + j
                    BY <1>1, <2>1, PageIndices
                <5>. QED
                    BY <1>1, <2>1, <4>1, <5>1
            <4>. QED
                BY <1>6, <2>1, <3>2, <3>3, <4>1, <4>2
        <3>4. CASE TableOf(e, w) # q
            <4>1. ~(e = d /\ w = v)
                BY <3>4
            <4>. QED
                BY <1>6, <3>1, <3>2, <3>4, <4>1
        <3>. QED
            BY <3>3, <3>4
    <2>. QED
        BY <2>3, <2>4
<1>11. ASSUME NEW k, NEW x, NEW y, NEW f
       PROVE  Owns(k, x, y, f)' <=> Owns(k, x, y, f) \/ (k = "page" /\ x = d /\ y = v /\ f = p)
    <2>1. Tabled(x, y, f)' <=> Tabled(x, y, f)
        BY <1>7, <1>8 DEF Tabled
    <2>2. f \in Frames => (Paged(x, y, f)' <=> Paged(x, y, f) \/ (x = d /\ y = v /\ f = p))
        BY <1>2, <1>8, <1>10 DEF Paged
    <2>. QED
        BY <2>1, <2>2 DEF Owns
<1>12. Once' /\ Accounted'
    <2>1. p \notin used
        OBVIOUS
    <2>. QED
        BY <1>11, <2>1, ClaimGained
<1>13. OnlyMaps(d, v, p)
    BY <1>10 DEF OnlyMaps
<1>. QED
    BY <1>7, <1>9, <1>12, <1>13

LEMMA MapNextExact ==
    ASSUME Sound, NEW t \in Tasks, Todo(t), todo[t] # <<>>, MapNext(t),
           UNCHANGED <<dir, new, pc, kstack, child, lost>>
    PROVE  /\ Head(todo[t]) \in UserPages /\ new[t] \in Directories
           /\ Exact' /\ used' \subseteq Frames
           /\ content' \in [Frames -> [Index -> Frames \cup {None, Kernel}]]
           /\ \E p \in Frames : OnlyMaps(new[t], Head(todo[t]), p)
<1>. USE DEF Sound
<1>1. PICK s \in Seq(UserPages) : s = todo[t]
    BY DEF MemTypes
<1>2. PICK v \in UserPages : v = Head(s) /\ v = s[1] /\ 1 \in 1 .. Len(s)
    BY <1>1
<1>3. PICK d : d = new[t]
    OBVIOUS
<1>4. pc[t] \in Builds \cup {"sbrk"} /\ d # None /\ d \in Directories
    BY <1>3 DEF Calls, Call, Point, Forking, Holding, Directories
<1>5. Mapped(d, v) = None
    BY <1>1, <1>2, <1>3 DEF Todo
<1>6. PICK p : p = Page
    OBVIOUS
<1>7. TableOf(d, v) \in Frames \cup {None} /\ TableOf(d, v) # Kernel
    BY <1>4, MappedIs, MemConstants
<1>8. ASSUME NEW x \in Frames, DirectoriesSound', Once', Accounted',
             \A e \in Directories \ {d} : content'[e] = content[e]
      PROVE  Exact'
    <2>1. ASSUME NEW u \in Tasks, pc[u] \in {"fork_copy", "fork_map"}
          PROVE  dir[child[u]] \in Directories \ {d}
        <3>1. child[u] \in Tasks /\ dir[child[u]] # None /\ child[u] \notin alive
            <4>1. pc[u] \in InForkAt /\ pc[u] # "fork_dir"
                BY <2>1 DEF InForkAt
            <4>. QED
                BY <4>1, ForkingTask
        <3>2. dir[child[u]] # d
            <4>1. CASE pc[t] = "sbrk"
                <5>1. d = dir[t] /\ t \in alive
                    BY <1>3, <4>1 DEF Calls, Call, Point, Forking, Holding
                <5>. QED
                    BY <3>1, <5>1, OneDirectory
            <4>2. CASE pc[t] # "sbrk"
                BY <1>3, <1>4, <3>1, <4>2, OneDirectory
            <4>. QED
                BY <4>1, <4>2
        <3>. QED
            BY <3>1, <3>2 DEF Directories
    <2>2. BlankUntilCopied'
        BY <1>8, <2>1 DEF Tables, BlankUntilCopied
    <2>. QED
        BY <1>8, <2>2 DEF Exact, Tables
<1>9. CASE TableOf(d, v) = None
    <2>1. PICK q : q = Lowest(Free \ {p})
        OBVIOUS
    <2>2. /\ Cardinality(Free) > 1 /\ used' = used \cup {p, q}
          /\ content' = [content EXCEPT
                             ![d][pde_index(v)] = q,
                             ![q] = [NoEntries EXCEPT ![pte_index(v)] = p]]
        BY <1>1, <1>2, <1>3, <1>6, <1>9, <2>1 DEF MapNext
    <2>3. Free # {}
        <3>1. Cardinality({}) = 0
            BY FS_EmptySet
        <3>2. Cardinality(Free) > 1
            BY <2>2
        <3>3. Free = {} => Cardinality(Free) = 0
            BY <3>1
        <3>. QED
            BY <3>2, <3>3
    <2>4. p \in Frames \ used /\ q \in Frames \ used /\ p # q
        BY <1>6, <2>1, <2>2, <2>3, PageIsFree, SecondPageIsFree
    <2>7. EntersTable(d, v, p, q)
        <3>1. d \in Frames /\ d # q
            BY <1>4, <2>4, DirectoryIsOwned DEF Accounted
        <3>2. PICK i \in Index, j \in Index : i = pde_index(v) /\ j = pte_index(v)
            BY PageIndices
        <3>3. content \in [Frames -> [Index -> Frames \cup {None, Kernel}]]
            BY DEF MemTypes
        <3>4. PICK D : D = [content EXCEPT ![d][i] = q, ![q] = [NoEntries EXCEPT ![j] = p]]
            OBVIOUS
        <3>5. p \in Frames /\ q \in Frames
            BY <2>4
        <3>7. /\ D \in [Frames -> [Index -> Frames \cup {None, Kernel}]]
              /\ \A k \in Index : D[q][k] = IF k = j THEN p ELSE None
              /\ \A k \in Index : D[d][k] = IF k = i THEN q ELSE content[d][k]
              /\ \A f \in Frames \ {d, q} : D[f] = content[f]
            <4>1. PICK a : a = [NoEntries EXCEPT ![j] = p]
                OBVIOUS
            <4>2. /\ a \in [Index -> Frames \cup {None, Kernel}]
                  /\ \A k \in Index : a[k] = IF k = j THEN p ELSE None
                BY <3>5, <4>1 DEF NoEntries
            <4>3. PICK b : b = [content[d] EXCEPT ![i] = q]
                OBVIOUS
            <4>4. /\ b \in [Index -> Frames \cup {None, Kernel}]
                  /\ \A k \in Index : b[k] = IF k = i THEN q ELSE content[d][k]
                BY <3>1, <3>3, <3>5, <4>3
            <4>5. D = [[content EXCEPT ![d] = b] EXCEPT ![q] = a]
                BY <3>4, <4>1, <4>3
            <4>. QED
                BY <3>1, <3>3, <3>5, <4>2, <4>4, <4>5
        <3>6. content' = D
            BY <2>2, <3>2, <3>4
        <3>. QED
            BY <3>2, <3>6, <3>7 DEF EntersTable
    <2>5. /\ DirectoriesSound' /\ Once' /\ Accounted' /\ OnlyMaps(d, v, p)
          /\ \A e \in Directories \ {d} : content'[e] = content[e]
        BY <1>4, <1>9, <2>2, <2>4, <2>7, MapWithTable
    <2>6. used' \subseteq Frames
        BY <2>2, <2>4 DEF MemTypes
    <2>. QED
        BY <1>1, <1>2, <1>3, <1>4, <1>8, <2>4, <2>5, <2>6, <2>7 DEF EntersTable
<1>10. CASE TableOf(d, v) # None
    <2>1. PICK q : q = TableOf(d, v)
        OBVIOUS
    <2>2. /\ Free # {} /\ used' = used \cup {p}
          /\ content' = [content EXCEPT ![q][pte_index(v)] = p]
        BY <1>1, <1>2, <1>3, <1>6, <1>7, <1>10, <2>1 DEF MapNext
    <2>3. p \in Frames \ used
        BY <1>6, <2>2, PageIsFree
    <2>6. EntersPage(v, p, q)
        <3>1. q \in Frames
            BY <1>7, <1>10, <2>1
        <3>. QED
            BY <2>2, <2>3, <3>1, PageIndices, ContentInTable DEF MemTypes, EntersPage
    <2>4. /\ DirectoriesSound' /\ Once' /\ Accounted' /\ OnlyMaps(d, v, p)
          /\ \A e \in Directories \ {d} : content'[e] = content[e]
        BY <1>4, <1>5, <1>10, <2>1, <2>2, <2>3, <2>6, MapInTable
    <2>5. used' \subseteq Frames
        BY <2>2, <2>3 DEF MemTypes
    <2>. QED
        BY <1>1, <1>2, <1>3, <1>4, <1>8, <2>3, <2>4, <2>5, <2>6 DEF EntersPage
<1>. QED
    BY <1>9, <1>10

-----------------------------------------------------------------------------
(* Where the tasks are in their calls. *)

LEMMA CallsKept ==
    ASSUME Sound, MemNext
    PROVE  Calls'
<1>1. PICK t \in Tasks :
          \/ sys_fork(t) \/ sys_execve(t) \/ sys_sbrk(t) \/ sys_exit(t)
          \/ \E c \in Slots : sys_wait(t, c)
    BY DEF MemNext
<1>2. MemTypes /\ Calls /\ \A u \in Tasks : Point(u) /\ Forking(u) /\ Holding(u)
    BY DEF Sound, Calls, Call
<1>3. None \notin Tasks /\ \A u \in Tasks : child[u] # u
    <2>1. \A u \in Tasks : child[u] # None => child[u] \notin alive /\ u \in alive
        BY <1>2, MemConstants DEF Point, Forking, MemTypes, InForkAt
    <2>. QED
        BY <2>1, MemConstants
<1>4. ASSUME NEW c \in Slots, fork_stack(t, c)
       PROVE  Calls'
    <2>1. /\ t \in alive /\ t \notin dead /\ pc[t] = "user" /\ c \notin alive
          /\ (\A w \in Tasks : child[w] # c) /\ c # None /\ Page # None
          /\ UNCHANGED <<alive, dead, dir, new, todo, loaded>>
        BY <1>2, <1>4, MemConstants, PageIsFree
           DEF fork_stack, At, Goes, workVars, MemTypes, InFork
    <2>2. ASSUME NEW u \in Tasks
          PROVE  /\ pc'[u] = IF u = t THEN "fork_dir" ELSE pc[u]
                 /\ child'[u] = IF u = t THEN c ELSE child[u]
                 /\ kstack'[u] = IF u = c THEN Page ELSE kstack[u]
                 /\ heapEnd'[u] = IF u = c THEN 0 ELSE heapEnd[u]
        BY <1>2, <1>4 DEF fork_stack, At, Goes, workVars, MemTypes
    <2>3. child[t] = None /\ c \in Tasks
        BY <1>2, <2>1, MemConstants DEF Point, InForkAt
    <2>4. ASSUME NEW u \in Tasks PROVE Point(u)'
        BY <1>2, <1>3, <2>1, <2>2, <2>3 DEF Point, Holding, InForkAt, Builds
    <2>5. ASSUME NEW u \in Tasks PROVE Forking(u)'
        <3>1. child[u] # None => child[u] \in Tasks
            BY <1>2 DEF MemTypes, Slots
        <3>. QED
            BY <1>2, <1>3, <2>1, <2>2, <2>3, <3>1 DEF Point, Forking, Holding, InForkAt
    <2>6. ASSUME NEW u \in Tasks PROVE Holding(u)'
        BY <1>2, <1>3, <2>1, <2>2, <2>3 DEF Point, Forking, Holding, InForkAt, Builds
    <2>7. ASSUME NEW u \in Tasks, NEW w \in Tasks, child'[u] # None, child'[u] = child'[w]
          PROVE  u = w
        BY <1>2, <2>1, <2>2, <2>3, <2>7 DEF Calls
    <2>. QED
        BY <2>4, <2>5, <2>6, <2>7 DEF Calls, Call
<1>5. ASSUME fork_dir(t)
       PROVE  Calls'
    <2>1. /\ t \in alive /\ t \notin dead /\ pc[t] = "fork_dir" /\ Page # None
          /\ UNCHANGED <<alive, dead, kstack, heapEnd, new, todo, loaded, child>>
        BY <1>2, <1>5, MemConstants, PageIsFree
           DEF fork_dir, At, Goes, workVars, MemTypes
    <2>2. ASSUME NEW u \in Tasks
          PROVE  /\ pc'[u] = IF u = t THEN "fork_copy" ELSE pc[u]
                 /\ dir'[u] = IF u = child[t] THEN Page ELSE dir[u]
        BY <1>2, <1>5 DEF fork_dir, At, Goes, workVars, MemTypes
    <2>3. /\ child[t] \in Tasks /\ child[t] # None /\ child[t] \notin alive
          /\ \A u \in Tasks : child[u] = child[t] => u = t
        BY <1>2, <2>1, ForkingTask DEF InForkAt
    <2>4. ASSUME NEW u \in Tasks PROVE Point(u)'
        BY <1>2, <1>3, <2>1, <2>2, <2>3 DEF Point, Holding, InForkAt, Builds
    <2>5. ASSUME NEW u \in Tasks PROVE Forking(u)'
        <3>1. child[u] # None => child[u] \in Tasks
            BY <1>2 DEF MemTypes, Slots
        <3>. QED
            BY <1>2, <1>3, <2>1, <2>2, <2>3, <3>1 DEF Point, Forking, Holding, InForkAt
    <2>6. ASSUME NEW u \in Tasks PROVE Holding(u)'
        BY <1>2, <1>3, <2>1, <2>2, <2>3 DEF Point, Forking, Holding, InForkAt, Builds
    <2>7. ASSUME NEW u \in Tasks, NEW w \in Tasks, child'[u] # None, child'[u] = child'[w]
          PROVE  u = w
        BY <1>2, <2>1, <2>2, <2>3, <2>7 DEF Calls
    <2>. QED
        BY <2>4, <2>5, <2>6, <2>7 DEF Calls, Call
<1>6. ASSUME fork_copy(t)
       PROVE  Calls'
    <2>1. /\ t \in alive /\ t \notin dead /\ pc[t] = "fork_copy" /\ Page # None
          /\ UNCHANGED <<alive, dead, dir, kstack, heapEnd, loaded, child>>
        BY <1>2, <1>6, MemConstants, PageIsFree
           DEF fork_copy, At, Goes, workVars, MemTypes
    <2>2. ASSUME NEW u \in Tasks
          PROVE  /\ pc'[u] = IF u = t THEN "fork_map" ELSE pc[u]
                 /\ new'[u] = IF u = t THEN Page ELSE new[u]
                 /\ todo'[u] = IF u = t THEN Sorted(Present(dir[t])) ELSE todo[u]
        BY <1>2, <1>6 DEF fork_copy, At, Goes, workVars, MemTypes
    <2>3. /\ child[t] \in Tasks /\ child[t] # None /\ child[t] \notin alive
          /\ \A u \in Tasks : child[u] = child[t] => u = t
        BY <1>2, <2>1, ForkingTask DEF InForkAt
    <2>4. ASSUME NEW u \in Tasks PROVE Point(u)'
        BY <1>2, <1>3, <2>1, <2>2, <2>3 DEF Point, Holding, InForkAt, Builds
    <2>5. ASSUME NEW u \in Tasks PROVE Forking(u)'
        <3>1. child[u] # None => child[u] \in Tasks
            BY <1>2 DEF MemTypes, Slots
        <3>. QED
            BY <1>2, <1>3, <2>1, <2>2, <2>3, <3>1 DEF Point, Forking, Holding, InForkAt
    <2>6. ASSUME NEW u \in Tasks PROVE Holding(u)'
        BY <1>2, <1>3, <2>1, <2>2, <2>3 DEF Point, Forking, Holding, InForkAt, Builds
    <2>7. ASSUME NEW u \in Tasks, NEW w \in Tasks, child'[u] # None, child'[u] = child'[w]
          PROVE  u = w
        BY <1>2, <2>1, <2>2, <2>3, <2>7 DEF Calls
    <2>. QED
        BY <2>4, <2>5, <2>6, <2>7 DEF Calls, Call
<1>7. ASSUME fork_end(t)
       PROVE  Calls'
    <2>1. /\ t \in alive /\ t \notin dead /\ pc[t] = "fork_map" /\ todo[t] = <<>> /\ alive' = alive \cup {child[t]}
          /\ UNCHANGED <<dead, kstack, heapEnd, todo, loaded>>
        BY <1>2, <1>7, MemConstants DEF fork_end, At, Goes, workVars, MemTypes
    <2>2. ASSUME NEW u \in Tasks
          PROVE  /\ pc'[u] = IF u = t THEN "user" ELSE pc[u]
                 /\ new'[u] = IF u = t THEN None ELSE new[u]
                 /\ child'[u] = IF u = t THEN None ELSE child[u]
                 /\ dir'[u] = IF u = child[t] THEN new[t] ELSE dir[u]
        BY <1>2, <1>7 DEF fork_end, At, Goes, workVars, MemTypes
    <2>3. /\ child[t] \in Tasks /\ child[t] # None /\ child[t] \notin alive
          /\ \A u \in Tasks : child[u] = child[t] => u = t
        BY <1>2, <2>1, ForkingTask DEF InForkAt
    <2>4. ASSUME NEW u \in Tasks PROVE Point(u)'
        BY <1>2, <1>3, <2>1, <2>2, <2>3 DEF Point, Holding, InForkAt, Builds
    <2>5. ASSUME NEW u \in Tasks PROVE Forking(u)'
        <3>1. child[u] # None => child[u] \in Tasks
            BY <1>2 DEF MemTypes, Slots
        <3>. QED
            BY <1>2, <1>3, <2>1, <2>2, <2>3, <3>1 DEF Point, Forking, Holding, InForkAt
    <2>6. ASSUME NEW u \in Tasks PROVE Holding(u)'
        BY <1>2, <1>3, <2>1, <2>2, <2>3 DEF Point, Forking, Holding, InForkAt, Builds
    <2>7. ASSUME NEW u \in Tasks, NEW w \in Tasks, child'[u] # None, child'[u] = child'[w]
          PROVE  u = w
        BY <1>2, <2>1, <2>2, <2>3, <2>7 DEF Calls
    <2>. QED
        BY <2>4, <2>5, <2>6, <2>7 DEF Calls, Call
<1>8. ASSUME NEW program \in Programs, exec_start(t, program)
       PROVE  Calls'
    <2>1. /\ t \in alive /\ t \notin dead /\ pc[t] = "user" /\ Page # None
          /\ UNCHANGED <<alive, dead, dir, kstack, heapEnd, child>>
        BY <1>2, <1>8, MemConstants, PageIsFree
           DEF exec_start, At, Goes, workVars, MemTypes
    <2>2. ASSUME NEW u \in Tasks
          PROVE  /\ pc'[u] = IF u = t THEN "load" ELSE pc[u]
                 /\ new'[u] = IF u = t THEN Page ELSE new[u]
                 /\ loaded'[u] = IF u = t THEN 0 ELSE loaded[u]
                 /\ todo'[u] = IF u = t THEN PagesFor(Head(program).at, Head(program).size) ELSE todo[u]
        BY <1>2, <1>8 DEF exec_start, At, Goes, workVars, MemTypes
    <2>4. ASSUME NEW u \in Tasks PROVE Point(u)'
        BY <1>2, <1>3, <2>1, <2>2 DEF Point, Holding, InForkAt, Builds
    <2>5. ASSUME NEW u \in Tasks PROVE Forking(u)'
        <3>1. child[u] # None => child[u] \in Tasks
            BY <1>2 DEF MemTypes, Slots
        <3>. QED
            BY <1>2, <1>3, <2>1, <2>2, <3>1 DEF Point, Forking, Holding, InForkAt
    <2>6. ASSUME NEW u \in Tasks PROVE Holding(u)'
        BY <1>2, <1>3, <2>1, <2>2 DEF Point, Forking, Holding, InForkAt, Builds
    <2>7. ASSUME NEW u \in Tasks, NEW w \in Tasks, child'[u] # None, child'[u] = child'[w]
          PROVE  u = w
        BY <1>2, <2>1, <2>2, <2>7 DEF Calls
    <2>. QED
        BY <2>4, <2>5, <2>6, <2>7 DEF Calls, Call
<1>9. ASSUME exec_loaded(t)
       PROVE  Calls'
    <2>1. /\ t \in alive /\ t \notin dead /\ pc[t] = "load" /\ pc'[t] \in {"load", "stack"}
          /\ UNCHANGED <<alive, dead, dir, kstack, new, child>>
        BY <1>2, <1>9, MemConstants DEF exec_loaded, At, Goes, workVars, MemTypes
    <2>2. ASSUME NEW u \in Tasks
          PROVE  /\ pc'[u] = IF u = t THEN pc'[t] ELSE pc[u]
                 /\ heapEnd'[u] = IF u = t THEN heapEnd'[t] ELSE heapEnd[u]
                 /\ loaded'[u] = IF u = t THEN loaded'[t] ELSE loaded[u]
                 /\ todo'[u] = IF u = t THEN todo'[t] ELSE todo[u]
        BY <1>2, <1>9 DEF exec_loaded, At, Goes, workVars, MemTypes
    <2>4. ASSUME NEW u \in Tasks PROVE Point(u)'
        BY <1>2, <1>3, <2>1, <2>2 DEF Point, Holding, InForkAt, Builds
    <2>5. ASSUME NEW u \in Tasks PROVE Forking(u)'
        <3>1. child[u] # None => child[u] \in Tasks
            BY <1>2 DEF MemTypes, Slots
        <3>. QED
            BY <1>2, <1>3, <2>1, <2>2, <3>1 DEF Point, Forking, Holding, InForkAt
    <2>6. ASSUME NEW u \in Tasks PROVE Holding(u)'
        BY <1>2, <1>3, <2>1, <2>2 DEF Point, Forking, Holding, InForkAt, Builds
    <2>7. ASSUME NEW u \in Tasks, NEW w \in Tasks, child'[u] # None, child'[u] = child'[w]
          PROVE  u = w
        BY <1>2, <2>1, <2>2, <2>7 DEF Calls
    <2>. QED
        BY <2>4, <2>5, <2>6, <2>7 DEF Calls, Call
<1>10. ASSUME exec_fails(t)
       PROVE  Calls'
    <2>1. /\ t \in alive /\ t \notin dead /\ pc[t] \in {"load", "stack"}
          /\ UNCHANGED <<alive, dead, dir, kstack, heapEnd, child>>
        BY <1>2, <1>10, MemConstants DEF exec_fails, At, Goes, workVars, MemTypes
    <2>2. ASSUME NEW u \in Tasks
          PROVE  /\ pc'[u] = IF u = t THEN "user" ELSE pc[u]
                 /\ new'[u] = IF u = t THEN None ELSE new[u]
                 /\ loaded'[u] = IF u = t THEN 0 ELSE loaded[u]
                 /\ todo'[u] = IF u = t THEN <<>> ELSE todo[u]
        BY <1>2, <1>10 DEF exec_fails, At, Goes, workVars, MemTypes
    <2>4. ASSUME NEW u \in Tasks PROVE Point(u)'
        BY <1>2, <1>3, <2>1, <2>2 DEF Point, Holding, InForkAt, Builds
    <2>5. ASSUME NEW u \in Tasks PROVE Forking(u)'
        <3>1. child[u] # None => child[u] \in Tasks
            BY <1>2 DEF MemTypes, Slots
        <3>. QED
            BY <1>2, <1>3, <2>1, <2>2, <3>1 DEF Point, Forking, Holding, InForkAt
    <2>6. ASSUME NEW u \in Tasks PROVE Holding(u)'
        BY <1>2, <1>3, <2>1, <2>2 DEF Point, Forking, Holding, InForkAt, Builds
    <2>7. ASSUME NEW u \in Tasks, NEW w \in Tasks, child'[u] # None, child'[u] = child'[w]
          PROVE  u = w
        BY <1>2, <2>1, <2>2, <2>7 DEF Calls
    <2>. QED
        BY <2>4, <2>5, <2>6, <2>7 DEF Calls, Call
<1>11. ASSUME exec_done(t)
       PROVE  Calls'
    <2>1. /\ t \in alive /\ t \notin dead /\ pc[t] = "stack" /\ todo[t] = <<>>
          /\ UNCHANGED <<alive, dead, kstack, heapEnd, todo, child>>
        BY <1>2, <1>11, MemConstants DEF exec_done, At, Goes, workVars, MemTypes
    <2>2. ASSUME NEW u \in Tasks
          PROVE  /\ pc'[u] = IF u = t THEN "user" ELSE pc[u]
                 /\ new'[u] = IF u = t THEN None ELSE new[u]
                 /\ loaded'[u] = IF u = t THEN 0 ELSE loaded[u]
                 /\ dir'[u] = IF u = t THEN new[t] ELSE dir[u]
        BY <1>2, <1>11 DEF exec_done, At, Goes, workVars, MemTypes
    <2>4. ASSUME NEW u \in Tasks PROVE Point(u)'
        BY <1>2, <1>3, <2>1, <2>2 DEF Point, Holding, InForkAt, Builds
    <2>5. ASSUME NEW u \in Tasks PROVE Forking(u)'
        <3>1. child[u] # None => child[u] \in Tasks
            BY <1>2 DEF MemTypes, Slots
        <3>. QED
            BY <1>2, <1>3, <2>1, <2>2, <3>1 DEF Point, Forking, Holding, InForkAt
    <2>6. ASSUME NEW u \in Tasks PROVE Holding(u)'
        BY <1>2, <1>3, <2>1, <2>2 DEF Point, Forking, Holding, InForkAt, Builds
    <2>7. ASSUME NEW u \in Tasks, NEW w \in Tasks, child'[u] # None, child'[u] = child'[w]
          PROVE  u = w
        BY <1>2, <2>1, <2>2, <2>7 DEF Calls
    <2>. QED
        BY <2>4, <2>5, <2>6, <2>7 DEF Calls, Call
<1>12. ASSUME NEW incr \in 1 .. MaxIncr, sbrk_in_page(t, incr)
       PROVE  Calls'
    <2>1. /\ t \in alive /\ t \notin dead
          /\ UNCHANGED <<alive, dead, dir, kstack, pc, new, todo, loaded, child>>
        BY <1>2, <1>12, MemConstants DEF sbrk_in_page, At, Goes, workVars, MemTypes
    <2>2. ASSUME NEW u \in Tasks
          PROVE  /\ heapEnd'[u] = IF u = t THEN heapEnd'[t] ELSE heapEnd[u]
        BY <1>2, <1>12 DEF sbrk_in_page, At, Goes, workVars, MemTypes
    <2>4. ASSUME NEW u \in Tasks PROVE Point(u)'
        BY <1>2, <1>3, <2>1, <2>2 DEF Point, Holding, InForkAt, Builds
    <2>5. ASSUME NEW u \in Tasks PROVE Forking(u)'
        <3>1. child[u] # None => child[u] \in Tasks
            BY <1>2 DEF MemTypes, Slots
        <3>. QED
            BY <1>2, <1>3, <2>1, <2>2, <3>1 DEF Point, Forking, Holding, InForkAt
    <2>6. ASSUME NEW u \in Tasks PROVE Holding(u)'
        BY <1>2, <1>3, <2>1, <2>2 DEF Point, Forking, Holding, InForkAt, Builds
    <2>7. ASSUME NEW u \in Tasks, NEW w \in Tasks, child'[u] # None, child'[u] = child'[w]
          PROVE  u = w
        BY <1>2, <2>1, <2>2, <2>7 DEF Calls
    <2>. QED
        BY <2>4, <2>5, <2>6, <2>7 DEF Calls, Call
<1>13. ASSUME NEW incr \in 1 .. MaxIncr, sbrk_start(t, incr)
       PROVE  Calls'
    <2>1. /\ t \in alive /\ t \notin dead /\ pc[t] = "user"
          /\ UNCHANGED <<alive, dead, dir, kstack, heapEnd, loaded, child>>
        BY <1>2, <1>13, MemConstants DEF sbrk_start, At, Goes, workVars, MemTypes
    <2>2. ASSUME NEW u \in Tasks
          PROVE  /\ pc'[u] = IF u = t THEN "sbrk" ELSE pc[u]
                 /\ new'[u] = IF u = t THEN dir[t] ELSE new[u]
                 /\ todo'[u] = IF u = t THEN todo'[t] ELSE todo[u]
        BY <1>2, <1>13 DEF sbrk_start, At, Goes, workVars, MemTypes
    <2>4. ASSUME NEW u \in Tasks PROVE Point(u)'
        BY <1>2, <1>3, <2>1, <2>2 DEF Point, Holding, InForkAt, Builds
    <2>5. ASSUME NEW u \in Tasks PROVE Forking(u)'
        <3>1. child[u] # None => child[u] \in Tasks
            BY <1>2 DEF MemTypes, Slots
        <3>. QED
            BY <1>2, <1>3, <2>1, <2>2, <3>1 DEF Point, Forking, Holding, InForkAt
    <2>6. ASSUME NEW u \in Tasks PROVE Holding(u)'
        BY <1>2, <1>3, <2>1, <2>2 DEF Point, Forking, Holding, InForkAt, Builds
    <2>7. ASSUME NEW u \in Tasks, NEW w \in Tasks, child'[u] # None, child'[u] = child'[w]
          PROVE  u = w
        BY <1>2, <2>1, <2>2, <2>7 DEF Calls
    <2>. QED
        BY <2>4, <2>5, <2>6, <2>7 DEF Calls, Call
<1>14. ASSUME sbrk_end(t)
       PROVE  Calls'
    <2>1. /\ t \in alive /\ t \notin dead /\ pc[t] = "sbrk" /\ todo[t] = <<>>
          /\ UNCHANGED <<alive, dead, dir, kstack, todo, loaded, child>>
        BY <1>2, <1>14, MemConstants DEF sbrk_end, At, Goes, workVars, MemTypes
    <2>2. ASSUME NEW u \in Tasks
          PROVE  /\ pc'[u] = IF u = t THEN "user" ELSE pc[u]
                 /\ new'[u] = IF u = t THEN None ELSE new[u]
                 /\ heapEnd'[u] = IF u = t THEN heapEnd'[t] ELSE heapEnd[u]
        BY <1>2, <1>14 DEF sbrk_end, At, Goes, workVars, MemTypes
    <2>4. ASSUME NEW u \in Tasks PROVE Point(u)'
        BY <1>2, <1>3, <2>1, <2>2 DEF Point, Holding, InForkAt, Builds
    <2>5. ASSUME NEW u \in Tasks PROVE Forking(u)'
        <3>1. child[u] # None => child[u] \in Tasks
            BY <1>2 DEF MemTypes, Slots
        <3>. QED
            BY <1>2, <1>3, <2>1, <2>2, <3>1 DEF Point, Forking, Holding, InForkAt
    <2>6. ASSUME NEW u \in Tasks PROVE Holding(u)'
        BY <1>2, <1>3, <2>1, <2>2 DEF Point, Forking, Holding, InForkAt, Builds
    <2>7. ASSUME NEW u \in Tasks, NEW w \in Tasks, child'[u] # None, child'[u] = child'[w]
          PROVE  u = w
        BY <1>2, <2>1, <2>2, <2>7 DEF Calls
    <2>. QED
        BY <2>4, <2>5, <2>6, <2>7 DEF Calls, Call
<1>15. ASSUME sys_exit(t)
       PROVE  Calls'
    <2>1. /\ t \in alive /\ t \notin dead /\ pc[t] = "user" /\ dead' = dead \cup {t}
          /\ UNCHANGED <<alive, dir, kstack, heapEnd, pc, new, todo, loaded, child>>
        BY <1>2, <1>15, MemConstants DEF sys_exit, At, Goes, workVars, MemTypes
    <2>4. ASSUME NEW u \in Tasks PROVE Point(u)'
        BY <1>2, <1>3, <2>1 DEF Point, Holding, InForkAt, Builds
    <2>5. ASSUME NEW u \in Tasks PROVE Forking(u)'
        <3>1. child[u] # None => child[u] \in Tasks
            BY <1>2 DEF MemTypes, Slots
        <3>. QED
            BY <1>2, <1>3, <2>1, <3>1 DEF Point, Forking, Holding, InForkAt
    <2>6. ASSUME NEW u \in Tasks PROVE Holding(u)'
        BY <1>2, <1>3, <2>1 DEF Point, Forking, Holding, InForkAt, Builds
    <2>7. ASSUME NEW u \in Tasks, NEW w \in Tasks, child'[u] # None, child'[u] = child'[w]
          PROVE  u = w
        BY <1>2, <2>1, <2>7 DEF Calls
    <2>. QED
        BY <2>4, <2>5, <2>6, <2>7 DEF Calls, Call
<1>16. ASSUME NEW c \in Slots, sys_wait(t, c)
       PROVE  Calls'
    <2>1. /\ c \in dead /\ c \in alive /\ alive' = alive \ {c} /\ dead' = dead \ {c}
          /\ UNCHANGED <<pc, new, todo, loaded, child>>
        BY <1>2, <1>16, MemConstants DEF sys_wait, At, Goes, workVars, MemTypes
    <2>2. ASSUME NEW u \in Tasks
          PROVE  /\ dir'[u] = IF u = c THEN None ELSE dir[u]
                 /\ kstack'[u] = IF u = c THEN None ELSE kstack[u]
                 /\ heapEnd'[u] = IF u = c THEN 0 ELSE heapEnd[u]
        BY <1>2, <1>16 DEF sys_wait, At, Goes, workVars, MemTypes
    <2>4. ASSUME NEW u \in Tasks PROVE Point(u)'
        BY <1>2, <1>3, <2>1, <2>2 DEF Point, Holding, InForkAt, Builds
    <2>5. ASSUME NEW u \in Tasks PROVE Forking(u)'
        <3>1. child[u] # None => child[u] \in Tasks
            BY <1>2 DEF MemTypes, Slots
        <3>. QED
            BY <1>2, <1>3, <2>1, <2>2, <3>1 DEF Point, Forking, Holding, InForkAt
    <2>6. ASSUME NEW u \in Tasks PROVE Holding(u)'
        BY <1>2, <1>3, <2>1, <2>2 DEF Point, Forking, Holding, InForkAt, Builds
    <2>7. ASSUME NEW u \in Tasks, NEW w \in Tasks, child'[u] # None, child'[u] = child'[w]
          PROVE  u = w
        BY <1>2, <2>1, <2>2, <2>7 DEF Calls
    <2>. QED
        BY <2>4, <2>5, <2>6, <2>7 DEF Calls, Call
<1>17. ASSUME NEW q \in {"fork_map", "load", "stack", "sbrk"}, MapPage(t, q)
       PROVE  Calls'
    <2>1. /\ t \in alive /\ t \notin dead /\ pc[t] \in {"fork_map", "load", "stack", "sbrk"}
          /\ UNCHANGED <<alive, dead, dir, kstack, heapEnd, pc, new, loaded, child>>
        BY <1>2, <1>17, MemConstants DEF MapPage, At, Goes, workVars, MemTypes, MapNext
    <2>2. ASSUME NEW u \in Tasks
          PROVE  /\ todo'[u] = IF u = t THEN todo'[t] ELSE todo[u]
        BY <1>2, <1>17 DEF MapPage, At, Goes, workVars, MemTypes, MapNext
    <2>4. ASSUME NEW u \in Tasks PROVE Point(u)'
        BY <1>2, <1>3, <2>1, <2>2 DEF Point, Holding, InForkAt, Builds
    <2>5. ASSUME NEW u \in Tasks PROVE Forking(u)'
        <3>1. child[u] # None => child[u] \in Tasks
            BY <1>2 DEF MemTypes, Slots
        <3>. QED
            BY <1>2, <1>3, <2>1, <2>2, <3>1 DEF Point, Forking, Holding, InForkAt
    <2>6. ASSUME NEW u \in Tasks PROVE Holding(u)'
        BY <1>2, <1>3, <2>1, <2>2 DEF Point, Forking, Holding, InForkAt, Builds
    <2>7. ASSUME NEW u \in Tasks, NEW w \in Tasks, child'[u] # None, child'[u] = child'[w]
          PROVE  u = w
        BY <1>2, <2>1, <2>2, <2>7 DEF Calls
    <2>. QED
        BY <2>4, <2>5, <2>6, <2>7 DEF Calls, Call
<1>. QED
    BY <1>1, <1>4, <1>5, <1>6, <1>7, <1>8, <1>9, <1>10, <1>11, <1>12, <1>13, <1>14, <1>15, <1>16, <1>17
       DEF sys_fork, sys_execve, sys_sbrk

LEMMA ExactKept ==
    ASSUME Sound, \A t \in Tasks : Todo(t), MemNext
    PROVE  Exact'
<1>1. PICK t \in Tasks :
          \/ sys_fork(t) \/ sys_execve(t) \/ sys_sbrk(t) \/ sys_exit(t)
          \/ \E c \in Slots : sys_wait(t, c)
    BY DEF MemNext
<1>2. MemTypes /\ Calls /\ Point(t)
    BY DEF Sound, Calls, Call
<1>3. None \notin Frames
    BY MemConstants
<1>4. ASSUME exec_loaded(t)
      PROVE  Exact'
    <2>1. /\ UNCHANGED <<used, content, dir, kstack, lost, new, child>>
          /\ pc[t] = "load" /\ pc' = [pc EXCEPT ![t] = pc'[t]] /\ pc'[t] \in {"load", "stack"}
        BY <1>2, <1>4 DEF exec_loaded, At, Goes, MemTypes
    <2>2. \A x \in Tasks : pc'[x] = IF x = t THEN pc'[t] ELSE pc[x]
        BY <1>2, <2>1 DEF MemTypes
    <2>3. Directories' = Directories
        BY <2>1 DEF Directories
    <2>4. \A x \in Tasks, f \in Frames :
              (new'[x] = f /\ pc'[x] # "sbrk") <=> (new[x] = f /\ pc[x] # "sbrk")
        BY <2>1, <2>2
    <2>5. \A x \in Tasks : pc'[x] \in {"fork_copy", "fork_map"} =>
              pc[x] \in {"fork_copy", "fork_map"} /\ child'[x] = child[x]
        BY <2>1, <2>2
    <2>. QED
        BY <2>1, <2>3, <2>4, <2>5, NoFrameMoves
<1>5. ASSUME UNCHANGED <<used, content, dir, kstack, lost, new, child, pc>>
      PROVE  Exact'
    <2>1. Directories' = Directories
        BY <1>5 DEF Directories
    <2>. QED
        BY <1>5, <2>1, NoFrameMoves
<1>6. ASSUME NEW incr \in 1 .. MaxIncr, sbrk_start(t, incr)
      PROVE  Exact'
    <2>1. /\ UNCHANGED <<used, content, dir, kstack, lost, child>>
          /\ new[t] = None /\ pc[t] = "user"
        BY <1>2, <1>6 DEF sbrk_start, At, Point, Builds
    <2>2. \A x \in Tasks : /\ pc'[x] = IF x = t THEN "sbrk" ELSE pc[x]
                           /\ new'[x] = IF x = t THEN dir[t] ELSE new[x]
        BY <1>2, <1>6 DEF sbrk_start, Goes, MemTypes
    <2>3. Directories' = Directories
        BY <2>1, <2>2 DEF Directories
    <2>4. \A x \in Tasks, f \in Frames :
              (new'[x] = f /\ pc'[x] # "sbrk") <=> (new[x] = f /\ pc[x] # "sbrk")
        BY <1>3, <2>1, <2>2
    <2>5. \A x \in Tasks : pc'[x] \in {"fork_copy", "fork_map"} =>
              pc[x] \in {"fork_copy", "fork_map"} /\ child'[x] = child[x]
        BY <2>1, <2>2
    <2>. QED
        BY <2>1, <2>3, <2>4, <2>5, NoFrameMoves
<1>7. ASSUME sbrk_end(t)
      PROVE  Exact'
    <2>1. /\ UNCHANGED <<used, content, dir, kstack, lost, child>>
          /\ pc[t] = "sbrk" /\ new[t] = dir[t]
        BY <1>2, <1>7 DEF sbrk_end, At, Point
    <2>2. \A x \in Tasks : /\ pc'[x] = IF x = t THEN "user" ELSE pc[x]
                           /\ new'[x] = IF x = t THEN None ELSE new[x]
        BY <1>2, <1>7 DEF sbrk_end, Goes, MemTypes
    <2>3. Directories' = Directories
        BY <2>1, <2>2 DEF Directories
    <2>4. \A x \in Tasks, f \in Frames :
              (new'[x] = f /\ pc'[x] # "sbrk") <=> (new[x] = f /\ pc[x] # "sbrk")
        BY <1>3, <2>1, <2>2
    <2>5. \A x \in Tasks : pc'[x] \in {"fork_copy", "fork_map"} =>
              pc[x] \in {"fork_copy", "fork_map"} /\ child'[x] = child[x]
        BY <2>1, <2>2
    <2>. QED
        BY <2>1, <2>3, <2>4, <2>5, NoFrameMoves
<1>8. ASSUME NEW q, MapPage(t, q)
      PROVE  Exact'
    <2>1. /\ todo[t] # <<>> /\ MapNext(t)
          /\ UNCHANGED <<dir, new, pc, kstack, child, lost>>
        BY <1>8 DEF MapPage
    <2>. QED
        BY <2>1, MapNextExact
<1>9. ASSUME NEW incr \in 1 .. MaxIncr, sbrk_in_page(t, incr)
      PROVE  Exact'
    BY <1>5, <1>9 DEF sbrk_in_page, workVars
<1>10. ASSUME sys_exit(t)
       PROVE  Exact'
    BY <1>5, <1>10 DEF sys_exit, workVars
<1>. QED
    BY <1>1, <1>4, <1>6, <1>7, <1>8, <1>9, <1>10, ForkStackExact, ForkDirExact, ForkCopyExact,
       ForkEndExact, ExecStartExact, ExecFailsExact, ExecDoneExact, WaitExact
       DEF sys_fork, sys_execve, sys_sbrk

(* What is mapped changes by MapPage only. *)
LEMMA MappedKept ==
    ASSUME Sound, NEW t \in Tasks,
           \/ sys_fork(t) \/ sys_execve(t) \/ sys_sbrk(t) \/ sys_exit(t)
           \/ \E c \in Slots : sys_wait(t, c)
    PROVE  \/ \A d \in Directories, v \in UserPages : Mapped(d, v)' = Mapped(d, v)
           \/ \E q : MapPage(t, q)
<1>1. ASSUME content' = content
      PROVE  \A d \in Directories, v \in UserPages : Mapped(d, v)' = Mapped(d, v)
    BY <1>1 DEF Mapped, TableOf
<1>2. ASSUME Free # {}, content' = [content EXCEPT ![Page] = NewDirectory(Page)]
      PROVE  \A d \in Directories, v \in UserPages : Mapped(d, v)' = Mapped(d, v)
    <2>1. PICK p : p = Page
        OBVIOUS
    <2>2. p \in Frames \ used
        BY <1>2, <2>1, PageIsFree
    <2>. QED
        BY <1>2, <2>1, <2>2, FreshFrame
<1>3. ASSUME fork_dir(t) \/ fork_copy(t) \/ (\E program \in Programs : exec_start(t, program))
      PROVE  Free # {} /\ content' = [content EXCEPT ![Page] = NewDirectory(Page)]
    BY <1>3 DEF fork_dir, fork_copy, exec_start
<1>4. ASSUME \/ \E c \in Slots : fork_stack(t, c) \/ sys_wait(t, c)
             \/ fork_end(t) \/ exec_loaded(t) \/ exec_fails(t) \/ exec_done(t)
             \/ \E incr \in 1 .. MaxIncr : sbrk_in_page(t, incr) \/ sbrk_start(t, incr)
             \/ sbrk_end(t) \/ sys_exit(t)
      PROVE  content' = content
    BY <1>4 DEF fork_stack, sys_wait, fork_end, exec_loaded, exec_fails, exec_done,
                sbrk_in_page, sbrk_start, sbrk_end, sys_exit
<1>. QED
    BY <1>1, <1>2, <1>3, <1>4 DEF sys_fork, sys_execve, sys_sbrk

-----------------------------------------------------------------------------
(* What is mapped in the spaces. *)

LEMMA StackConstants ==
    /\ StackPage \in UserPages /\ StackPage \in Nat /\ ENTRIES <= StackPage
    /\ \A v \in ENTRIES .. StackPage : v \in UserPages
    /\ Fits(Stack) /\ SegPages(Stack) \subseteq UserPages
<1>1. Fits(Stack) /\ SegPages(Stack) \subseteq UserPages
    BY ProgramAssumption
<1>2. FirstPage(Stack) \in Nat /\ LastPage(Stack) \in Nat /\ FirstPage(Stack) <= LastPage(Stack)
    BY <1>1, PagesOfSegment
<1>3. FirstPage(Stack) \in SegPages(Stack)
    BY <1>2 DEF SegPages
<1>4. FirstPage(Stack) \in UserPages
    BY <1>1, <1>3
<1>5. PICK n \in Nat : n = ENTRIES * ENTRIES /\ ENTRIES \in Nat
    BY MemConstants
<1>6. UserPages = ENTRIES .. n - 1
    BY <1>5 DEF UserPages
<1>. QED
    BY <1>1, <1>2, <1>4, <1>5, <1>6 DEF StackPage

(* A list of pages that follow one another. *)
LEMMA ConsecutivePages ==
    ASSUME NEW s \in Seq(Nat), NEW a \in Nat, NEW b \in Nat, a <= b,
           Len(s) = b - a, \A i \in 1 .. Len(s) : s[i] = a + i - 1
    PROVE  /\ {s[i] : i \in 1 .. Len(s)} = a .. b - 1
           /\ \A i, j \in 1 .. Len(s) : s[i] = s[j] => i = j
           /\ a .. b - 1 \subseteq UserPages => s \in Seq(UserPages)
<1>1. PICK n \in Nat : n = b - a /\ n = Len(s)
    OBVIOUS
<1>2. \A v \in a .. b - 1 : v - a + 1 \in 1 .. n /\ s[v - a + 1] = v
    BY <1>1
<1>3. \A i \in 1 .. n : s[i] \in a .. b - 1
    BY <1>1
<1>4. {s[i] : i \in 1 .. n} = a .. b - 1
    BY <1>2, <1>3
<1>5. a .. b - 1 \subseteq UserPages => s \in Seq(UserPages)
    BY <1>1, <1>3
<1>6. \A i, j \in 1 .. n : s[i] = s[j] => i = j
    BY <1>1
<1>. QED
    BY <1>1, <1>4, <1>5, <1>6

\* Sequence p has the pages of segment s, each of them once.
ListsPages(p, s) ==
    /\ p \in Seq(UserPages)
    /\ {p[i] : i \in 1 .. Len(p)} = SegPages(s)
    /\ \A i, j \in 1 .. Len(p) : p[i] = p[j] => i = j

LEMMA SegmentList ==
    ASSUME NEW s, Fits(s), SegPages(s) \subseteq UserPages,
           NEW p, p = PagesFor(s.at, s.size)
    PROVE  ListsPages(p, s)
<1>1. PICK a \in Nat, b \in Nat : a = FirstPage(s) /\ b = LastPage(s) + 1 /\ a <= b
    BY PagesOfSegment
<1>2. p \in Seq(Nat) /\ Len(p) = b - a /\ \A i \in 1 .. Len(p) : p[i] = a + i - 1
    BY <1>1, PagesOfSegment
<1>3. SegPages(s) = a .. b - 1
    BY <1>1, PagesOfSegment DEF SegPages
<1>. QED
    BY <1>1, <1>2, <1>3, ConsecutivePages DEF ListsPages

LEMMA ProgramSegments ==
    ASSUME NEW p \in Programs
    PROVE  /\ p \in Seq(Segment) /\ Len(p) \in Nat \ {0}
           /\ \A i \in 1 .. Len(p) :
                /\ p[i] \in Segment /\ Fits(p[i]) /\ SegPages(p[i]) \subseteq UserPages
                /\ FirstPage(p[i]) \in Nat /\ LastPage(p[i]) \in Nat
                /\ FirstPage(p[i]) <= LastPage(p[i])
                /\ ENTRIES <= FirstPage(p[i]) /\ LastPage(p[i]) < StackPage
                /\ p[i].at + p[i].size \in Nat \ {0}
                /\ Top(p[i].at + p[i].size) = LastPage(p[i]) + 1
                /\ \A j \in 1 .. i - 1 : LastPage(p[j]) < FirstPage(p[i])
<1>1. p \in Seq(Segment) /\ p # <<>>
    BY ProgramAssumption
<1>2. Len(p) \in Nat \ {0} /\ \A i \in 1 .. Len(p) : p[i] \in Segment
    BY <1>1
<1>3. ASSUME NEW i \in 1 .. Len(p)
      PROVE  /\ Fits(p[i]) /\ ENTRIES <= FirstPage(p[i]) /\ LastPage(p[i]) < StackPage
             /\ \A j \in 1 .. i - 1 : LastPage(p[j]) < FirstPage(p[i])
    BY ProgramAssumption DEF StackPage
<1>4. ASSUME NEW i \in 1 .. Len(p)
      PROVE  /\ FirstPage(p[i]) \in Nat /\ LastPage(p[i]) \in Nat
             /\ FirstPage(p[i]) <= LastPage(p[i])
             /\ p[i].at \in Nat /\ p[i].size \in Nat \ {0}
             /\ Top(p[i].at + p[i].size) = LastPage(p[i]) + 1
    BY <1>3, PagesOfSegment
<1>5. ASSUME NEW i \in 1 .. Len(p)
      PROVE  SegPages(p[i]) \subseteq UserPages
    <2>1. PICK a \in Nat, b \in Nat : a = FirstPage(p[i]) /\ b = LastPage(p[i])
        BY <1>4
    <2>2. ENTRIES \in Nat /\ StackPage \in Nat /\ ENTRIES <= a /\ b < StackPage
        BY <1>3, <2>1, StackConstants, MemConstants
    <2>3. \A v \in a .. b : v \in ENTRIES .. StackPage
        BY <2>2
    <2>. QED
        BY <2>1, <2>3, StackConstants DEF SegPages
<1>6. ASSUME NEW i \in 1 .. Len(p)
      PROVE  p[i].at + p[i].size \in Nat \ {0}
    BY <1>4
<1>. QED
    BY <1>1, <1>2, <1>3, <1>4, <1>5, <1>6

(* The pages of a task's space are kept when its variables are and what is mapped. *)
LEMMA EndsKept ==
    ASSUME NEW d, NEW a, Ends(d, a), \A v \in UserPages : Mapped(d, v)' = Mapped(d, v)
    PROVE  Ends(d, a)'
<1>1. Top(a) \in ENTRIES + 1 .. StackPage /\ ENTRIES \in Nat /\ StackPage \in Nat
    BY MemConstants, StackConstants DEF Ends
<1>2. Top(a) - 1 \in UserPages /\ \A v \in Top(a) .. StackPage - 1 : v \in UserPages
    BY <1>1, StackConstants
<1>. QED
    BY <1>1, <1>2 DEF Ends

\* A step that leaves alone what counts for the space of task u: the list of pages
\* to map, the call it is in, the heap.
Keeps(u) ==
    /\ todo'[u] = <<>> \/ (todo'[u] = todo[u] /\ new'[u] = new[u])
    /\ \/ pc'[u] \notin {"load", "stack", "sbrk"}
       \/ /\ pc'[u] = pc[u] /\ new'[u] = new[u] /\ todo'[u] = todo[u] /\ segs'[u] = segs[u]
          /\ loaded'[u] = loaded[u] /\ end'[u] = end[u]
          /\ heapEnd'[u] = heapEnd[u] /\ dir'[u] = dir[u]
    /\ u \in alive' /\ heapEnd'[u] # 0 /\ loaded'[u] = 0 /\ pc'[u] # "sbrk" =>
          /\ u \in alive /\ loaded[u] = 0 /\ pc[u] # "sbrk"
          /\ heapEnd'[u] = heapEnd[u] /\ dir'[u] = dir[u]

LEMMA SpaceKept ==
    ASSUME MemTypes, Calls, NEW u \in Tasks, Space(u), Keeps(u),
           \A d \in Directories, v \in UserPages :
               d = dir[u] \/ d = new[u] => Mapped(d, v)' = Mapped(d, v)
    PROVE  Space(u)'
<1>1. PICK n, q, k : n = new[u] /\ q = todo[u] /\ k = pc'[u]
    OBVIOUS
<1>2. Point(u) /\ Holding(u)
    BY DEF Calls, Call
<1>3. q \in Seq(UserPages)
    BY <1>1 DEF MemTypes
<1>4. q # <<>> \/ pc[u] \in {"load", "stack", "sbrk"} =>
          n # None /\ \A v \in UserPages : Mapped(n, v)' = Mapped(n, v)
    BY <1>1, <1>2 DEF Point, Builds, Directories
<1>5. Todo(u)'
    <2>1. CASE todo'[u] = <<>>
        BY <2>1 DEF Todo
    <2>2. CASE todo'[u] = q /\ new'[u] = n
        <3>. SUFFICES ASSUME NEW i \in 1 .. Len(q)
                      PROVE  /\ Mapped(n, q[i])' = None
                             /\ \A j \in 1 .. Len(q) : q[i] = q[j] => i = j
            BY <2>2 DEF Todo
        <3>1. q # <<>> /\ q[i] \in UserPages
            BY <1>3
        <3>. QED
            BY <1>1, <1>4, <3>1 DEF Space, Todo
    <2>. QED
        BY <1>1, <2>1, <2>2 DEF Keeps
<1>6. ASSUME u \in alive', heapEnd'[u] # 0, loaded'[u] = 0, k # "sbrk"
      PROVE  Ends(dir[u], heapEnd[u])'
    <2>1. PICK d, a : d = dir[u] /\ a = heapEnd[u]
        OBVIOUS
    <2>2. /\ u \in alive /\ dir'[u] = d /\ heapEnd'[u] = a /\ loaded[u] = 0 /\ pc[u] # "sbrk"
          /\ d \in Directories
        BY <1>1, <1>2, <1>6, <2>1 DEF Holding, Directories, Keeps
    <2>3. Ends(d, a)
        BY <1>6, <2>1, <2>2 DEF Space
    <2>4. \A v \in UserPages : Mapped(d, v)' = Mapped(d, v)
        BY <2>1, <2>2
    <2>5. Ends(d, a)'
        BY <2>3, <2>4, EndsKept
    <2>. QED
        BY <2>2, <2>5
<1>7. ASSUME k \in {"load", "stack", "sbrk"}
      PROVE  /\ pc[u] = k /\ new'[u] = n /\ todo'[u] = q /\ segs'[u] = segs[u]
             /\ loaded'[u] = loaded[u] /\ end'[u] = end[u]
             /\ heapEnd'[u] = heapEnd[u] /\ dir'[u] = dir[u]
             /\ Pending(u)' = Pending(u)
    BY <1>1, <1>7 DEF Keeps, Pending
<1>8. ASSUME k = "sbrk" PROVE Grows(u)'
    <2>1. Grows(u) /\ dir[u] = n
        BY <1>1, <1>2, <1>7, <1>8 DEF Space, Point
    <2>2. dir'[u] = n /\ heapEnd'[u] = heapEnd[u] /\ end'[u] = end[u]
        BY <1>7, <1>8, <2>1
    <2>3. PICK a, b : a = heapEnd[u] /\ b = Top(a)
        OBVIOUS
    <2>4. b \in ENTRIES + 1 .. StackPage /\ ENTRIES \in Nat /\ StackPage \in Nat
        BY <2>1, <2>3, MemConstants, StackConstants DEF Grows
    <2>5. b - 1 \in UserPages /\ \A v \in b .. StackPage - 1 : v \in UserPages
        BY <2>4, StackConstants
    <2>6. \A v \in UserPages : Mapped(n, v)' = Mapped(n, v)
        BY <1>4, <1>7, <1>8
    <2>7. Top(heapEnd[u])' = b /\ Top(end[u])' = Top(end[u])
        BY <2>2, <2>3 DEF Top
    <2>8. Pending(u)' = Pending(u)
        BY <1>7, <1>8
    <2>. QED
        BY <2>1, <2>2, <2>3, <2>5, <2>6, <2>7, <2>8 DEF Grows
<1>9. ASSUME k \in {"load", "stack"} PROVE Loads(u)'
    <2>1. PICK p \in Programs :
            /\ loaded[u] + Len(segs[u]) = Len(p)
            /\ (segs[u] = <<>>) <=> (pc[u] = "stack")
            /\ \A i \in 1 .. Len(segs[u]) : segs[u][i] = p[loaded[u] + i]
            /\ loaded[u] # 0 => heapEnd[u] = p[loaded[u]].at + p[loaded[u]].size
            /\ \A v \in UserPages :
                  (Mapped(n, v) # None \/ v \in Pending(u)) <=> Reached(u, p, v)
        BY <1>1, <1>7, <1>9 DEF Space, Loads
    <2>2. \A v : Reached(u, p, v)' <=> Reached(u, p, v)
        BY <1>1, <1>7, <1>9 DEF Reached
    <2>3. \A v \in UserPages : Mapped(n, v)' = Mapped(n, v)
        BY <1>4, <1>7, <1>9
    <2>4. /\ heapEnd'[u] = heapEnd[u] /\ new'[u] = n /\ segs'[u] = segs[u]
          /\ loaded'[u] = loaded[u] /\ pc'[u] = pc[u] /\ Pending(u)' = Pending(u)
        BY <1>1, <1>7, <1>9
    <2>5. \A v \in UserPages :
              (Mapped(new[u], v)' # None \/ v \in Pending(u)') <=> Reached(u, p, v)'
        BY <2>1, <2>2, <2>3, <2>4
    <2>. QED
        BY <2>1, <2>4, <2>5 DEF Loads
<1>. QED
    BY <1>1, <1>5, <1>6, <1>8, <1>9 DEF Space

(* The tasks whose space a step leaves alone. *)
LEMMA SpacesKept ==
    ASSUME Sound, \A u \in Tasks : Space(u), ~LateExecFails,
           NEW t \in Tasks,
           \/ sys_fork(t) \/ sys_execve(t) \/ sys_sbrk(t) \/ sys_exit(t)
           \/ \E c \in Slots : sys_wait(t, c),
           ~\E q : MapPage(t, q),
           NEW u \in Tasks,
           u # t \/ ~(\/ fork_copy(t) \/ \E program \in Programs : exec_start(t, program)
                      \/ exec_loaded(t) \/ exec_done(t) \/ sys_sbrk(t))
    PROVE  Space(u)'
<1>1. MemTypes /\ Calls /\ Point(t) /\ Point(u) /\ Holding(u) /\ Forking(t)
    BY DEF Sound, Calls, Call
<1>2. \A d \in Directories, v \in UserPages : Mapped(d, v)' = Mapped(d, v)
    BY MappedKept
<1>3. ASSUME Keeps(u) PROVE Space(u)'
    BY <1>1, <1>2, <1>3, SpaceKept
<1>4. ASSUME NEW c \in Slots, fork_stack(t, c) PROVE Keeps(u)
    <2>1. /\ t \in alive /\ pc[t] = "user" /\ c \notin alive
          /\ UNCHANGED <<alive, dir, new, todo, segs, loaded, end>>
        BY <1>4 DEF fork_stack, At
    <2>2. /\ pc'[u] = IF u = t THEN "fork_dir" ELSE pc[u]
          /\ heapEnd'[u] = IF u = c THEN 0 ELSE heapEnd[u]
        BY <1>1, <1>4 DEF fork_stack, Goes, MemTypes
    <2>3. u = c => pc[u] = "user"
        BY <1>1, <2>1 DEF Point
    <2>. QED
        BY <2>1, <2>2, <2>3 DEF Keeps
<1>5. ASSUME fork_dir(t) PROVE Keeps(u)
    <2>1. child[t] \notin alive
        BY <1>1, <1>5, ForkingTask DEF fork_dir, At, InForkAt
    <2>2. /\ pc[t] = "fork_dir"
          /\ UNCHANGED <<alive, new, todo, segs, loaded, end, heapEnd>>
        BY <1>5 DEF fork_dir, At, workVars
    <2>3. /\ pc'[u] = IF u = t THEN "fork_copy" ELSE pc[u]
          /\ u # child[t] => dir'[u] = dir[u]
        BY <1>1, <1>5 DEF fork_dir, Goes, MemTypes
    <2>4. u = child[t] => pc[u] = "user" /\ heapEnd[u] = 0
        BY <1>1, <2>1 DEF Point, Holding
    <2>. QED
        BY <2>1, <2>2, <2>3, <2>4 DEF Keeps
<1>6. ASSUME fork_copy(t), u # t PROVE Keeps(u)
    BY <1>1, <1>6 DEF fork_copy, At, Goes, MemTypes, Keeps
<1>7. ASSUME fork_end(t) PROVE Keeps(u)
    <2>1. child[t] \notin alive
        BY <1>1, <1>7, ForkingTask DEF fork_end, At, InForkAt
    <2>2. u = child[t] => heapEnd[u] = 0 /\ pc[u] = "user"
        BY <1>1, <2>1 DEF Holding, Point
    <2>. QED
        BY <1>1, <1>7, <2>1, <2>2 DEF fork_end, At, Goes, MemTypes, Keeps
<1>8. ASSUME NEW program \in Programs, exec_start(t, program), u # t PROVE Keeps(u)
    BY <1>1, <1>8 DEF exec_start, At, Goes, MemTypes, Keeps
<1>9. ASSUME exec_loaded(t), u # t PROVE Keeps(u)
    BY <1>1, <1>9 DEF exec_loaded, At, Goes, MemTypes, Keeps
<1>10. ASSUME exec_fails(t) PROVE Keeps(u)
    BY <1>1, <1>10 DEF exec_fails, At, Goes, MemTypes, Keeps
<1>11. ASSUME exec_done(t), u # t PROVE Keeps(u)
    BY <1>1, <1>11 DEF exec_done, At, Goes, MemTypes, Keeps
<1>12. ASSUME NEW incr \in 1 .. MaxIncr, sbrk_in_page(t, incr), u # t PROVE Keeps(u)
    BY <1>1, <1>12 DEF sbrk_in_page, At, Goes, workVars, MemTypes, Keeps
<1>13. ASSUME NEW incr \in 1 .. MaxIncr, sbrk_start(t, incr), u # t PROVE Keeps(u)
    BY <1>1, <1>13 DEF sbrk_start, At, Goes, MemTypes, Keeps
<1>14. ASSUME sbrk_end(t), u # t PROVE Keeps(u)
    BY <1>1, <1>14 DEF sbrk_end, At, Goes, MemTypes, Keeps
<1>15. ASSUME sys_exit(t) PROVE Keeps(u)
    BY <1>1, <1>15 DEF sys_exit, At, workVars, MemTypes, Keeps
<1>16. ASSUME NEW c \in Slots, sys_wait(t, c) PROVE Keeps(u)
    <2>1. c \in dead /\ alive' = alive \ {c} /\ UNCHANGED <<pc, new, todo, segs, loaded, end>>
        BY <1>16 DEF sys_wait, workVars
    <2>2. u # c => dir'[u] = dir[u] /\ heapEnd'[u] = heapEnd[u]
        BY <1>1, <1>16 DEF sys_wait, MemTypes
    <2>3. u = c => pc[u] = "user"
        BY <1>1, <2>1 DEF Point
    <2>. QED
        BY <2>1, <2>2, <2>3 DEF Keeps
<1>. QED
    BY <1>3, <1>4, <1>5, <1>6, <1>7, <1>8, <1>9, <1>10, <1>11, <1>12, <1>13, <1>14, <1>15, <1>16
       DEF sys_fork, sys_execve, sys_sbrk

(* The task that acts. *)
LEMMA EndsStay ==
    ASSUME Calls, NEW t \in Tasks, Space(t), t \in alive,
           dir'[t] = dir[t], heapEnd'[t] = heapEnd[t], heapEnd[t] # 0, loaded[t] = 0, pc[t] # "sbrk",
           \A d \in Directories, v \in UserPages : d = dir[t] => Mapped(d, v)' = Mapped(d, v)
    PROVE  Ends(dir[t], heapEnd[t])'
<1>1. PICK d, a : d = dir[t] /\ a = heapEnd[t]
    OBVIOUS
<1>2. d \in Directories
    BY <1>1 DEF Calls, Call, Holding, Directories
<1>3. Ends(d, a)
    BY <1>1 DEF Space
<1>4. Ends(d, a)'
    BY <1>1, <1>2, <1>3, EndsKept
<1>. QED
    BY <1>1, <1>4

LEMMA ForkCopySpace ==
    ASSUME Sound, NEW t \in Tasks, Space(t), fork_copy(t)
    PROVE  Space(t)' /\ todo'[t] \in Seq(UserPages)
<1>1. PICK p : p = Page
    OBVIOUS
<1>2. p \in Frames \ used
    BY <1>1, PageIsFree DEF fork_copy
<1>3. MemTypes /\ Calls
    BY DEF Sound
<1>4. PICK q : q = Sorted(Present(dir[t]))
    OBVIOUS
<1>5. /\ content' = [content EXCEPT ![p] = NewDirectory(p)]
      /\ new'[t] = p /\ todo'[t] = q /\ pc'[t] = "fork_map" /\ pc[t] = "fork_copy" /\ t \in alive
      /\ UNCHANGED <<alive, dir, heapEnd, loaded>>
    BY <1>1, <1>3, <1>4 DEF fork_copy, At, Goes, MemTypes
<1>6. /\ \A d \in Directories, v \in UserPages : Mapped(d, v)' = Mapped(d, v)
      /\ \A v \in UserPages : Mapped(p, v)' = None
    BY <1>2, <1>5, FreshFrame
<1>7. q \in Seq(UserPages) /\ \A i, j \in 1 .. Len(q) : q[i] = q[j] => i = j
    <2>1. PICK S : S = Present(dir[t])
        OBVIOUS
    <2>2. PICK n \in Nat : n = ENTRIES * ENTRIES /\ ENTRIES \in Nat
        BY MemConstants
    <2>3. UserPages \in SUBSET Nat /\ IsFiniteSet(UserPages)
        <3>1. UserPages = ENTRIES .. n - 1
            BY <2>2 DEF UserPages
        <3>2. IsFiniteSet(ENTRIES .. n - 1)
            BY <2>2, FS_Interval
        <3>. QED
            BY <2>2, <3>1, <3>2
    <2>4. S \in SUBSET UserPages
        BY <2>1 DEF Present
    <2>5. S \in SUBSET Nat /\ IsFiniteSet(S)
        BY <2>3, <2>4, FS_Subset
    <2>6. /\ Sorted(S) \in Seq(S)
          /\ \A i, j \in 1 .. Len(Sorted(S)) : Sorted(S)[i] = Sorted(S)[j] => i = j
        BY <2>5, SortedLists
    <2>7. q = Sorted(S)
        BY <1>4, <2>1
    <2>. QED
        BY <2>4, <2>6, <2>7
<1>8. Todo(t)'
    <2>. SUFFICES ASSUME NEW i \in 1 .. Len(q)
                  PROVE  Mapped(p, q[i])' = None /\ \A j \in 1 .. Len(q) : q[i] = q[j] => i = j
        BY <1>5 DEF Todo
    <2>1. q[i] \in UserPages
        BY <1>7
    <2>. QED
        BY <1>6, <1>7, <2>1
<1>9. ASSUME heapEnd'[t] # 0, loaded'[t] = 0 PROVE Ends(dir[t], heapEnd[t])'
    BY <1>3, <1>5, <1>6, <1>9, EndsStay
<1>. QED
    BY <1>5, <1>7, <1>8, <1>9 DEF Space

LEMMA ExecStartSpace ==
    ASSUME Sound, NEW t \in Tasks, Space(t), NEW program \in Programs, exec_start(t, program)
    PROVE  Space(t)' /\ todo'[t] \in Seq(UserPages) /\ segs'[t] \in Seq(Segment)
<1>1. PICK p : p = Page
    OBVIOUS
<1>2. p \in Frames \ used
    BY <1>1, PageIsFree DEF exec_start
<1>3. MemTypes /\ Calls /\ Point(t)
    BY DEF Sound, Calls, Call
<1>4. /\ program \in Seq(Segment) /\ Len(program) \in Nat \ {0} /\ 1 \in 1 .. Len(program)
      /\ Head(program) = program[1]
      /\ Fits(program[1]) /\ SegPages(program[1]) \subseteq UserPages
    BY ProgramSegments
<1>5. PICK s, q : s = program[1] /\ q = PagesFor(s.at, s.size)
    OBVIOUS
<1>6. /\ content' = [content EXCEPT ![p] = NewDirectory(p)]
      /\ new'[t] = p /\ todo'[t] = q /\ pc'[t] = "load" /\ pc[t] = "user" /\ t \in alive
      /\ segs'[t] = program /\ loaded'[t] = 0 /\ loaded[t] = 0
      /\ UNCHANGED <<alive, dir, heapEnd>>
    BY <1>1, <1>3, <1>4, <1>5 DEF exec_start, At, Goes, MemTypes, Point
<1>7. /\ \A d \in Directories, v \in UserPages : Mapped(d, v)' = Mapped(d, v)
      /\ \A v \in UserPages : Mapped(p, v)' = None
    BY <1>2, <1>6, FreshFrame
<1>8. /\ q \in Seq(UserPages)
      /\ {q[i] : i \in 1 .. Len(q)} = SegPages(s)
      /\ \A i, j \in 1 .. Len(q) : q[i] = q[j] => i = j
    <2>1. ListsPages(q, s)
        BY <1>4, <1>5, SegmentList
    <2>. QED
        BY <2>1 DEF ListsPages
<1>9. Todo(t)'
    <2>. SUFFICES ASSUME NEW i \in 1 .. Len(q)
                  PROVE  Mapped(p, q[i])' = None /\ \A j \in 1 .. Len(q) : q[i] = q[j] => i = j
        BY <1>6 DEF Todo
    <2>1. q[i] \in UserPages
        BY <1>8
    <2>. QED
        BY <1>7, <1>8, <2>1
<1>10. ASSUME heapEnd'[t] # 0 PROVE Ends(dir[t], heapEnd[t])'
    BY <1>3, <1>6, <1>7, <1>10, EndsStay
<1>11. Loads(t)'
    <2>1. Pending(t)' = SegPages(s)
        BY <1>6, <1>8 DEF Pending
    <2>2. \A v : Reached(t, program, v)' <=> v \in SegPages(s)
        BY <1>4, <1>5, <1>6 DEF Reached
    <2>3. \A v \in UserPages :
              (Mapped(new[t], v)' # None \/ v \in Pending(t)') <=> Reached(t, program, v)'
        BY <1>6, <1>7, <2>1, <2>2
    <2>4. /\ 0 + Len(program) = Len(program) /\ program # <<>>
          /\ \A i \in 1 .. Len(program) : program[i] = program[0 + i]
        BY <1>4
    <2>. QED
        BY <1>6, <2>3, <2>4 DEF Loads
<1>. QED
    BY <1>4, <1>6, <1>8, <1>9, <1>10, <1>11 DEF Space

LEMMA ExecLoadedSpace ==
    ASSUME Sound, NEW t \in Tasks, Space(t), exec_loaded(t)
    PROVE  /\ Space(t)' /\ todo'[t] \in Seq(UserPages) /\ segs'[t] \in Seq(Segment)
           /\ heapEnd'[t] \in Nat
<1>1. MemTypes /\ Calls /\ Point(t)
    BY DEF Sound, Calls, Call
<1>2. PICK n, s, k : n = new[t] /\ s = segs[t] /\ k = loaded[t]
    OBVIOUS
<1>3. /\ pc[t] = "load" /\ todo[t] = <<>> /\ k \in Nat /\ s \in Seq(Segment)
      /\ n \in Directories
    BY <1>1, <1>2 DEF exec_loaded, At, MemTypes, Point, Builds, Directories
<1>4. PICK p \in Programs :
            /\ k + Len(s) = Len(p) /\ s # <<>>
            /\ \A i \in 1 .. Len(s) : s[i] = p[k + i]
            /\ \A v \in UserPages :
                  (Mapped(n, v) # None \/ v \in Pending(t)) <=> Reached(t, p, v)
    BY <1>2, <1>3 DEF Space, Loads
<1>5. /\ Len(p) \in Nat
      /\ \A i \in 1 .. Len(p) :
            /\ p[i] \in Segment /\ Fits(p[i]) /\ SegPages(p[i]) \subseteq UserPages
            /\ FirstPage(p[i]) \in Nat /\ LastPage(p[i]) \in Nat
            /\ LastPage(p[i]) < StackPage
            /\ p[i].at + p[i].size \in Nat \ {0}
            /\ \A j \in 1 .. i - 1 : LastPage(p[j]) < FirstPage(p[i])
    BY ProgramSegments
<1>6. PICK rest : rest = Tail(s)
    OBVIOUS
<1>7. /\ k + 1 \in 1 .. Len(p) /\ Head(s) = p[k + 1]
      /\ rest \in Seq(Segment) /\ Len(rest) = Len(p) - (k + 1)
      /\ \A i \in 1 .. Len(rest) : rest[i] = p[(k + 1) + i]
      /\ rest # <<>> => k + 2 \in 1 .. Len(p) /\ Head(rest) = p[k + 2]
    <2>1. Len(s) \in Nat \ {0} /\ 1 \in 1 .. Len(s) /\ Head(s) = s[1]
        BY <1>3, <1>4
    <2>2. rest \in Seq(Segment) /\ Len(rest) = Len(s) - 1 /\ \A i \in 1 .. Len(rest) : rest[i] = s[i + 1]
        BY <1>3, <1>4, <1>6
    <2>3. \A i \in 1 .. Len(rest) : rest[i] = p[(k + 1) + i]
        <3>1. ASSUME NEW i \in 1 .. Len(rest) PROVE rest[i] = p[(k + 1) + i]
            <4>1. i + 1 \in 1 .. Len(s) /\ k + (i + 1) = (k + 1) + i
                BY <1>3, <2>1, <2>2
            <4>2. s[i + 1] = p[k + (i + 1)]
                BY <1>4, <4>1
            <4>. QED
                BY <2>2, <4>1, <4>2
        <3>. QED
            BY <3>1
    <2>4. rest # <<>> => 1 \in 1 .. Len(rest) /\ Head(rest) = rest[1]
        BY <2>2
    <2>5. rest # <<>> => rest[1] = p[k + 2]
        <3>1. (k + 1) + 1 = k + 2
            BY <1>3
        <3>. QED
            BY <2>3, <2>4, <3>1
    <2>6. s[1] = p[k + 1]
        BY <1>4, <2>1
    <2>7. k + 1 \in 1 .. Len(p) /\ Len(rest) = Len(p) - (k + 1)
        BY <1>3, <1>4, <1>5, <2>1, <2>2
    <2>8. rest # <<>> => k + 2 \in 1 .. Len(p)
        BY <1>3, <1>5, <2>4, <2>7
    <2>. QED
        BY <2>1, <2>2, <2>3, <2>4, <2>5, <2>6, <2>7, <2>8
<1>8. PICK next : next = IF rest = <<>> THEN Stack ELSE p[k + 2]
    OBVIOUS
<1>9. PICK q : q = PagesFor(next.at, next.size)
    OBVIOUS
<1>10. /\ UNCHANGED <<content, alive, dir, new>>
       /\ heapEnd'[t] = p[k + 1].at + p[k + 1].size /\ segs'[t] = rest /\ loaded'[t] = k + 1
       /\ todo'[t] = q /\ pc'[t] = IF rest = <<>> THEN "stack" ELSE "load"
    BY <1>1, <1>2, <1>6, <1>7, <1>8, <1>9 DEF exec_loaded, Goes, MemTypes
<1>11. Fits(next) /\ SegPages(next) \subseteq UserPages
    BY <1>5, <1>7, <1>8, StackConstants
<1>12. /\ q \in Seq(UserPages)
       /\ {q[i] : i \in 1 .. Len(q)} = SegPages(next)
       /\ \A i, j \in 1 .. Len(q) : q[i] = q[j] => i = j
    <2>1. ListsPages(q, next)
        BY <1>9, <1>11, SegmentList
    <2>. QED
        BY <2>1 DEF ListsPages
<1>13. Pending(t) = {} /\ Pending(t)' = SegPages(next)
    BY <1>3, <1>10, <1>12 DEF Pending
<1>14. \A v : Reached(t, p, v) <=> \E i \in 1 .. Len(p) : i <= k + 1 /\ v \in SegPages(p[i])
    BY <1>2, <1>3 DEF Reached
<1>15. \A v : Reached(t, p, v)' <=> Reached(t, p, v) \/ v \in SegPages(next)
    <2>. SUFFICES ASSUME NEW v
                  PROVE  Reached(t, p, v)' <=> Reached(t, p, v) \/ v \in SegPages(next)
        OBVIOUS
    <2>1. Reached(t, p, v)' <=>
              \/ \E i \in 1 .. Len(p) : i <= k + 2 /\ v \in SegPages(p[i])
              \/ rest = <<>> /\ v \in SegPages(Stack)
        <3>1. (k + 1) + 1 = k + 2 /\ "load" # "stack"
            BY <1>3
        <3>. QED
            BY <1>10, <3>1 DEF Reached
    <2>2. CASE rest = <<>>
        <3>1. Len(p) = k + 1
            BY <1>3, <1>5, <1>7, <2>2
        <3>2. \A i \in 1 .. Len(p) : i <= k + 1 /\ i <= k + 2
            BY <1>3, <3>1
        <3>. QED
            BY <1>8, <1>14, <2>1, <2>2, <3>2
    <2>3. CASE rest # <<>>
        <3>1. k + 2 \in 1 .. Len(p) /\ next = p[k + 2]
            BY <1>7, <1>8, <2>3
        <3>2. \A i \in 1 .. Len(p) : i <= k + 2 <=> i <= k + 1 \/ i = k + 2
            BY <1>3, <1>5
        <3>. QED
            BY <1>14, <2>1, <2>3, <3>1, <3>2
    <2>. QED
        BY <2>2, <2>3
<1>16. ASSUME NEW v \in SegPages(next) PROVE ~Reached(t, p, v)
    <2>. SUFFICES ASSUME NEW i \in 1 .. Len(p), i <= k + 1, v \in SegPages(p[i]) PROVE FALSE
        BY <1>14
    <2>1. PICK b \in Nat : b = LastPage(p[i]) /\ v <= b /\ v \in Nat
        BY <1>5 DEF SegPages
    <2>2. CASE rest = <<>>
        <3>1. v \in FirstPage(Stack) .. LastPage(Stack)
            BY <1>8, <1>16, <2>2 DEF SegPages
        <3>2. b < StackPage /\ StackPage \in Nat
            BY <1>5, <2>1, StackConstants
        <3>. QED
            BY <2>1, <3>1, <3>2 DEF StackPage
    <2>3. CASE rest # <<>>
        <3>1. k + 2 \in 1 .. Len(p) /\ v \in FirstPage(p[k + 2]) .. LastPage(p[k + 2])
            BY <1>7, <1>8, <1>16, <2>3 DEF SegPages
        <3>2. i \in 1 .. (k + 2) - 1
            BY <1>3
        <3>3. b < FirstPage(p[k + 2]) /\ FirstPage(p[k + 2]) \in Nat
            BY <1>5, <2>1, <3>1, <3>2
        <3>. QED
            BY <2>1, <3>1, <3>3
    <2>. QED
        BY <2>2, <2>3
<1>17. \A v \in UserPages : Mapped(n, v)' = Mapped(n, v)
    BY <1>10 DEF Mapped, TableOf
<1>18. Todo(t)'
    <2>. SUFFICES ASSUME NEW i \in 1 .. Len(q)
                  PROVE  Mapped(n, q[i])' = None /\ \A j \in 1 .. Len(q) : q[i] = q[j] => i = j
        BY <1>2, <1>10 DEF Todo
    <2>1. q[i] \in UserPages /\ q[i] \in SegPages(next)
        BY <1>12
    <2>2. Mapped(n, q[i]) = None
        BY <1>4, <1>16, <2>1
    <2>. QED
        BY <1>12, <1>17, <2>1, <2>2
<1>19. Loads(t)'
    <2>1. \A v \in UserPages :
              (Mapped(new[t], v)' # None \/ v \in Pending(t)') <=> Reached(t, p, v)'
        BY <1>2, <1>4, <1>10, <1>13, <1>15, <1>17
    <2>2. (k + 1) + Len(rest) = Len(p) /\ k + 1 # 0
        BY <1>3, <1>5, <1>7
    <2>3. (rest = <<>>) <=> (pc'[t] = "stack")
        BY <1>10
    <2>. QED
        BY <1>7, <1>10, <2>1, <2>2, <2>3 DEF Loads
<1>20. heapEnd'[t] \in Nat
    BY <1>5, <1>7, <1>10
<1>. QED
    BY <1>3, <1>7, <1>10, <1>12, <1>18, <1>19, <1>20 DEF Space

LEMMA ExecDoneSpace ==
    ASSUME Sound, NEW t \in Tasks, Space(t), exec_done(t)
    PROVE  Space(t)'
<1>1. MemTypes /\ Calls
    BY DEF Sound
<1>2. PICK n, a, k : n = new[t] /\ a = heapEnd[t] /\ k = loaded[t]
    OBVIOUS
<1>3. /\ pc[t] = "stack" /\ todo[t] = <<>> /\ k \in Nat
      /\ UNCHANGED <<content, heapEnd, todo>>
      /\ dir'[t] = n /\ pc'[t] = "user"
    BY <1>1, <1>2 DEF exec_done, At, Goes, MemTypes
<1>4. PICK p \in Programs :
            /\ k + 0 = Len(p)
            /\ k # 0 => a = p[k].at + p[k].size
            /\ \A v \in UserPages :
                  (Mapped(n, v) # None \/ v \in Pending(t)) <=> Reached(t, p, v)
    <2>1. Loads(t) /\ Len(<<>>) = 0
        BY <1>3 DEF Space
    <2>. QED
        BY <1>2, <1>3, <2>1 DEF Loads
<1>5. /\ Len(p) \in Nat \ {0}
      /\ \A i \in 1 .. Len(p) :
            /\ FirstPage(p[i]) \in Nat /\ LastPage(p[i]) \in Nat
            /\ FirstPage(p[i]) <= LastPage(p[i])
            /\ ENTRIES <= FirstPage(p[i]) /\ LastPage(p[i]) < StackPage
            /\ Top(p[i].at + p[i].size) = LastPage(p[i]) + 1
            /\ \A j \in 1 .. i - 1 : LastPage(p[j]) < FirstPage(p[i])
    BY ProgramSegments
<1>6. k = Len(p) /\ k \in 1 .. Len(p) /\ a = p[k].at + p[k].size
    BY <1>3, <1>4, <1>5
<1>7. PICK b \in Nat, c \in Nat : b = LastPage(p[k]) /\ c = FirstPage(p[k])
    BY <1>5, <1>6
<1>8. /\ Top(a) = b + 1 /\ ENTRIES <= c /\ c <= b /\ b < StackPage
      /\ ENTRIES \in Nat /\ StackPage \in Nat
    BY <1>5, <1>6, <1>7, StackConstants, MemConstants
<1>9. b \in UserPages /\ \A v \in b + 1 .. StackPage - 1 : v \in UserPages
    <2>1. b \in ENTRIES .. StackPage /\ \A v \in b + 1 .. StackPage - 1 : v \in ENTRIES .. StackPage
        BY <1>8
    <2>. QED
        BY <2>1, StackConstants
<1>10. Pending(t) = {}
    BY <1>3 DEF Pending
<1>11. Mapped(n, b) # None
    <2>1. b \in SegPages(p[k]) /\ k <= k + 1
        BY <1>3, <1>7, <1>8 DEF SegPages
    <2>2. Reached(t, p, b)
        BY <1>2, <1>6, <2>1 DEF Reached
    <2>. QED
        BY <1>4, <1>9, <1>10, <2>2
<1>12. ASSUME NEW v \in b + 1 .. StackPage - 1 PROVE Mapped(n, v) = None
    <2>1. ASSUME NEW i \in 1 .. Len(p) PROVE v \notin SegPages(p[i])
        <3>1. LastPage(p[i]) \in Nat /\ LastPage(p[i]) <= b
            <4>1. CASE i = k
                BY <1>7, <4>1
            <4>2. CASE i # k
                <5>1. i \in 1 .. k - 1
                    BY <1>3, <1>6, <4>2
                <5>2. LastPage(p[i]) \in Nat /\ LastPage(p[i]) < FirstPage(p[k])
                    BY <1>5, <1>6, <5>1
                <5>. QED
                    BY <1>7, <1>8, <5>2
            <4>. QED
                BY <4>1, <4>2
        <3>2. FirstPage(p[i]) \in Nat
            BY <1>5
        <3>3. PICK x \in Nat, y \in Nat : x = FirstPage(p[i]) /\ y = LastPage(p[i]) /\ y <= b
            BY <3>1, <3>2
        <3>. QED
            BY <1>12, <3>3 DEF SegPages
    <2>2. v \notin SegPages(Stack)
        <3>1. LastPage(Stack) \in Nat /\ StackPage \in Nat
            BY StackConstants, PagesOfSegment
        <3>. QED
            BY <1>12, <3>1 DEF SegPages, StackPage
    <2>3. ~Reached(t, p, v)
        BY <2>1, <2>2 DEF Reached
    <2>. QED
        BY <1>4, <1>9, <2>3
<1>13. Ends(n, a)
    <2>1. Top(a) - 1 = b /\ Top(a) \in ENTRIES + 1 .. StackPage
        BY <1>8
    <2>. QED
        BY <1>8, <1>11, <1>12, <2>1 DEF Ends
<1>14. \A v \in UserPages : Mapped(n, v)' = Mapped(n, v)
    BY <1>3 DEF Mapped, TableOf
<1>15. Ends(n, a)'
    BY <1>13, <1>14, EndsKept
<1>16. Ends(dir[t], heapEnd[t])'
    BY <1>2, <1>3, <1>15
<1>17. Todo(t)'
    BY <1>3 DEF Todo
<1>. QED
    BY <1>3, <1>16, <1>17 DEF Space

LEMMA SbrkSpace ==
    ASSUME Sound, NEW t \in Tasks, Space(t), NEW incr \in 1 .. MaxIncr, sbrk_in_page(t, incr)
    PROVE  Space(t)' /\ heapEnd'[t] \in Nat
<1>1. MemTypes /\ Calls /\ Point(t)
    BY DEF Sound, Calls, Call
<1>2. PICK d, a : d = dir[t] /\ a = heapEnd[t]
    OBVIOUS
<1>3. /\ pc[t] = "user" /\ t \in alive /\ a \in Nat \ {0} /\ FitsInPage(a, incr)
      /\ heapEnd'[t] = a + incr /\ incr \in Nat \ {0}
      /\ UNCHANGED <<content, dir, new, todo, loaded, pc>> /\ loaded[t] = 0
    BY <1>1, <1>2, ProgramAssumption DEF sbrk_in_page, At, workVars, MemTypes, Point
<1>4. Ends(d, a)
    BY <1>2, <1>3 DEF Space
<1>5. Top(a + incr) = Top(a)
    BY <1>3, GrowsInPage
<1>6. Ends(d, a + incr)
    BY <1>4, <1>5 DEF Ends
<1>7. \A v : Mapped(d, v)' = Mapped(d, v)
    BY <1>3 DEF Mapped, TableOf
<1>8. Ends(d, a + incr)'
    BY <1>6, <1>7, EndsKept
<1>9. Ends(dir[t], heapEnd[t])'
    BY <1>2, <1>3, <1>8
<1>10. Todo(t)'
    <2>1. \A v : Mapped(new[t], v)' = Mapped(new[t], v)
        BY <1>3 DEF Mapped, TableOf
    <2>. QED
        BY <1>3, <2>1 DEF Space, Todo
<1>. QED
    BY <1>3, <1>9, <1>10 DEF Space

LEMMA SbrkStartSpace ==
    ASSUME Sound, NEW t \in Tasks, Space(t), ~HeapAfterFork,
           NEW incr \in 1 .. MaxIncr, sbrk_start(t, incr)
    PROVE  Space(t)' /\ todo'[t] \in Seq(UserPages) /\ end'[t] \in Nat
<1>1. MemTypes /\ Calls /\ Point(t)
    BY DEF Sound, Calls, Call
<1>2. PICK d, a, to : d = dir[t] /\ a = heapEnd[t] /\ to = a + incr
    OBVIOUS
<1>3. PICK q : q = PagesFor(NextPage(a), (a + incr) - NextPage(a))
    OBVIOUS
<1>4. /\ pc[t] = "user" /\ t \in alive /\ a \in Nat \ {0} /\ ~FitsInPage(a, incr)
      /\ incr \in Nat \ {0} /\ to <= HeapLimit
      /\ UNCHANGED <<content, dir, heapEnd>> /\ loaded[t] = 0
      /\ new'[t] = d /\ todo'[t] = q /\ end'[t] = to /\ pc'[t] = "sbrk"
    <2>1. /\ pc[t] = "user" /\ t \in alive /\ a \in Nat \ {0} /\ ~FitsInPage(a, incr)
          /\ incr \in Nat \ {0} /\ a + incr <= HeapLimit
          /\ UNCHANGED <<content, dir, heapEnd>> /\ loaded[t] = 0
        BY <1>1, <1>2, ProgramAssumption DEF sbrk_start, At, MemTypes, Point
    <2>2. new'[t] = d /\ end'[t] = a + incr /\ pc'[t] = "sbrk"
        BY <1>1, <1>2 DEF sbrk_start, Goes, MemTypes
    <2>3. todo' = [todo EXCEPT ![t] = PagesFor(NextPage(heapEnd[t]), (heapEnd[t] + incr) - NextPage(heapEnd[t]))]
        BY DEF sbrk_start
    <2>4. todo'[t] = PagesFor(NextPage(heapEnd[t]), (heapEnd[t] + incr) - NextPage(heapEnd[t]))
        BY <1>1, <2>3 DEF MemTypes
    <2>5. todo'[t] = q
        BY <1>2, <1>3, <2>4
    <2>. QED
        BY <1>2, <2>1, <2>2, <2>5
<1>5. Ends(d, a)
    BY <1>2, <1>4 DEF Space
<1>6. to \in Nat \ {0}
    BY <1>2, <1>4
<1>7. PICK x \in Nat, y \in Nat : x = Top(a) /\ y = Top(to)
    BY <1>4, <1>6, TopBounds
<1>8. q \in Seq(Nat) /\ Len(q) = y - x /\ (\A i \in 1 .. Len(q) : q[i] = x + i - 1) /\ x <= y
    <2>1. PICK r : r = PagesFor(NextPage(a), (a + incr) - NextPage(a))
        OBVIOUS
    <2>2. /\ r \in Seq(Nat) /\ Len(r) = Top(a + incr) - Top(a) /\ Top(a) <= Top(a + incr)
          /\ \A i \in 1 .. Len(r) : r[i] = Top(a) + i - 1
        BY <1>4, <2>1, GrowsByPages
    <2>3. r = q
        BY <1>3, <2>1
    <2>4. Top(a + incr) = y
        BY <1>2, <1>7
    <2>. QED
        BY <1>7, <2>2, <2>3, <2>4
<1>9. /\ x \in ENTRIES + 1 .. StackPage /\ y <= StackPage
      /\ ENTRIES \in Nat /\ StackPage \in Nat
    BY <1>4, <1>5, <1>6, <1>7, TopBelowStack, StackConstants, MemConstants DEF Ends
<1>10. x .. y - 1 \subseteq UserPages
    <2>1. \A v \in x .. y - 1 : v \in ENTRIES .. StackPage
        BY <1>9
    <2>. QED
        BY <2>1, StackConstants
<1>11. /\ {q[i] : i \in 1 .. Len(q)} = x .. y - 1
       /\ \A i, j \in 1 .. Len(q) : q[i] = q[j] => i = j
       /\ q \in Seq(UserPages)
    BY <1>8, <1>10, ConsecutivePages
<1>12. \A v : Mapped(d, v)' = Mapped(d, v)
    BY <1>4 DEF Mapped, TableOf
<1>13. Mapped(d, x - 1) # None /\ \A v \in x .. StackPage - 1 : Mapped(d, v) = None
    BY <1>5, <1>7 DEF Ends
<1>14. Todo(t)'
    <2>. SUFFICES ASSUME NEW i \in 1 .. Len(q)
                  PROVE  Mapped(d, q[i])' = None /\ \A j \in 1 .. Len(q) : q[i] = q[j] => i = j
        BY <1>4 DEF Todo
    <2>1. q[i] \in x .. y - 1
        BY <1>11
    <2>2. q[i] \in x .. StackPage - 1
        BY <1>9, <2>1
    <2>. QED
        BY <1>11, <1>12, <1>13, <2>2
<1>15. Grows(t)'
    <2>1. Pending(t)' = x .. y - 1
        BY <1>4, <1>11 DEF Pending
    <2>2. /\ heapEnd'[t] = a /\ end'[t] = to /\ dir'[t] = d
          /\ Top(heapEnd[t])' = x /\ Top(end[t])' = y
        BY <1>2, <1>4, <1>7 DEF Top
    <2>3. \A v \in x .. StackPage - 1 :
              (Mapped(d, v)' # None \/ v \in x .. y - 1) <=> v < y
        BY <1>8, <1>9, <1>12, <1>13
    <2>4. Mapped(d, x - 1)' # None
        BY <1>12, <1>13
    <2>. QED
        BY <1>4, <1>6, <1>8, <1>9, <2>1, <2>2, <2>3, <2>4 DEF Grows
<1>. QED
    BY <1>4, <1>6, <1>11, <1>14, <1>15 DEF Space

LEMMA SbrkEndSpace ==
    ASSUME Sound, NEW t \in Tasks, Space(t), sbrk_end(t)
    PROVE  Space(t)' /\ heapEnd'[t] \in Nat
<1>1. MemTypes /\ Calls /\ Point(t)
    BY DEF Sound, Calls, Call
<1>2. PICK d, a, b : d = dir[t] /\ a = heapEnd[t] /\ b = end[t]
    OBVIOUS
<1>3. /\ pc[t] = "sbrk" /\ todo[t] = <<>> /\ pc'[t] = "user" /\ heapEnd'[t] = b
      /\ a \in Nat /\ b \in Nat
      /\ UNCHANGED <<content, dir, todo>>
    BY <1>1, <1>2 DEF sbrk_end, At, Goes, MemTypes
<1>4. Grows(t) /\ Pending(t) = {}
    BY <1>3 DEF Space, Pending
<1>5. PICK x \in Nat, y \in Nat : x = Top(a) /\ y = Top(b)
    BY <1>3, TopBounds
<1>6. /\ x \in ENTRIES + 1 .. StackPage /\ x <= y /\ y <= StackPage
      /\ Mapped(d, x - 1) # None
      /\ \A v \in x .. StackPage - 1 : Mapped(d, v) # None <=> v < y
      /\ ENTRIES \in Nat /\ StackPage \in Nat
    BY <1>2, <1>4, <1>5, StackConstants, MemConstants DEF Grows
<1>7. Ends(d, b)
    <2>1. Mapped(d, y - 1) # None
        <3>1. CASE y = x
            BY <1>6, <3>1
        <3>2. CASE y # x
            <4>1. y - 1 \in x .. StackPage - 1 /\ y - 1 < y
                BY <1>6, <3>2
            <4>. QED
                BY <1>6, <4>1
        <3>. QED
            BY <3>1, <3>2
    <2>2. \A v \in y .. StackPage - 1 : v \in x .. StackPage - 1 /\ ~(v < y)
        BY <1>6
    <2>3. y \in ENTRIES + 1 .. StackPage
        BY <1>6
    <2>. QED
        BY <1>5, <1>6, <2>1, <2>2, <2>3 DEF Ends
<1>8. \A v : Mapped(d, v)' = Mapped(d, v)
    BY <1>3 DEF Mapped, TableOf
<1>9. Ends(d, b)'
    BY <1>7, <1>8, EndsKept
<1>10. Ends(dir[t], heapEnd[t])'
    BY <1>2, <1>3, <1>9
<1>11. Todo(t)'
    BY <1>3 DEF Todo
<1>. QED
    BY <1>3, <1>10, <1>11 DEF Space

(* A page that is mapped leaves the list of those still to be mapped. *)
LEMMA MapPageSpace ==
    ASSUME Sound, NEW t \in Tasks, Space(t), NEW k, MapPage(t, k)
    PROVE  Space(t)' /\ todo'[t] \in Seq(UserPages)
<1>1. MemTypes /\ Calls /\ Once /\ Point(t) /\ Holding(t) /\ Todo(t)
    BY DEF Sound, Calls, Call, Space
<1>2. PICK s \in Seq(UserPages), d \in Frames \cup {None} : s = todo[t] /\ d = new[t]
    BY <1>1 DEF MemTypes
<1>3. /\ s # <<>> /\ MapNext(t) /\ t \in alive /\ pc[t] = k
      /\ UNCHANGED <<alive, dead, dir, kstack, heapEnd, pc, new, segs, loaded, end, child, lost>>
    BY <1>2 DEF MapPage, At
<1>4. PICK n \in Nat : n = Len(s) /\ n # 0
    BY <1>3
<1>5. PICK v \in UserPages : v = Head(s) /\ v = s[1]
    BY <1>3
<1>6. PICK r \in Seq(UserPages) : /\ r = Tail(s) /\ Len(r) = n - 1
                                  /\ \A i \in 1 .. n - 1 : r[i] = s[i + 1]
    <2>1. Tail(s) \in Seq(UserPages)
        BY <1>3
    <2>2. Len(Tail(s)) = Len(s) - 1
        BY <1>3
    <2>3. \A i \in 1 .. Len(s) - 1 : Tail(s)[i] = s[i + 1]
        BY <1>3
    <2>. QED
        BY <1>4, <2>1, <2>2, <2>3
<1>7. todo'[t] = r
    BY <1>1, <1>2, <1>3, <1>6 DEF MapNext, MemTypes
<1>8. d \in Directories /\ d # None /\ \E p \in Frames : OnlyMaps(d, v, p)
    <2>1. UNCHANGED <<dir, new, pc, kstack, child, lost>> /\ todo[t] # <<>>
        BY <1>2, <1>3
    <2>. QED
        BY <1>1, <1>2, <1>3, <1>5, <2>1, MapNextExact DEF Directories
<1>9. PICK p \in Frames : OnlyMaps(d, v, p)
    BY <1>8
<1>10. p # None /\ \A w \in UserPages : Mapped(d, w)' = IF w = v THEN p ELSE Mapped(d, w)
    BY <1>8, <1>9, MemConstants DEF OnlyMaps
<1>11. /\ \A i \in 1 .. n : Mapped(d, s[i]) = None
       /\ \A i, j \in 1 .. n : s[i] = s[j] => i = j
    BY <1>1, <1>2, <1>4 DEF Todo
<1>12. \A i \in 1 .. n - 1 : i + 1 \in 1 .. n /\ r[i] # v /\ r[i] \in UserPages
    <2>1. \A i \in 1 .. n - 1 : i + 1 \in 1 .. n /\ i + 1 # 1 /\ 1 \in 1 .. n
        BY <1>4
    <2>. QED
        BY <1>4, <1>5, <1>6, <1>11, <2>1
<1>13. \A w : (\E i \in 1 .. n : s[i] = w) <=> (w = v \/ \E i \in 1 .. n - 1 : r[i] = w)
    <2>1. ASSUME NEW i \in 1 .. n, i # 1 PROVE s[i] = r[i - 1] /\ i - 1 \in 1 .. n - 1
        BY <1>6, <2>1
    <2>2. 1 \in 1 .. n
        BY <1>4
    <2>3. \A i \in 1 .. n - 1 : r[i] = s[i + 1]
        BY <1>6
    <2>4. ASSUME NEW w, NEW i \in 1 .. n, s[i] = w
          PROVE  w = v \/ \E j \in 1 .. n - 1 : r[j] = w
        BY <1>5, <2>1, <2>4
    <2>5. ASSUME NEW w, w = v \/ \E j \in 1 .. n - 1 : r[j] = w
          PROVE  \E i \in 1 .. n : s[i] = w
        BY <1>5, <1>12, <2>2, <2>3, <2>5
    <2>. QED
        BY <2>4, <2>5
<1>14. \A w : (w \in Pending(t)') <=> (w \in Pending(t) /\ w # v)
    <2>1. \A w : w \in Pending(t)' <=> \E i \in 1 .. n - 1 : r[i] = w
        BY <1>6, <1>7 DEF Pending
    <2>2. \A w : w \in Pending(t) <=> \E i \in 1 .. n : s[i] = w
        BY <1>2, <1>4 DEF Pending
    <2>. QED
        BY <1>12, <1>13, <2>1, <2>2
<1>15. v \in Pending(t)
    <2>1. 1 \in 1 .. Len(todo[t]) /\ todo[t][1] = v
        BY <1>2, <1>4, <1>5
    <2>. QED
        BY <2>1 DEF Pending
<1>16. \A w \in UserPages : (Mapped(d, w)' # None \/ w \in Pending(t)')
                              <=> (Mapped(d, w) # None \/ w \in Pending(t))
    BY <1>10, <1>14, <1>15
<1>17. Todo(t)'
    <2>. SUFFICES ASSUME NEW i \in 1 .. n - 1
                  PROVE  /\ Mapped(d, r[i])' = None
                         /\ \A j \in 1 .. n - 1 : r[i] = r[j] => i = j
        <3>1. new'[t] = d /\ todo'[t] = r /\ Len(r) = n - 1
            BY <1>2, <1>3, <1>6, <1>7
        <3>. QED
            BY <3>1 DEF Todo
    <2>1. Mapped(d, r[i])' = None
        <3>1. i + 1 \in 1 .. n /\ r[i] \in UserPages /\ r[i] # v
            BY <1>12
        <3>2. r[i] = s[i + 1]
            BY <1>6
        <3>3. Mapped(d, r[i]) = None
            BY <1>11, <3>1, <3>2
        <3>. QED
            BY <1>10, <3>1, <3>3
    <2>2. ASSUME NEW j \in 1 .. n - 1, r[i] = r[j] PROVE i = j
        <3>1. i + 1 \in 1 .. n /\ j + 1 \in 1 .. n /\ s[i + 1] = s[j + 1]
            BY <1>6, <1>12, <2>2
        <3>2. i + 1 = j + 1
            BY <1>11, <3>1
        <3>. QED
            BY <3>2
    <2>. QED
        BY <2>1, <2>2
<1>18. ASSUME t \in alive', heapEnd'[t] # 0, loaded'[t] = 0, pc'[t] # "sbrk"
       PROVE  Ends(dir[t], heapEnd[t])'
    <2>1. dir[t] # d
        BY <1>1, <1>2, <1>3, <1>8, <1>18, OneDirectory
    <2>2. \A e \in Directories, w \in UserPages : e = dir[t] => Mapped(e, w)' = Mapped(e, w)
        BY <1>9, <2>1 DEF OnlyMaps
    <2>. QED
        BY <1>1, <1>3, <1>18, <2>2, EndsStay
<1>19. ASSUME pc'[t] = "sbrk" PROVE Grows(t)'
    <2>1. Grows(t) /\ dir[t] = d /\ dir'[t] = d /\ heapEnd'[t] = heapEnd[t] /\ end'[t] = end[t]
        BY <1>1, <1>2, <1>3, <1>19 DEF Space, Point
    <2>2. PICK b : b = Top(heapEnd[t])
        OBVIOUS
    <2>3. b \in ENTRIES + 1 .. StackPage /\ ENTRIES \in Nat /\ StackPage \in Nat
        BY <2>1, <2>2, MemConstants, StackConstants DEF Grows
    <2>4. b - 1 \in UserPages /\ \A w \in b .. StackPage - 1 : w \in UserPages
        BY <2>3, StackConstants
    <2>5. Top(heapEnd[t])' = b /\ Top(end[t])' = Top(end[t])
        BY <2>1, <2>2 DEF Top
    <2>6. Mapped(d, b - 1)' # None
        BY <1>10, <2>1, <2>2, <2>4 DEF Grows
    <2>7. \A w \in b .. StackPage - 1 :
              (Mapped(d, w)' # None \/ w \in Pending(t)') <=> w < Top(end[t])
        BY <1>16, <2>1, <2>2, <2>4 DEF Grows
    <2>. QED
        BY <2>1, <2>2, <2>5, <2>6, <2>7 DEF Grows
<1>20. ASSUME pc'[t] \in {"load", "stack"} PROVE Loads(t)'
    <2>1. PICK P \in Programs :
            /\ loaded[t] + Len(segs[t]) = Len(P)
            /\ (segs[t] = <<>>) <=> (pc[t] = "stack")
            /\ \A i \in 1 .. Len(segs[t]) : segs[t][i] = P[loaded[t] + i]
            /\ loaded[t] # 0 => heapEnd[t] = P[loaded[t]].at + P[loaded[t]].size
            /\ \A w \in UserPages :
                  (Mapped(d, w) # None \/ w \in Pending(t)) <=> Reached(t, P, w)
        BY <1>1, <1>2, <1>3, <1>20 DEF Space, Loads
    <2>2. \A w : Reached(t, P, w)' <=> Reached(t, P, w)
        BY <1>3 DEF Reached
    <2>3. \A w \in UserPages :
              (Mapped(new[t], w)' # None \/ w \in Pending(t)') <=> Reached(t, P, w)'
        BY <1>2, <1>3, <1>16, <2>1, <2>2
    <2>4. UNCHANGED <<loaded, segs, pc, heapEnd>>
        BY <1>3
    <2>. QED
        BY <2>1, <2>3, <2>4 DEF Loads
<1>. QED
    BY <1>7, <1>17, <1>18, <1>19, <1>20 DEF Space

LEMMA MapPageOthers ==
    ASSUME Sound, NEW t \in Tasks, Todo(t), NEW k, MapPage(t, k),
           NEW u \in Tasks, u # t, Space(u)
    PROVE  Space(u)'
<1>1. MemTypes /\ Calls /\ Once /\ Point(t) /\ Point(u)
    BY DEF Sound, Calls, Call
<1>2. /\ todo[t] # <<>> /\ MapNext(t)
      /\ UNCHANGED <<alive, dead, dir, kstack, heapEnd, pc, new, segs, loaded, end, child, lost>>
    BY DEF MapPage, At
<1>3. PICK v \in UserPages, p \in Frames : OnlyMaps(new[t], v, p) /\ new[t] # None
    <2>1. UNCHANGED <<dir, new, pc, kstack, child, lost>>
        BY <1>2
    <2>. QED
        BY <1>2, <2>1, MapNextExact DEF Directories
<1>4. new[t] # dir[u] /\ new[t] # new[u]
    <2>1. pc[t] = "sbrk" => new[t] = dir[t]
        BY <1>1 DEF Point
    <2>2. pc[u] = "sbrk" => new[u] = dir[u]
        BY <1>1 DEF Point
    <2>3. /\ dir[t] # None /\ dir[t] = dir[u] => t = u
          /\ new[t] # None /\ pc[t] # "sbrk" /\ new[t] = new[u] => t = u
          /\ new[t] # None /\ pc[t] # "sbrk" => new[t] # dir[u]
        BY <1>1, OneDirectory
    <2>4. new[u] # None /\ pc[u] # "sbrk" => new[u] # dir[t]
        BY <1>1, OneDirectory
    <2>. QED
        BY <1>3, <2>1, <2>2, <2>3, <2>4
<1>5. \A d \in Directories, w \in UserPages :
          d = dir[u] \/ d = new[u] => Mapped(d, w)' = Mapped(d, w)
    BY <1>3, <1>4 DEF OnlyMaps
<1>6. todo'[u] = todo[u]
    BY <1>1, <1>2 DEF MapNext, MemTypes
<1>7. Keeps(u)
    BY <1>2, <1>6 DEF Keeps
<1>. QED
    BY <1>1, <1>5, <1>7, SpaceKept

(* The types. *)
LEMMA TypesKept ==
    ASSUME Sound, \A t \in Tasks : Space(t), ~HeapAfterFork, MemNext
    PROVE  MemTypes'
<1>1. MemTypes /\ Calls
    BY DEF Sound
<1>2. PICK t \in Tasks :
          \/ sys_fork(t) \/ sys_execve(t) \/ sys_sbrk(t) \/ sys_exit(t)
          \/ \E c \in Slots : sys_wait(t, c)
    BY DEF MemNext
<1>3. Space(t) /\ Todo(t) /\ Point(t)
    BY <1>1, <1>2 DEF Space, Calls, Call
<1>4. First \notin Slots /\ Slots \subseteq Tasks /\ None \notin Frames
    BY MemConstants
<1>5. {"user", "fork_dir", "fork_copy", "fork_map", "load", "stack", "sbrk"} = Points
    BY DEF Points
<1>6. ASSUME Free # {}, content' = [content EXCEPT ![Page] = NewDirectory(Page)]
      PROVE  content' \in [Frames -> [Index -> Frames \cup {None, Kernel}]]
    <2>1. PICK p : p = Page
        OBVIOUS
    <2>2. p \in Frames \ used
        BY <1>6, <2>1, PageIsFree
    <2>. QED
        BY <1>6, <2>1, <2>2, FreshFrame
<1>7. Free # {} => Page \in Frames
    BY PageIsFree
<1>8. ASSUME NEW c \in Slots, fork_stack(t, c) PROVE MemTypes'
    BY <1>1, <1>4, <1>5, <1>7, <1>8 DEF fork_stack, At, Goes, MemTypes
<1>9. ASSUME fork_dir(t) PROVE MemTypes'
    <2>1. content' \in [Frames -> [Index -> Frames \cup {None, Kernel}]] /\ Page \in Frames
        BY <1>6, <1>7, <1>9 DEF fork_dir
    <2>. QED
        BY <1>1, <1>5, <1>9, <2>1 DEF fork_dir, At, Goes, workVars, MemTypes
<1>10. ASSUME fork_copy(t) PROVE MemTypes'
    <2>1. content' \in [Frames -> [Index -> Frames \cup {None, Kernel}]] /\ Page \in Frames
        BY <1>6, <1>7, <1>10 DEF fork_copy
    <2>2. todo'[t] \in Seq(UserPages)
        BY <1>3, <1>10, ForkCopySpace
    <2>. QED
        BY <1>1, <1>5, <1>10, <2>1, <2>2 DEF fork_copy, At, Goes, MemTypes
<1>11. ASSUME NEW k, MapPage(t, k) PROVE MemTypes'
    <2>1. /\ UNCHANGED <<alive, dead, dir, kstack, heapEnd, pc, new, segs, loaded, end, child, lost>>
          /\ todo[t] # <<>> /\ MapNext(t)
        BY <1>11 DEF MapPage
    <2>2. used' \subseteq Frames /\ content' \in [Frames -> [Index -> Frames \cup {None, Kernel}]]
        BY <1>3, <2>1, MapNextExact
    <2>3. todo'[t] \in Seq(UserPages)
        BY <1>3, <1>11, MapPageSpace
    <2>4. todo' = [todo EXCEPT ![t] = todo'[t]]
        BY <1>1, <2>1 DEF MapNext, MemTypes
    <2>5. todo' \in [Tasks -> Seq(UserPages)]
        BY <1>1, <2>3, <2>4 DEF MemTypes
    <2>. QED
        BY <1>1, <2>1, <2>2, <2>5 DEF MemTypes
<1>12. ASSUME fork_end(t) PROVE MemTypes'
    <2>1. child[t] \in Slots /\ dir[child[t]] \in Frames /\ new[t] \in Frames \cup {None}
        <3>1. /\ child[t] \in Slots /\ child[t] \in Tasks
              /\ (dir[child[t]] = None) <=> (pc[t] = "fork_dir")
              /\ pc[t] = "fork_map"
            BY <1>1, <1>12, ForkingTask DEF fork_end, At, InForkAt
        <3>. QED
            BY <1>1, <3>1 DEF MemTypes
    <2>. QED
        BY <1>1, <1>4, <1>5, <1>12, <2>1 DEF fork_end, At, Goes, MemTypes
<1>13. ASSUME NEW program \in Programs, exec_start(t, program) PROVE MemTypes'
    <2>1. content' \in [Frames -> [Index -> Frames \cup {None, Kernel}]] /\ Page \in Frames
        BY <1>6, <1>7, <1>13 DEF exec_start
    <2>2. todo'[t] \in Seq(UserPages) /\ segs'[t] \in Seq(Segment)
        BY <1>3, <1>13, ExecStartSpace
    <2>. QED
        BY <1>1, <1>5, <1>13, <2>1, <2>2 DEF exec_start, At, Goes, MemTypes
<1>14. ASSUME exec_loaded(t) PROVE MemTypes'
    <2>1. /\ todo'[t] \in Seq(UserPages) /\ segs'[t] \in Seq(Segment) /\ heapEnd'[t] \in Nat
        BY <1>3, <1>14, ExecLoadedSpace
    <2>2. PICK a, r, q :
            /\ heapEnd' = [heapEnd EXCEPT ![t] = a] /\ segs' = [segs EXCEPT ![t] = r]
            /\ todo' = [todo EXCEPT ![t] = q]
        BY <1>14 DEF exec_loaded
    <2>3. heapEnd' \in [Tasks -> Nat]
        BY <1>1, <2>1, <2>2 DEF MemTypes
    <2>4. segs' \in [Tasks -> Seq(Segment)]
        BY <1>1, <2>1, <2>2 DEF MemTypes
    <2>5. todo' \in [Tasks -> Seq(UserPages)]
        BY <1>1, <2>1, <2>2 DEF MemTypes
    <2>6. loaded' \in [Tasks -> Nat]
        <3>1. loaded' = [loaded EXCEPT ![t] = loaded[t] + 1]
            BY <1>14 DEF exec_loaded
        <3>. QED
            BY <1>1, <3>1 DEF MemTypes
    <2>8. pc' \in [Tasks -> Points]
        <3>1. pc' = [pc EXCEPT ![t] = "load"] \/ pc' = [pc EXCEPT ![t] = "stack"]
            BY <1>14 DEF exec_loaded, Goes
        <3>. QED
            BY <1>1, <1>5, <3>1 DEF MemTypes
    <2>7. UNCHANGED <<used, content, alive, dead, dir, kstack, new, end, child, lost>>
        BY <1>14 DEF exec_loaded
    <2>. QED
        BY <1>1, <2>3, <2>4, <2>5, <2>6, <2>7, <2>8 DEF MemTypes
<1>15. ASSUME exec_fails(t) PROVE MemTypes'
    BY <1>1, <1>5, <1>15 DEF exec_fails, At, Goes, MemTypes
<1>16. ASSUME exec_done(t) PROVE MemTypes'
    BY <1>1, <1>5, <1>16 DEF exec_done, At, Goes, MemTypes
<1>17. ASSUME NEW incr \in 1 .. MaxIncr, sbrk_in_page(t, incr) PROVE MemTypes'
    <2>1. heapEnd'[t] \in Nat
        BY <1>3, <1>17, SbrkSpace
    <2>. QED
        BY <1>1, <1>17, <2>1 DEF sbrk_in_page, workVars, MemTypes
<1>18. ASSUME NEW incr \in 1 .. MaxIncr, sbrk_start(t, incr) PROVE MemTypes'
    <2>1. todo'[t] \in Seq(UserPages) /\ end'[t] \in Nat
        BY <1>3, <1>18, SbrkStartSpace
    <2>. QED
        BY <1>1, <1>5, <1>18, <2>1 DEF sbrk_start, Goes, MemTypes
<1>19. ASSUME sbrk_end(t) PROVE MemTypes'
    BY <1>1, <1>5, <1>19 DEF sbrk_end, Goes, MemTypes
<1>20. ASSUME sys_exit(t) PROVE MemTypes'
    BY <1>1, <1>20 DEF sys_exit, At, workVars, MemTypes
<1>21. ASSUME NEW c \in Slots, sys_wait(t, c) PROVE MemTypes'
    BY <1>1, <1>4, <1>21 DEF sys_wait, workVars, MemTypes
<1>. QED
    BY <1>2, <1>8, <1>9, <1>10, <1>11, <1>12, <1>13, <1>14, <1>15, <1>16, <1>17, <1>18, <1>19,
       <1>20, <1>21 DEF sys_fork, sys_execve, sys_sbrk

(* The spaces of all tasks. *)
LEMMA SpaceStep ==
    ASSUME Sound, \A t \in Tasks : Space(t), ~HeapAfterFork, ~LateExecFails, MemNext
    PROVE  \A u \in Tasks : Space(u)'
<1>1. PICK t \in Tasks :
          \/ sys_fork(t) \/ sys_execve(t) \/ sys_sbrk(t) \/ sys_exit(t)
          \/ \E c \in Slots : sys_wait(t, c)
    BY DEF MemNext
<1>. SUFFICES ASSUME NEW u \in Tasks PROVE Space(u)'
    OBVIOUS
<1>2. Space(t) /\ Todo(t) /\ Space(u)
    BY <1>1 DEF Space
<1>3. ASSUME NEW k, MapPage(t, k) PROVE Space(u)'
    BY <1>2, <1>3, MapPageSpace, MapPageOthers
<1>4. ASSUME ~\E k : MapPage(t, k),
             u # t \/ ~(\/ fork_copy(t) \/ \E program \in Programs : exec_start(t, program)
                        \/ exec_loaded(t) \/ exec_done(t) \/ sys_sbrk(t))
      PROVE  Space(u)'
    BY <1>1, <1>4, SpacesKept
<1>5. ASSUME u = t, \/ fork_copy(t) \/ \E program \in Programs : exec_start(t, program)
                    \/ exec_loaded(t) \/ exec_done(t)
                    \/ \E incr \in 1 .. MaxIncr : sbrk_in_page(t, incr) \/ sbrk_start(t, incr)
                    \/ sbrk_end(t)
      PROVE  Space(u)'
    BY <1>2, <1>5, ForkCopySpace, ExecStartSpace, ExecLoadedSpace, ExecDoneSpace, SbrkSpace,
       SbrkStartSpace, SbrkEndSpace
<1>6. sys_sbrk(t) => \/ \E incr \in 1 .. MaxIncr : sbrk_in_page(t, incr) \/ sbrk_start(t, incr)
                     \/ sbrk_end(t) \/ \E k : MapPage(t, k)
    BY DEF sys_sbrk
<1>. QED
    BY <1>3, <1>4, <1>5, <1>6

-----------------------------------------------------------------------------
(* The first task: a stack, a directory, a table and a page. *)

LEMMA FourFrames ==
    \E a, b, g, h \in Frames :
        /\ Sorted(Frames)[1] = a /\ Sorted(Frames)[2] = b
        /\ Sorted(Frames)[3] = g /\ Sorted(Frames)[4] = h
        /\ a # b /\ a # g /\ a # h /\ b # g /\ b # h /\ g # h
<1>1. Frames \in SUBSET Nat /\ IsFiniteSet(Frames) /\ Cardinality(Frames) >= 4
    BY MemAssumption
<1>2. PICK s : s = Sorted(Frames)
    OBVIOUS
<1>3. PICK n \in Nat : n = Cardinality(Frames) /\ n >= 4
    BY <1>1, FS_CardinalityType
<1>4. /\ s \in Seq(Frames) /\ Len(s) = n
      /\ \A i, j \in 1 .. n : s[i] = s[j] => i = j
    BY <1>1, <1>2, <1>3, SortedLists
<1>5. 1 \in 1 .. n /\ 2 \in 1 .. n /\ 3 \in 1 .. n /\ 4 \in 1 .. n
    BY <1>3
<1>6. s[1] \in Frames /\ s[2] \in Frames /\ s[3] \in Frames /\ s[4] \in Frames
    BY <1>4, <1>5
<1>7. s[1] # s[2] /\ s[1] # s[3] /\ s[1] # s[4] /\ s[2] # s[3] /\ s[2] # s[4] /\ s[3] # s[4]
    BY <1>4, <1>5
<1>. QED
    BY <1>2, <1>6, <1>7

LEMMA MemStart ==
    ASSUME MemInit
    PROVE  MemInv
<1>1. PICK a, b, g, h \in Frames :
        /\ Sorted(Frames)[1] = a /\ Sorted(Frames)[2] = b
        /\ Sorted(Frames)[3] = g /\ Sorted(Frames)[4] = h
        /\ a # b /\ a # g /\ a # h /\ b # g /\ b # h /\ g # h
    BY FourFrames
<1>2. /\ None \notin Frames /\ Kernel \notin Frames /\ Kernel # None
      /\ ENTRIES \in Nat \ {0, 1} /\ First \in Tasks
    BY MemConstants
<1>3. 0 \in Index /\ 1 \in Index /\ UserEntries \subseteq Index \ {0} /\ 1 \in UserEntries
    BY <1>2 DEF Index, UserEntries
<1>4. /\ used = {a, b, g, h} /\ alive = {First} /\ dead = {} /\ lost = {}
      /\ kstack = [t \in Tasks |-> IF t = First THEN a ELSE None]
      /\ dir = [t \in Tasks |-> IF t = First THEN b ELSE None]
      /\ content = [f \in Frames |-> CASE f = b -> [NoEntries EXCEPT ![0] = Kernel, ![1] = h]
                                       [] f = h -> [NoEntries EXCEPT ![0] = g]
                                       [] OTHER -> NoEntries]
      /\ heapEnd = [t \in Tasks |-> 0] /\ pc = [t \in Tasks |-> "user"]
      /\ new = [t \in Tasks |-> None] /\ todo = [t \in Tasks |-> <<>>]
      /\ segs = [t \in Tasks |-> <<>>] /\ loaded = [t \in Tasks |-> 0]
      /\ end = [t \in Tasks |-> 0] /\ child = [t \in Tasks |-> None]
    BY <1>1 DEF MemInit
<1>5. /\ content[b] = [NoEntries EXCEPT ![0] = Kernel, ![1] = h]
      /\ content[h] = [NoEntries EXCEPT ![0] = g]
      /\ \A f \in Frames : f # b /\ f # h => content[f] = NoEntries
    BY <1>1, <1>4
<1>6. /\ content[b][0] = Kernel
      /\ \A i \in UserEntries : content[b][i] = IF i = 1 THEN h ELSE None
      /\ \A i \in Index : content[h][i] = IF i = 0 THEN g ELSE None
    BY <1>3, <1>5 DEF NoEntries
<1>7. content \in [Frames -> [Index -> Frames \cup {None, Kernel}]]
    <2>1. /\ NoEntries \in [Index -> Frames \cup {None, Kernel}]
          /\ content[b] \in [Index -> Frames \cup {None, Kernel}]
          /\ content[h] \in [Index -> Frames \cup {None, Kernel}]
        BY <1>1, <1>3, <1>5 DEF NoEntries
    <2>2. \A f \in Frames : content[f] \in [Index -> Frames \cup {None, Kernel}]
        BY <1>5, <2>1
    <2>3. content = [f \in Frames |-> content[f]]
        BY <1>4
    <2>. QED
        BY <2>2, <2>3
<1>8. MemTypes
    <2>1. <<>> \in Seq(UserPages) /\ <<>> \in Seq(Segment) /\ "user" \in Points /\ 0 \in Nat
        BY DEF Points
    <2>2. /\ kstack \in [Tasks -> Frames \cup {None}] /\ dir \in [Tasks -> Frames \cup {None}]
          /\ new \in [Tasks -> Frames \cup {None}] /\ child \in [Tasks -> Slots \cup {None}]
        BY <1>1, <1>4
    <2>3. /\ heapEnd \in [Tasks -> Nat] /\ loaded \in [Tasks -> Nat] /\ end \in [Tasks -> Nat]
          /\ pc \in [Tasks -> Points] /\ todo \in [Tasks -> Seq(UserPages)]
          /\ segs \in [Tasks -> Seq(Segment)]
        BY <1>4, <2>1
    <2>. QED
        BY <1>1, <1>2, <1>4, <1>7, <2>2, <2>3 DEF MemTypes
<1>9. Calls
    <2>1. ASSUME NEW t \in Tasks PROVE Point(t) /\ Forking(t)
        BY <1>2, <1>4, <2>1 DEF Point, Forking, InForkAt, Builds
    <2>2. ASSUME NEW t \in Tasks PROVE Holding(t)
        BY <1>1, <1>2, <1>4, <2>2 DEF Holding
    <2>3. \A t \in Tasks : child[t] = None
        BY <1>4
    <2>. QED
        BY <2>1, <2>2, <2>3 DEF Calls, Call
<1>10. Directories = {b}
    <2>1. \A t \in Tasks : dir[t] \in {b, None} /\ new[t] = None
        BY <1>4
    <2>2. dir[First] = b
        BY <1>2, <1>4
    <2>. QED
        BY <1>1, <1>2, <2>1, <2>2 DEF Directories
<1>11. Tables
    <2>1. DirectoriesSound
        BY <1>1, <1>6, <1>10 DEF DirectoriesSound
    <2>2. BlankUntilCopied
        BY <1>4 DEF BlankUntilCopied
    <2>. QED
        BY <2>1, <2>2 DEF Tables
<1>12. ENTRIES \in UserPages /\ pde_index(ENTRIES) = 1 /\ pte_index(ENTRIES) = 0
    <2>1. ENTRIES * ENTRIES \in Nat /\ ENTRIES <= ENTRIES * ENTRIES - 1
        <3>1. ENTRIES * 1 + ENTRIES <= ENTRIES * ENTRIES
            BY <1>2, MulMono
        <3>. QED
            BY <1>2, <3>1
    <2>2. ENTRIES \in UserPages
        BY <1>2, <2>1 DEF UserPages
    <2>3. ENTRIES \div ENTRIES = 1
        BY <1>2, DivIs
    <2>4. PICK q \in Nat, r \in Nat : q = ENTRIES \div ENTRIES /\ r = ENTRIES % ENTRIES
                                      /\ ENTRIES = ENTRIES * q + r
        BY <1>2, DivDef
    <2>. QED
        BY <1>2, <2>2, <2>3, <2>4 DEF pde_index, pte_index
<1>13. \A v \in UserPages : Mapped(b, v) = IF v = ENTRIES THEN g ELSE None
    <2>. SUFFICES ASSUME NEW v \in UserPages
                  PROVE  Mapped(b, v) = IF v = ENTRIES THEN g ELSE None
        OBVIOUS
    <2>1. PICK i \in UserEntries, j \in Index : /\ i = pde_index(v) /\ j = pte_index(v)
                                               /\ v = ENTRIES * i + j
        BY PageIndices
    <2>2. /\ TableOf(b, v) = content[b][i]
          /\ TableOf(b, v) = None => Mapped(b, v) = None
          /\ TableOf(b, v) # None => Mapped(b, v) = content[TableOf(b, v)][j]
        BY <1>8, <1>10, <1>11, <2>1, MappedIs
    <2>3. v = ENTRIES <=> i = 1 /\ j = 0
        BY <1>2, <1>12, <2>1
    <2>. QED
        BY <1>1, <1>2, <1>6, <2>2, <2>3
<1>14. \A k, x, i, f : Owns(k, x, i, f) <=>
           \/ k = "stack" /\ x = First /\ i = 0 /\ f = a
           \/ k = "dir" /\ x = First /\ i = 0 /\ f = b
           \/ k = "table" /\ x = b /\ i = 1 /\ f = h
           \/ k = "page" /\ x = b /\ i = ENTRIES /\ f = g
    <2>1. \A x \in Tasks, f \in Frames :
              /\ (kstack[x] = f) <=> (x = First /\ f = a)
              /\ (dir[x] = f) <=> (x = First /\ f = b)
              /\ new[x] # f
        BY <1>1, <1>2, <1>4
    <2>2. \A x, i, f : f \in Frames => (Tabled(x, i, f) <=> x = b /\ i = 1 /\ f = h)
        BY <1>1, <1>2, <1>3, <1>6, <1>10 DEF Tabled
    <2>3. \A x, i, f : f \in Frames => (Paged(x, i, f) <=> x = b /\ i = ENTRIES /\ f = g)
        BY <1>1, <1>2, <1>10, <1>12, <1>13 DEF Paged
    <2>. QED
        BY <1>1, <1>2, <1>4, <2>1, <2>2, <2>3 DEF Owns
<1>15. Once /\ Accounted
    <2>1. Once
        BY <1>1, <1>14 DEF Once
    <2>2. Accounted
        BY <1>4, <1>14 DEF Accounted
    <2>. QED
        BY <2>1, <2>2
<1>16. ASSUME NEW t \in Tasks PROVE Space(t)
    BY <1>4, <1>16 DEF Space, Todo
<1>. QED
    BY <1>8, <1>9, <1>11, <1>15, <1>16 DEF MemInv, Sound

-----------------------------------------------------------------------------

LEMMA MemStep ==
    ASSUME ~HeapAfterFork, ~LateExecFails, MemInv, [MemNext]_vars
    PROVE  MemInv'
<1>1. Sound /\ MemTypes /\ Calls /\ \A t \in Tasks : Space(t) /\ Todo(t)
    BY DEF MemInv, Sound, Space
<1>2. CASE MemNext
    <2>1. MemTypes' /\ Calls' /\ Exact' /\ \A u \in Tasks : Space(u)'
        BY <1>1, <1>2, TypesKept, CallsKept, ExactKept, SpaceStep
    <2>. QED
        BY <2>1 DEF MemInv, Sound, Exact
<1>3. CASE UNCHANGED vars
    <2>1. /\ UNCHANGED <<used, content, alive, dead, dir, kstack, heapEnd, pc, lost>>
          /\ UNCHANGED <<new, todo, segs, loaded, end, child>>
        BY <1>3 DEF vars, workVars
    <2>2. MemTypes'
        BY <1>1, <2>1 DEF MemTypes
    <2>3. Calls'
        BY <1>1, <2>1 DEF Calls, Call, Point, Forking, Holding
    <2>4. Directories' = Directories
        BY <2>1 DEF Directories
    <2>5. Exact'
        BY <1>1, <2>1, <2>4, NoFrameMoves
    <2>6. \A d, v : Mapped(d, v)' = Mapped(d, v)
        BY <2>1 DEF Mapped, TableOf
    <2>7. ASSUME NEW u \in Tasks PROVE Space(u)'
        <3>1. Keeps(u)
            BY <2>1 DEF Keeps
        <3>. QED
            BY <1>1, <2>6, <3>1, SpaceKept
    <2>. QED
        BY <2>2, <2>3, <2>5, <2>7 DEF MemInv, Sound, Exact
<1>. QED
    BY <1>2, <1>3

\* The memory stays sound: what the calls have taken and mapped so far is what
\* they are meant to have taken and mapped, at every point between two
\* allocations.
THEOREM MemSafe ==
    ASSUME ~HeapAfterFork, ~LateExecFails
    PROVE  MemSpec => []MemInv
<1>1. MemInit => MemInv
    BY MemStart
<1>2. MemInv /\ [MemNext]_vars => MemInv'
    BY MemStep
<1>. QED
    BY <1>1, <1>2, PTL DEF MemSpec

(* The set of claims. *)
Holder(k, x, i) == IF k \in {"table", "page"} THEN <<k, <<x, i>>>> ELSE <<k, x>>

LEMMA ClaimsAre ==
    ASSUME MemTypes, Calls, Tables
    PROVE  \A c : c \in Claims <=>
              \E k, x, i, f : Owns(k, x, i, f) /\ c = [by |-> Holder(k, x, i), frame |-> f]
<1>. SUFFICES ASSUME NEW c
              PROVE  c \in Claims <=>
                       \E k, x, i, f : Owns(k, x, i, f) /\ c = [by |-> Holder(k, x, i), frame |-> f]
    OBVIOUS
<1>1. None \notin Frames
    BY MemConstants
<1>2. /\ \A d \in Directories, i \in UserEntries : content[d][i] # None => content[d][i] \in Frames
      /\ \A d \in Directories, v \in UserPages : Mapped(d, v) \in Frames \cup {None}
    BY MappedIs DEF Tables, DirectoriesSound
<1>3. c \in Claims <=>
        \/ \E t \in Tasks : kstack[t] # None /\ c = [by |-> <<"stack", t>>, frame |-> kstack[t]]
        \/ \E t \in Tasks : dir[t] # None /\ c = [by |-> <<"dir", t>>, frame |-> dir[t]]
        \/ \E t \in Tasks : /\ new[t] # None /\ pc[t] # "sbrk"
                            /\ c = [by |-> <<"new", t>>, frame |-> new[t]]
        \/ \E d \in Directories, i \in UserEntries :
              content[d][i] # None /\ c = [by |-> <<"table", <<d, i>>>>, frame |-> content[d][i]]
        \/ \E d \in Directories, v \in UserPages :
              Mapped(d, v) # None /\ c = [by |-> <<"page", <<d, v>>>>, frame |-> Mapped(d, v)]
        \/ \E f \in lost : c = [by |-> <<"lost", f>>, frame |-> f]
    BY DEF Claims
<1>4. /\ \A x, i : Holder("stack", x, i) = <<"stack", x>>
      /\ \A x, i : Holder("dir", x, i) = <<"dir", x>>
      /\ \A x, i : Holder("new", x, i) = <<"new", x>>
      /\ \A x, i : Holder("table", x, i) = <<"table", <<x, i>>>>
      /\ \A x, i : Holder("page", x, i) = <<"page", <<x, i>>>>
      /\ \A x, i : Holder("lost", x, i) = <<"lost", x>>
    BY DEF Holder
<1>5. ASSUME c \in Claims
      PROVE  \E k, x, i, f : Owns(k, x, i, f) /\ c = [by |-> Holder(k, x, i), frame |-> f]
    <2>1. ASSUME NEW t \in Tasks, kstack[t] # None, c = [by |-> <<"stack", t>>, frame |-> kstack[t]]
          PROVE  Owns("stack", t, 0, kstack[t])
                   /\ c = [by |-> Holder("stack", t, 0), frame |-> kstack[t]]
        BY <1>4, <2>1 DEF Owns, MemTypes
    <2>2. ASSUME NEW t \in Tasks, dir[t] # None, c = [by |-> <<"dir", t>>, frame |-> dir[t]]
          PROVE  Owns("dir", t, 0, dir[t]) /\ c = [by |-> Holder("dir", t, 0), frame |-> dir[t]]
        BY <1>4, <2>2 DEF Owns, MemTypes
    <2>3. ASSUME NEW t \in Tasks, new[t] # None, pc[t] # "sbrk",
                 c = [by |-> <<"new", t>>, frame |-> new[t]]
          PROVE  Owns("new", t, 0, new[t]) /\ c = [by |-> Holder("new", t, 0), frame |-> new[t]]
        BY <1>4, <2>3 DEF Owns, MemTypes
    <2>4. ASSUME NEW d \in Directories, NEW i \in UserEntries, content[d][i] # None,
                 c = [by |-> <<"table", <<d, i>>>>, frame |-> content[d][i]]
          PROVE  Owns("table", d, i, content[d][i])
                   /\ c = [by |-> Holder("table", d, i), frame |-> content[d][i]]
        BY <1>2, <1>4, <2>4 DEF Owns, Tabled
    <2>5. ASSUME NEW d \in Directories, NEW v \in UserPages, Mapped(d, v) # None,
                 c = [by |-> <<"page", <<d, v>>>>, frame |-> Mapped(d, v)]
          PROVE  Owns("page", d, v, Mapped(d, v))
                   /\ c = [by |-> Holder("page", d, v), frame |-> Mapped(d, v)]
        BY <1>2, <1>4, <2>5 DEF Owns, Paged
    <2>6. ASSUME NEW f \in lost, c = [by |-> <<"lost", f>>, frame |-> f]
          PROVE  Owns("lost", f, 0, f) /\ c = [by |-> Holder("lost", f, 0), frame |-> f]
        BY <1>4, <2>6 DEF Owns, MemTypes
    <2>. QED
        BY <1>3, <1>5, <2>1, <2>2, <2>3, <2>4, <2>5, <2>6
<1>6. ASSUME NEW k, NEW x, NEW i, NEW f, Owns(k, x, i, f),
             c = [by |-> Holder(k, x, i), frame |-> f]
      PROVE  c \in Claims
    <2>1. f # None
        BY <1>1, <1>6 DEF Owns
    <2>2. CASE k = "stack" /\ x \in Tasks /\ kstack[x] = f
        BY <1>3, <1>4, <1>6, <2>1, <2>2
    <2>3. CASE k = "dir" /\ x \in Tasks /\ dir[x] = f
        BY <1>3, <1>4, <1>6, <2>1, <2>3
    <2>4. CASE k = "new" /\ x \in Tasks /\ new[x] = f /\ pc[x] # "sbrk"
        BY <1>3, <1>4, <1>6, <2>1, <2>4
    <2>5. CASE k = "table" /\ Tabled(x, i, f)
        BY <1>3, <1>4, <1>6, <2>1, <2>5 DEF Tabled
    <2>6. CASE k = "page" /\ Paged(x, i, f)
        BY <1>3, <1>4, <1>6, <2>1, <2>6 DEF Paged
    <2>7. CASE k = "lost" /\ x = f /\ f \in lost
        BY <1>3, <1>4, <1>6, <2>7
    <2>. QED
        BY <1>6, <2>2, <2>3, <2>4, <2>5, <2>6, <2>7 DEF Owns
<1>. QED
    BY <1>5, <1>6

LEMMA SoundFrames ==
    ASSUME Sound
    PROVE  FramesExact
<1>1. MemTypes /\ Calls /\ Tables /\ Once /\ Accounted
    BY DEF Sound
<1>2. \A c : c \in Claims <=>
         \E k, x, i, f : Owns(k, x, i, f) /\ c = [by |-> Holder(k, x, i), frame |-> f]
    BY <1>1, ClaimsAre
<1>3. FramesOwnedOnce
    <2>. SUFFICES ASSUME NEW a \in Claims, NEW b \in Claims, a.frame = b.frame
                  PROVE  a = b
        BY DEF FramesOwnedOnce
    <2>1. PICK k, x, i, f : Owns(k, x, i, f) /\ a = [by |-> Holder(k, x, i), frame |-> f]
        BY <1>2
    <2>2. PICK l, y, j, e : Owns(l, y, j, e) /\ b = [by |-> Holder(l, y, j), frame |-> e]
        BY <1>2
    <2>3. e = f
        BY <2>1, <2>2
    <2>4. k = l /\ x = y /\ i = j
        BY <1>1, <2>1, <2>2, <2>3 DEF Once
    <2>. QED
        BY <2>1, <2>2, <2>3, <2>4
<1>4. FramesAccounted
    <2>1. ASSUME NEW f \in used PROVE \E a \in Claims : f = a.frame
        <3>1. PICK k, x, i : Owns(k, x, i, f)
            BY <1>1 DEF Accounted
        <3>2. PICK c : c = [by |-> Holder(k, x, i), frame |-> f]
            OBVIOUS
        <3>3. c \in Claims /\ c.frame = f
            BY <1>2, <3>1, <3>2
        <3>. QED
            BY <3>3
    <2>2. ASSUME NEW a \in Claims PROVE a.frame \in used
        <3>1. PICK k, x, i, f : Owns(k, x, i, f) /\ a = [by |-> Holder(k, x, i), frame |-> f]
            BY <1>2
        <3>2. f \in used
            BY <1>1, <3>1 DEF Accounted
        <3>. QED
            BY <3>1, <3>2
    <2>. QED
        BY <2>1, <2>2 DEF FramesAccounted
<1>5. MemTypeOK
    BY <1>1 DEF MemTypes, Tables, DirectoriesSound, MemTypeOK
<1>. QED
    BY <1>3, <1>4, <1>5 DEF FramesExact

\* In every reachable state the bitmap holds exactly the frames that something
\* still refers to, each of them once: no page, table, directory or stack is in two
\* hands, none is freed too early, and only the directory of tss_init is lost.
THEOREM FramesAreExact ==
    ASSUME ~HeapAfterFork, ~LateExecFails
    PROVE  MemSpec => []FramesExact
<1>1. MemInv => FramesExact
    BY SoundFrames DEF MemInv
<1>. QED
    BY <1>1, MemSafe, PTL

LEMMA SoundMaps ==
    ASSUME MemInv
    PROVE  MappedExactly
<1>1. MemTypes /\ Calls /\ \A t \in Tasks : Space(t) /\ Todo(t) /\ Point(t)
    BY DEF MemInv, Sound, Space, Calls, Call
<1>2. MapsOnlyUnmapped
    <2>. SUFFICES ASSUME NEW t \in Tasks, todo[t] # <<>>
                  PROVE  Mapped(new[t], Head(todo[t])) = None
        BY DEF MapsOnlyUnmapped
    <2>1. PICK s \in Seq(UserPages) : s = todo[t]
        BY <1>1 DEF MemTypes
    <2>2. Head(s) = s[1] /\ 1 \in 1 .. Len(s)
        BY <2>1
    <2>. QED
        BY <1>1, <2>1, <2>2 DEF Todo
<1>3. HeapIsMapped
    <2>. SUFFICES ASSUME NEW t \in alive, heapEnd[t] # 0, pc[t] = "user"
                  PROVE  /\ Mapped(dir[t], (heapEnd[t] - 1) \div PAGE) # None
                         /\ \A v \in (heapEnd[t] + PAGE - 1) \div PAGE .. FirstPage(Stack) - 1 :
                               Mapped(dir[t], v) = None
        BY DEF HeapIsMapped
    <2>1. PICK a \in Nat \ {0} : a = heapEnd[t]
        BY <1>1 DEF MemTypes
    <2>2. t \in Tasks /\ loaded[t] = 0
        BY <1>1 DEF MemTypes, Point
    <2>3. Ends(dir[t], a)
        BY <1>1, <2>1, <2>2 DEF Space
    <2>4. (a - 1) \div PAGE = Top(a) - 1
        BY LastByte
    <2>. QED
        BY <2>1, <2>3, <2>4 DEF Ends, Top, StackPage
<1>. QED
    BY <1>2, <1>3 DEF MappedExactly

\* ASSERT(pte->present == 0) of memory_create_map never fails, and in every reachable
\* state the pages of a process end where its heap_end says.
THEOREM MapsAreExact ==
    ASSUME ~HeapAfterFork, ~LateExecFails
    PROVE  MemSpec => []MappedExactly
<1>1. MemInv => MappedExactly
    BY SoundMaps
<1>. QED
    BY <1>1, MemSafe, PTL

(* The directory of a living task changes in its own execve only. *)
LEMMA DirectoryStays ==
    ASSUME MemTypes, Calls, NEW t \in Tasks,
           \/ sys_fork(t) \/ sys_execve(t) \/ sys_sbrk(t) \/ sys_exit(t)
           \/ \E c \in Slots : sys_wait(t, c),
           NEW u \in Tasks, u \in alive, u \in alive', pc[u] # "stack"
    PROVE  dir'[u] = dir[u]
<1>1. ASSUME pc[t] \in InForkAt PROVE child[t] # u
    BY <1>1, ForkingTask
<1>2. ASSUME fork_dir(t) PROVE dir'[u] = dir[u]
    BY <1>1, <1>2 DEF fork_dir, At, InForkAt, MemTypes
<1>3. ASSUME fork_end(t) PROVE dir'[u] = dir[u]
    BY <1>1, <1>3 DEF fork_end, At, InForkAt, MemTypes
<1>4. ASSUME exec_done(t) PROVE dir'[u] = dir[u]
    BY <1>4 DEF exec_done, At, MemTypes
<1>5. ASSUME NEW c \in Slots, sys_wait(t, c) PROVE dir'[u] = dir[u]
    BY <1>5 DEF sys_wait, MemTypes
<1>6. ASSUME \/ \E c \in Slots : fork_stack(t, c)
             \/ fork_copy(t) \/ exec_loaded(t) \/ exec_fails(t) \/ sbrk_end(t) \/ sys_exit(t)
             \/ \E program \in Programs : exec_start(t, program)
             \/ \E incr \in 1 .. MaxIncr : sbrk_in_page(t, incr) \/ sbrk_start(t, incr)
             \/ MapPage(t, "fork_map") \/ MapPage(t, "load") \/ MapPage(t, "stack")
             \/ MapPage(t, "sbrk")
      PROVE  dir' = dir
    BY <1>6 DEF fork_stack, fork_copy, exec_loaded, exec_fails, sbrk_end, sys_exit, exec_start,
                sbrk_in_page, sbrk_start, MapPage
<1>. QED
    BY <1>2, <1>3, <1>4, <1>5, <1>6 DEF sys_fork, sys_execve, sys_sbrk

LEMMA OthersStep ==
    ASSUME MemInv, MemNext, NEW u \in alive \cap alive', pc[u] \notin {"sbrk", "stack"},
           NEW v \in UserPages
    PROVE  Mapped(dir[u], v)' = Mapped(dir[u], v)
<1>1. Sound /\ MemTypes /\ Calls /\ Once /\ u \in Tasks
    BY DEF MemInv, Sound, MemTypes
<1>2. PICK t \in Tasks :
          \/ sys_fork(t) \/ sys_execve(t) \/ sys_sbrk(t) \/ sys_exit(t)
          \/ \E c \in Slots : sys_wait(t, c)
    BY DEF MemNext
<1>3. PICK d : d = dir[u]
    OBVIOUS
<1>4. dir'[u] = d
    BY <1>1, <1>2, <1>3, DirectoryStays
<1>5. d \in Directories /\ d # None
    BY <1>1, <1>3 DEF Calls, Call, Holding, Directories
<1>6. Mapped(d, v)' = Mapped(d, v)
    <2>1. CASE \A e \in Directories, w \in UserPages : Mapped(e, w)' = Mapped(e, w)
        BY <1>5, <2>1
    <2>2. ASSUME NEW k, MapPage(t, k) PROVE Mapped(d, v)' = Mapped(d, v)
        <3>1. /\ todo[t] # <<>> /\ MapNext(t) /\ UNCHANGED <<dir, new, pc, kstack, child, lost>>
            BY <2>2 DEF MapPage
        <3>2. Todo(t)
            BY DEF MemInv, Space
        <3>3. PICK w, p : OnlyMaps(new[t], w, p) /\ new[t] # None
            BY <1>1, <3>1, <3>2, MapNextExact DEF Directories
        <3>4. pc[t] = "sbrk" => new[t] = dir[t]
            BY <1>1 DEF Calls, Call, Point
        <3>5. new[t] # d
            BY <1>1, <1>3, <1>5, <3>3, <3>4, OneDirectory
        <3>. QED
            BY <1>5, <3>3, <3>5 DEF OnlyMaps
    <2>. QED
        BY <1>1, <1>2, <2>1, <2>2, MappedKept
<1>. QED
    BY <1>3, <1>4, <1>6

\* What a living process has mapped is changed by nobody else, whatever the others
\* fork, load, exit and reap meanwhile: only its own sbrk and execve do it.
THEOREM OthersAreUntouched ==
    ASSUME ~HeapAfterFork, ~LateExecFails
    PROVE  MemSpec => OthersUntouched
<1>1. ASSUME MemInv, [MemNext]_vars
      PROVE  [\A c \in alive \cap alive' :
                 pc[c] \notin {"sbrk", "stack"} =>
                     \A v \in UserPages : Mapped(dir[c], v)' = Mapped(dir[c], v)]_vars
    <2>1. CASE MemNext
        BY <1>1, <2>1, OthersStep
    <2>2. CASE UNCHANGED vars
        BY <2>2
    <2>. QED
        BY <1>1, <2>1, <2>2
<1>. QED
    BY <1>1, MemSafe, PTL DEF MemSpec, OthersUntouched

=============================================================================

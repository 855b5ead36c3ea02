----------------------------- MODULE TtyProofs ------------------------------
(***************************************************************************)
(* The safety of a terminal, for any number of tasks, any texts and fifos  *)
(* of any size.                                                            *)
(*                                                                         *)
(* The counts of places and tokens change with the set of tasks that are   *)
(* between a semaphore and its fifo.  That a step changes this set by the  *)
(* task that moves, or by the one that is woken, rests on where the        *)
(* suspended tasks are: in w_put or r_get, in the list of that semaphore.  *)
(***************************************************************************)
EXTENDS Tty, SemTheorems, FiniteSetTheorems, SequenceTheorems

AllChars == Chars \cup {"cr", "lf"}

SequencesOK ==
    /\ ofifo \in Seq(AllChars) /\ ififo \in Seq(AllChars)
    /\ screen \in Seq(AllChars) /\ written \in Seq(AllChars)
    /\ todo \in [Users -> Seq(AllChars)]
    /\ showing \in [Users -> Seq(AllChars)]
    /\ \A t \in Users : pc[t] \in {"w_take", "w_put"} => todo[t] # <<>>
    /\ \A t \in Users : pc[t] \in {"r_take", "r_get"} => len[t] \in 0 .. ReadSize - 1

\* The owner of the console's mutex is in console_write, and holds at most one
\* character.
ConsoleOwned ==
    /\ \A t \in Users : console = t <=> pc[t] \in {"c_get", "c_notify"}
    /\ \A t \in Users : showing[t] # <<>> <=> pc[t] = "c_notify"
    /\ \A t \in Users : Len(showing[t]) <= 1

\* Where the suspended tasks are.
WaitersPlaced ==
    /\ SemsOK
    /\ \A u \in Nodes(waiting["osem"]) : pc[u] = "w_put"
    /\ \A u \in Nodes(waiting["isem"]) : pc[u] = "r_get"

TtyInv ==
    /\ TtyTypeOK /\ SequencesOK /\ ConsoleOwned /\ WaitersPlaced
    /\ PlacesConserved /\ DataHasToken /\ ScreenInOrder

-----------------------------------------------------------------------------
(* Counting the tasks at a point. *)

LEMMA AwakeFinite ==
    ASSUME NEW p
    PROVE  IsFiniteSet(Awake(p)) /\ Cardinality(Awake(p)) \in Nat
<1>1. Awake(p) \in SUBSET Users /\ IsFiniteSet(Users)
    BY TtyAssumption DEF Awake
<1>. QED
    BY <1>1, FS_Subset, FS_CardinalityType

(* One task more at p. *)
LEMMA OneMore ==
    ASSUME NEW p, NEW t \in Users, ~At(t, p), At(t, p)',
           \A u \in Users : u # t => (At(u, p)' <=> At(u, p))
    PROVE  Cardinality(Awake(p)') = Cardinality(Awake(p)) + 1
<1>1. Awake(p)' = Awake(p) \cup {t} /\ t \notin Awake(p)
    BY DEF Awake
<1>. QED
    BY <1>1, AwakeFinite, FS_AddElement

(* One task less at p. *)
LEMMA OneLess ==
    ASSUME NEW p, NEW t \in Users, At(t, p), ~At(t, p)',
           \A u \in Users : u # t => (At(u, p)' <=> At(u, p))
    PROVE  /\ Cardinality(Awake(p)') = Cardinality(Awake(p)) - 1
           /\ Cardinality(Awake(p)) >= 1
<1>1. Awake(p)' = Awake(p) \ {t} /\ t \in Awake(p) /\ Awake(p) # {}
    BY DEF Awake
<1>. QED
    BY <1>1, AwakeFinite, FS_RemoveElement, FS_EmptySet

(* Nobody comes to p or leaves it. *)
LEMMA SameAwake ==
    ASSUME NEW p, \A u \in Users : At(u, p)' <=> At(u, p)
    PROVE  Awake(p)' = Awake(p)
    BY DEF Awake

-----------------------------------------------------------------------------
(* What the steps of a task and of the semaphores do to these sets. *)

(* Only tasks between a semaphore and its fifo are suspended. *)
LEMMA SuspendedAt ==
    ASSUME WaitersPlaced, NEW u, Suspended(u)
    PROVE  u \in Users /\ pc[u] \in {"w_put", "r_get"}
<1>1. u \in Users
    BY SuspendedIsUser DEF WaitersPlaced
<1>2. PICK s \in {"osem", "isem"} : u \in Nodes(waiting[s])
    BY TtyAssumption DEF Suspended
<1>. QED
    BY <1>1, <1>2 DEF WaitersPlaced

LEMMA GoesMovesOne ==
    ASSUME TtyTypeOK, NEW t \in Users, NEW q \in Points, Goes(t, q)
    PROVE  /\ pc' \in [Users -> Points]
           /\ pc'[t] = q
           /\ \A u \in Users : u # t => pc'[u] = pc[u]
    BY DEF Goes, TtyTypeOK

(* A task that touches no semaphore. *)
LEMMA Moves ==
    ASSUME TtyTypeOK, WaitersPlaced, NEW t \in Users, NEW p, NEW q \in Points, p # q,
           At(t, p), Goes(t, q), UNCHANGED semVars
    PROVE  /\ WaitersPlaced'
           /\ tokens' = tokens
           /\ Cardinality(Awake(p)') = Cardinality(Awake(p)) - 1
           /\ Cardinality(Awake(p)) >= 1
           /\ Cardinality(Awake(q)') = Cardinality(Awake(q)) + 1
           /\ \A r : r \notin {p, q} => Awake(r)' = Awake(r)
<1>1. /\ pc' \in [Users -> Points]
      /\ pc'[t] = q
      /\ \A u \in Users : u # t => pc'[u] = pc[u]
    BY GoesMovesOne
<1>2. SemsOK' /\ \A u : Suspended(u)' <=> Suspended(u)
    BY SameSems DEF WaitersPlaced
<1>3. tokens' = tokens /\ waiting' = waiting
    BY DEF semVars
<1>4. pc[t] = p /\ ~Suspended(t) /\ ~Suspended(t)'
    BY <1>2 DEF At
<1>5. WaitersPlaced'
    <2>1. \A s \in {"osem", "isem"} : \A u \in Nodes(waiting[s]) : u \in Users /\ u # t
        <3>1. \A s \in {"osem", "isem"} : \A u \in Nodes(waiting[s]) : Suspended(u)
            BY TtyAssumption DEF Suspended
        <3>. QED
            BY <3>1, <1>4, SuspendedAt
    <2>. QED
        BY <1>1, <1>2, <1>3, <2>1 DEF WaitersPlaced
<1>6. \A r : \A u \in Users : u # t => (At(u, r)' <=> At(u, r))
    BY <1>1, <1>2 DEF At
<1>7. \A r : /\ At(t, r) <=> r = p
             /\ At(t, r)' <=> r = q
    BY <1>1, <1>4 DEF At
<1>8. /\ Cardinality(Awake(p)') = Cardinality(Awake(p)) - 1
      /\ Cardinality(Awake(p)) >= 1
    BY <1>6, <1>7, OneLess
<1>9. Cardinality(Awake(q)') = Cardinality(Awake(q)) + 1
    BY <1>6, <1>7, OneMore
<1>10. ASSUME NEW r, r \notin {p, q} PROVE Awake(r)' = Awake(r)
    <2>1. \A u \in Users : At(u, r)' <=> At(u, r)
        BY <1>6, <1>7, <1>10
    <2>. QED
        BY <2>1, SameAwake
<1>. QED
    BY <1>3, <1>5, <1>8, <1>9, <1>10

\* Where the tasks stand that have come through a semaphore.
Behind(s) == IF s = "osem" THEN "w_put" ELSE "r_get"

(* A task that waits takes a token into its hands, or is suspended. *)
LEMMA WaitMoves ==
    ASSUME TtyTypeOK, WaitersPlaced, NEW s \in {"osem", "isem"}, NEW t \in Users,
           NEW p, p \notin {"w_put", "r_get"},
           At(t, p), Wait(s, t), Goes(t, Behind(s))
    PROVE  /\ WaitersPlaced'
           /\ tokens' \in [Sems -> Nat]
           /\ \A r \in {"osem", "isem"} : r # s => tokens'[r] = tokens[r]
           /\ tokens'[s] + Cardinality(Awake(Behind(s))') = tokens[s] + Cardinality(Awake(Behind(s)))
           /\ \A r : r \notin {p, Behind(s)} => Awake(r)' = Awake(r)
<1>. DEFINE q == Behind(s)
<1>1. q \in Points /\ q # p
    BY DEF Points, Behind
<1>2. /\ pc' \in [Users -> Points]
      /\ pc'[t] = q
      /\ \A u \in Users : u # t => pc'[u] = pc[u]
    BY <1>1, GoesMovesOne
<1>3. pc[t] = p /\ ~Suspended(t) /\ s \in Sems
    BY TtyAssumption DEF At
<1>4. \A r \in {"osem", "isem"} : \A u \in Nodes(waiting[r]) : u \in Users /\ u # t
    <2>1. \A r \in {"osem", "isem"} : \A u \in Nodes(waiting[r]) : Suspended(u)
        BY TtyAssumption DEF Suspended
    <2>. QED
        BY <2>1, <1>3, SuspendedAt
<1>5. tokens[s] \in Nat /\ Cardinality(Awake(q)) \in Nat
    BY AwakeFinite, <1>3 DEF TtyTypeOK
<1>6. CASE Take(s, t)
    <2>1. /\ SemsOK'
          /\ \A u : Suspended(u)' <=> Suspended(u)
          /\ tokens[s] \in Nat \ {0}
          /\ tokens' = [tokens EXCEPT ![s] = tokens[s] - 1]
          /\ waiting' = waiting
        BY <1>3, <1>6, TakeSuspendsNobody DEF WaitersPlaced
    <2>2. WaitersPlaced'
        BY <1>2, <1>4, <2>1 DEF WaitersPlaced
    <2>3. \A r : \A u \in Users : u # t => (At(u, r)' <=> At(u, r))
        BY <1>2, <2>1 DEF At
    <2>4. \A r : /\ At(t, r) <=> r = p
                 /\ At(t, r)' <=> r = q
        BY <1>2, <1>3, <2>1 DEF At
    <2>5. Cardinality(Awake(q)') = Cardinality(Awake(q)) + 1
        BY <1>1, <2>3, <2>4, OneMore
    <2>6. ASSUME NEW r, r \notin {p, q} PROVE Awake(r)' = Awake(r)
        <3>1. \A u \in Users : At(u, r)' <=> At(u, r)
            BY <2>3, <2>4, <2>6
        <3>. QED
            BY <3>1, SameAwake
    <2>7. /\ tokens' \in [Sems -> Nat]
          /\ \A r \in {"osem", "isem"} : r # s => tokens'[r] = tokens[r]
          /\ tokens'[s] = tokens[s] - 1
        BY <1>3, <2>1, TtyAssumption, SMTT(30) DEF TtyTypeOK
    <2>8. tokens'[s] + Cardinality(Awake(q)') = tokens[s] + Cardinality(Awake(q))
        BY <1>5, <2>5, <2>7
    <2>. QED
        BY <2>2, <2>6, <2>7, <2>8
<1>7. CASE Queue(s, t)
    <2>1. /\ SemsOK'
          /\ Suspended(t)'
          /\ \A u : u # t => (Suspended(u)' <=> Suspended(u))
          /\ tokens' = tokens
          /\ Nodes(waiting'[s]) = Nodes(waiting[s]) \cup {t}
          /\ \A r \in Sems : r # s => waiting'[r] = waiting[r]
        BY <1>3, <1>7, QueueSuspends DEF WaitersPlaced
    <2>2. WaitersPlaced'
        <3>1. \A r \in {"osem", "isem"} : \A u \in Nodes(waiting[r]) : pc[u] = Behind(r)
            BY DEF WaitersPlaced, Behind
        <3>2. \A r \in {"osem", "isem"} : \A u \in Nodes(waiting[r]) : pc'[u] = Behind(r)
            BY <3>1, <1>2, <1>4
        <3>3. \A r \in {"osem", "isem"} : \A u \in Nodes(waiting'[r]) :
                  u \in Nodes(waiting[r]) \/ (u = t /\ r = s)
            BY <2>1, TtyAssumption
        <3>4. \A r \in {"osem", "isem"} : \A u \in Nodes(waiting'[r]) : pc'[u] = Behind(r)
            BY <3>2, <3>3, <1>2
        <3>. QED
            BY <3>4, <2>1 DEF WaitersPlaced, Behind
    <2>3. \A r : r # p => \A u \in Users : At(u, r)' <=> At(u, r)
        BY <1>2, <1>3, <2>1 DEF At
    <2>4. \A r : r # p => Awake(r)' = Awake(r)
        BY <2>3, SameAwake
    <2>. QED
        BY <1>1, <2>1, <2>2, <2>4 DEF TtyTypeOK
<1>. QED
    BY <1>6, <1>7 DEF Wait

(* A token posted is kept, or wakes one task behind that semaphore. *)
LEMMA PostMoves ==
    ASSUME TtyTypeOK, WaitersPlaced, NEW s \in {"osem", "isem"}, Post(s),
           \A u \in Users : pc'[u] = pc[u] \/ {pc[u], pc'[u]} \cap {"w_put", "r_get"} = {}
    PROVE  /\ WaitersPlaced'
           /\ tokens' \in [Sems -> Nat]
           /\ \A r \in {"osem", "isem"} : r # s => tokens'[r] = tokens[r]
           /\ tokens'[s] + Cardinality(Awake(Behind(s))') = tokens[s] + Cardinality(Awake(Behind(s))) + 1
           /\ \A r \in {"osem", "isem"} : r # s => Awake(Behind(r))' = Awake(Behind(r))
<1>. DEFINE q == Behind(s)
<1>1. s \in Sems /\ q \in {"w_put", "r_get"}
    BY TtyAssumption DEF Behind
<1>2. \A r \in {"osem", "isem"} : \A u \in Nodes(waiting[r]) :
          u \in Users /\ pc[u] = Behind(r) /\ pc'[u] = Behind(r)
    <2>1. \A r \in {"osem", "isem"} : \A u \in Nodes(waiting[r]) : Suspended(u)
        BY TtyAssumption DEF Suspended
    <2>2. \A r \in {"osem", "isem"} : \A u \in Nodes(waiting[r]) : u \in Users /\ pc[u] = Behind(r)
        BY <2>1, SuspendedAt DEF WaitersPlaced, Behind
    <2>. QED
        BY <2>2 DEF Behind
<1>3. tokens[s] \in Nat /\ Cardinality(Awake(q)) \in Nat
    BY AwakeFinite, <1>1 DEF TtyTypeOK
<1>4. \A r \in {"w_put", "r_get"} : \A u \in Users : pc'[u] = r <=> pc[u] = r
    OBVIOUS
<1>5. CASE waiting[s] = <<>>
    <2>1. /\ SemsOK'
          /\ \A u : Suspended(u)' <=> Suspended(u)
          /\ tokens' = [tokens EXCEPT ![s] = tokens[s] + 1]
          /\ waiting' = waiting
        BY <1>1, <1>5, PostKeepsToken DEF WaitersPlaced
    <2>2. WaitersPlaced'
        BY <1>2, <2>1 DEF WaitersPlaced, Behind
    <2>3. \A r \in {"w_put", "r_get"} : \A u \in Users : At(u, r)' <=> At(u, r)
        BY <1>4, <2>1 DEF At
    <2>4. \A r \in {"w_put", "r_get"} : Awake(r)' = Awake(r)
        BY <2>3, SameAwake
    <2>5. /\ tokens' \in [Sems -> Nat]
          /\ \A r \in {"osem", "isem"} : r # s => tokens'[r] = tokens[r]
          /\ tokens'[s] = tokens[s] + 1
        BY <1>1, <2>1, TtyAssumption DEF TtyTypeOK
    <2>6. \A r \in {"osem", "isem"} : Awake(Behind(r))' = Awake(Behind(r))
        BY <2>4 DEF Behind
    <2>. QED
        BY <1>3, <2>2, <2>5, <2>6
<1>6. CASE waiting[s] # <<>>
    <2>0. PICK w : w = list_first(waiting[s])
        OBVIOUS
    <2>1. /\ SemsOK'
          /\ w \in Users
          /\ w \in Nodes(waiting[s])
          /\ ~Suspended(w)'
          /\ \A u : u # w => (Suspended(u)' <=> Suspended(u))
          /\ tokens' = tokens
          /\ Nodes(waiting'[s]) = Nodes(waiting[s]) \ {w}
          /\ \A r \in Sems : r # s => waiting'[r] = waiting[r]
        BY <1>1, <1>6, <2>0, PostWakesFirst DEF WaitersPlaced
    <2>2. WaitersPlaced'
        <3>1. \A r \in {"osem", "isem"} : \A u \in Nodes(waiting'[r]) : u \in Nodes(waiting[r])
            BY <2>1, TtyAssumption
        <3>2. \A r \in {"osem", "isem"} : \A u \in Nodes(waiting'[r]) : pc'[u] = Behind(r)
            BY <3>1, <1>2
        <3>. QED
            BY <3>2, <2>1 DEF WaitersPlaced, Behind
    <2>3. pc[w] = q /\ pc'[w] = q /\ Suspended(w)
        BY <1>1, <1>2, <2>1 DEF Suspended
    <2>4. \A r \in {"w_put", "r_get"} : \A u \in Users : u # w => (At(u, r)' <=> At(u, r))
        BY <1>4, <2>1 DEF At
    <2>5. ~At(w, q) /\ At(w, q)'
        BY <2>1, <2>3 DEF At
    <2>6. Cardinality(Awake(q)') = Cardinality(Awake(q)) + 1
        BY <1>1, <2>1, <2>4, <2>5, OneMore
    <2>7. ASSUME NEW r \in {"osem", "isem"}, r # s PROVE Awake(Behind(r))' = Awake(Behind(r))
        <3>1. Behind(r) \in {"w_put", "r_get"} /\ Behind(r) # q
            BY <2>7 DEF Behind
        <3>2. ~At(w, Behind(r)) /\ ~At(w, Behind(r))'
            BY <2>3, <3>1 DEF At
        <3>3. \A u \in Users : At(u, Behind(r))' <=> At(u, Behind(r))
            BY <2>4, <3>1, <3>2
        <3>. QED
            BY <3>3, SameAwake
    <2>8. tokens'[s] + Cardinality(Awake(q)') = tokens[s] + Cardinality(Awake(q)) + 1
        BY <1>3, <2>1, <2>6
    <2>9. tokens' \in [Sems -> Nat] /\ \A r \in {"osem", "isem"} : r # s => tokens'[r] = tokens[r]
        BY <2>1 DEF TtyTypeOK
    <2>. QED
        BY <2>2, <2>7, <2>8, <2>9
<1>. QED
    BY <1>5, <1>6

(* Everything outside console_write leaves the screen and its owner alone. *)
LEMMA ConsoleKept ==
    ASSUME TtyTypeOK, ConsoleOwned, ScreenInOrder,
           UNCHANGED <<ofifo, console, screen, showing, written>>,
           \A u \in Users : pc'[u] = pc[u] \/ {pc[u], pc'[u]} \cap {"c_get", "c_notify"} = {}
    PROVE  ConsoleOwned' /\ ScreenInOrder'
<1>1. ScreenInOrder'
    BY DEF ScreenInOrder
<1>2. \A u \in Users : /\ pc'[u] \in {"c_get", "c_notify"} <=> pc[u] \in {"c_get", "c_notify"}
                       /\ pc'[u] = "c_notify" <=> pc[u] = "c_notify"
    OBVIOUS
<1>3. ConsoleOwned'
    BY <1>2 DEF ConsoleOwned
<1>. QED
    BY <1>1, <1>3

LEMMA SemTypes ==
    ASSUME WaitersPlaced'
    PROVE  tokens' \in [Sems -> Nat] /\ waiting' \in [Sems -> Seq(Users)]
    BY DEF WaitersPlaced, SemsOK

(* The numbers the counts are made of. *)
LEMMA CountTypes ==
    ASSUME TtyTypeOK
    PROVE  /\ tokens["osem"] \in Nat /\ tokens["isem"] \in Nat
           /\ \A p : Cardinality(Awake(p)) \in Nat
           /\ OBUF_SIZE \in Nat \ {0} /\ IBUF_SIZE \in Nat \ {0}
    BY AwakeFinite, TtyAssumption DEF TtyTypeOK

-----------------------------------------------------------------------------
(* tty_write *)

LEMMA TtyWriteInv ==
    ASSUME TtyInv, NEW t \in Users, NEW text \in Lines, tty_write(t, text)
    PROVE  TtyInv'
<1>. USE DEF TtyInv
<1>1. /\ At(t, "user") /\ Goes(t, "w_take") /\ UNCHANGED semVars
      /\ "w_take" \in Points
    BY DEF tty_write, Points
<1>2. /\ pc' \in [Users -> Points]
      /\ pc[t] = "user" /\ pc'[t] = "w_take"
      /\ \A u \in Users : u # t => pc'[u] = pc[u]
    BY <1>1, GoesMovesOne DEF At
<1>3. /\ WaitersPlaced'
      /\ tokens' = tokens
      /\ \A r \in {"w_put", "c_notify", "r_get"} : Awake(r)' = Awake(r)
    BY <1>1, Moves
<1>4. PlacesConserved' /\ DataHasToken'
    BY <1>3 DEF PlacesConserved, DataHasToken, tty_write
<1>5. ConsoleOwned' /\ ScreenInOrder'
    BY <1>2, ConsoleKept DEF tty_write
<1>6. text \in Seq(AllChars) /\ text # <<>>
    <2>1. text \in Seq(Chars) /\ text # <<>>
        BY TtyAssumption
    <2>. QED
        BY <2>1 DEF AllChars
<1>7. SequencesOK'
    BY <1>2, <1>6 DEF SequencesOK, tty_write
<1>8. TtyTypeOK'
    <2>1. writesLeft' \in 0 .. MaxWrites
        BY TtyAssumption DEF TtyTypeOK, tty_write
    <2>. QED
        BY <1>2, <1>3, <2>1, SemTypes DEF TtyTypeOK, tty_write
<1>. QED
    BY <1>3, <1>4, <1>5, <1>7, <1>8

LEMMA WTakeInv ==
    ASSUME TtyInv, NEW t \in Users, w_take(t)
    PROVE  TtyInv'
<1>. USE DEF TtyInv
<1>1. At(t, "w_take") /\ Wait("osem", t) /\ Goes(t, Behind("osem")) /\ Behind("osem") = "w_put"
    BY DEF w_take, Behind
<1>2. /\ pc' \in [Users -> Points]
      /\ pc[t] = "w_take" /\ pc'[t] = "w_put"
      /\ \A u \in Users : u # t => pc'[u] = pc[u]
    <2>1. "w_put" \in Points
        BY DEF Points
    <2>. QED
        BY <1>1, <2>1, GoesMovesOne DEF At
<1>3. /\ WaitersPlaced'
      /\ tokens' \in [Sems -> Nat]
      /\ tokens'["isem"] = tokens["isem"]
      /\ tokens'["osem"] + Cardinality(Awake("w_put")') = tokens["osem"] + Cardinality(Awake("w_put"))
      /\ Awake("c_notify")' = Awake("c_notify")
      /\ Awake("r_get")' = Awake("r_get")
    BY <1>1, WaitMoves
<1>4. PlacesConserved'
    BY <1>3, CountTypes DEF PlacesConserved, w_take
<1>5. DataHasToken'
    BY <1>3 DEF DataHasToken, w_take
<1>6. ConsoleOwned' /\ ScreenInOrder'
    BY <1>2, ConsoleKept DEF w_take
<1>7. SequencesOK'
    BY <1>2 DEF SequencesOK, w_take
<1>8. TtyTypeOK'
    BY <1>2, <1>3, SemTypes DEF TtyTypeOK, w_take
<1>. QED
    BY <1>3, <1>4, <1>5, <1>6, <1>7, <1>8

(* A character of a text and what is left of the text after it. *)
LEMMA NextAndRest ==
    ASSUME NEW q \in Seq(AllChars), q # <<>>
    PROVE  NextChar(q) \in AllChars /\ Rest(q) \in Seq(AllChars)
<1>1. Head(q) \in AllChars /\ Tail(q) \in Seq(AllChars)
    OBVIOUS
<1>2. "cr" \in AllChars /\ "lf" \in AllChars
    BY DEF AllChars
<1>3. <<"lf">> \o Tail(q) \in Seq(AllChars)
    BY <1>1, <1>2
<1>. QED
    BY <1>1, <1>2, <1>3 DEF NextChar, Rest

(* The fifo has room for a task that has a place. *)
LEMMA WPutInv ==
    ASSUME TtyInv, NEW t \in Users, w_put(t)
    PROVE  TtyInv'
<1>. USE DEF TtyInv
<1>. DEFINE c == NextChar(todo[t])
<1>0. PICK q : q = IF Rest(todo[t]) = <<>> THEN "c_lock" ELSE "w_take"
    OBVIOUS
<1>1. At(t, "w_put") /\ UNCHANGED semVars /\ q \in Points \ {"w_put", "c_notify", "r_get", "c_get", "r_take"}
    BY <1>0 DEF w_put, Points
<1>2. todo[t] \in Seq(AllChars) /\ todo[t] # <<>>
    BY <1>1 DEF At, SequencesOK
<1>3. c \in AllChars /\ Rest(todo[t]) \in Seq(AllChars)
    BY <1>2, NextAndRest
<1>4. t \in Awake("w_put")
    BY <1>1 DEF Awake
<1>5. Len(ofifo) < OBUF_SIZE
    <2>1. Cardinality(Awake("w_put")) # 0
        BY <1>4, AwakeFinite, FS_EmptySet
    <2>2. Len(ofifo) \in Nat
        BY DEF SequencesOK
    <2>. QED
        BY <2>1, <2>2, CountTypes DEF PlacesConserved
<1>. HIDE DEF c
<1>6. /\ ofifo' = Append(ofifo, c)
      /\ ofifo' # ofifo
      /\ ofifo' \in Seq(AllChars)
      /\ Len(ofifo') = Len(ofifo) + 1
    <2>1. ofifo' = Append(ofifo, c)
        BY <1>5, CountTypes DEF w_put, tty_fifo_put, SequencesOK, c
    <2>2. ofifo \in Seq(AllChars)
        BY DEF SequencesOK
    <2>3. Len(Append(ofifo, c)) = Len(ofifo) + 1
        BY <2>2, <1>3
    <2>. QED
        BY <2>1, <2>2, <2>3, <1>3
<1>7. /\ written' = Append(written, c)
      /\ todo' = [todo EXCEPT ![t] = Rest(todo[t])]
      /\ Goes(t, q)
    BY <1>0, <1>6 DEF w_put, c
<1>8. /\ pc' \in [Users -> Points]
      /\ pc[t] = "w_put" /\ pc'[t] = q
      /\ \A u \in Users : u # t => pc'[u] = pc[u]
    BY <1>1, <1>7, GoesMovesOne DEF At
<1>9. /\ WaitersPlaced'
      /\ tokens' = tokens
      /\ Cardinality(Awake("w_put")') = Cardinality(Awake("w_put")) - 1
      /\ Awake("c_notify")' = Awake("c_notify")
      /\ Awake("r_get")' = Awake("r_get")
    <2>1. TtyTypeOK /\ WaitersPlaced
        OBVIOUS
    <2>2. /\ WaitersPlaced' /\ tokens' = tokens
          /\ Cardinality(Awake("w_put")') = Cardinality(Awake("w_put")) - 1
          /\ \A r : r \notin {"w_put", q} => Awake(r)' = Awake(r)
        BY ONLY <2>1, <1>1, <1>7, Moves, t \in Users
    <2>. QED
        BY <1>1, <2>2
<1>10. PlacesConserved'
    <2>1. /\ tokens["osem"] + Cardinality(Awake("w_put")) + Len(ofifo) + Cardinality(Awake("c_notify"))
                 = OBUF_SIZE
          /\ Len(ofifo) \in Nat
        BY DEF PlacesConserved, SequencesOK
    <2>2. tokens'["osem"] + Cardinality(Awake("w_put")') + Len(ofifo') + Cardinality(Awake("c_notify")')
              = OBUF_SIZE
        <3>1. /\ tokens["osem"] \in Nat /\ Cardinality(Awake("w_put")) \in Nat
              /\ Cardinality(Awake("c_notify")) \in Nat /\ OBUF_SIZE \in Nat
            BY CountTypes
        <3>2. /\ tokens'["osem"] = tokens["osem"]
              /\ Cardinality(Awake("c_notify")') = Cardinality(Awake("c_notify"))
            BY <1>9
        <3>. QED
            BY ONLY <1>6, <1>9, <2>1, <3>1, <3>2, SMTT(30)
    <2>. QED
        BY <2>2 DEF PlacesConserved
<1>11. DataHasToken'
    <2>1. ififo' = ififo /\ Len(ififo) <= tokens["isem"] + Cardinality(Awake("r_get"))
        BY DEF w_put, DataHasToken
    <2>2. tokens'["isem"] = tokens["isem"] /\ Cardinality(Awake("r_get")') = Cardinality(Awake("r_get"))
        BY ONLY <1>9
    <2>3. Len(ififo') <= tokens'["isem"] + Cardinality(Awake("r_get")')
        BY ONLY <2>1, <2>2
    <2>. QED
        BY ONLY <2>3 DEF DataHasToken
<1>12. ConsoleOwned'
    BY <1>1, <1>8 DEF ConsoleOwned, w_put
<1>13. ScreenInOrder'
    <2>. DEFINE sh == IF console = None THEN <<>> ELSE showing[console]
    <2>1. sh \in Seq(AllChars) /\ screen \in Seq(AllChars) /\ ofifo \in Seq(AllChars)
        BY DEF SequencesOK, TtyTypeOK
    <2>2. screen \o sh \o ofifo = written
        BY DEF ScreenInOrder
    <2>. HIDE DEF sh
    <2>3. screen \o sh \o Append(ofifo, c) = Append(screen \o sh \o ofifo, c)
        BY <1>3, <2>1
    <2>4. screen \o sh \o ofifo' = written'
        BY <1>6, <1>7, <2>2, <2>3
    <2>. QED
        BY <2>4 DEF ScreenInOrder, sh, w_put
<1>14. SequencesOK'
    <2>1. todo' \in [Users -> Seq(AllChars)]
        BY <1>3, <1>7 DEF SequencesOK
    <2>2. written' \in Seq(AllChars)
        BY <1>3, <1>7 DEF SequencesOK
    <2>3. \A u \in Users : pc'[u] \in {"w_take", "w_put"} => todo'[u] # <<>>
        BY <1>0, <1>7, <1>8 DEF SequencesOK
    <2>4. \A u \in Users : pc'[u] \in {"r_take", "r_get"} => len'[u] \in 0 .. ReadSize - 1
        BY <1>1, <1>8 DEF SequencesOK, w_put
    <2>. QED
        BY <1>6, <2>1, <2>2, <2>3, <2>4 DEF SequencesOK, w_put
<1>15. TtyTypeOK'
    <2>1. Len(ofifo') <= OBUF_SIZE
        BY <1>5, <1>6, CountTypes DEF SequencesOK
    <2>. QED
        BY <1>8, <1>9, <2>1, SemTypes DEF TtyTypeOK, w_put
<1>. QED
    BY <1>9, <1>10, <1>11, <1>12, <1>13, <1>14, <1>15

-----------------------------------------------------------------------------
(* console_write *)

LEMMA CLockInv ==
    ASSUME TtyInv, NEW t \in Users, c_lock(t)
    PROVE  TtyInv'
<1>. USE DEF TtyInv
<1>1. /\ At(t, "c_lock") /\ Goes(t, "c_get") /\ UNCHANGED semVars
      /\ "c_get" \in Points
    BY DEF c_lock, Points
<1>2. /\ pc' \in [Users -> Points]
      /\ pc[t] = "c_lock" /\ pc'[t] = "c_get"
      /\ \A u \in Users : u # t => pc'[u] = pc[u]
    BY <1>1, GoesMovesOne DEF At
<1>3. /\ WaitersPlaced'
      /\ tokens' = tokens
      /\ \A r \in {"w_put", "c_notify", "r_get"} : Awake(r)' = Awake(r)
    BY <1>1, Moves
<1>4. PlacesConserved' /\ DataHasToken'
    BY <1>3 DEF PlacesConserved, DataHasToken, c_lock
<1>5. console = None /\ console' = t /\ showing' = showing
    BY DEF c_lock
<1>6. \A u \in Users : pc[u] \notin {"c_get", "c_notify"}
    BY <1>5, TtyAssumption DEF ConsoleOwned
<1>7. showing[t] = <<>>
    BY <1>2 DEF ConsoleOwned
<1>8. ConsoleOwned'
    BY <1>2, <1>5, <1>6 DEF ConsoleOwned
<1>9. ScreenInOrder'
    BY <1>5, <1>6, <1>7, TtyAssumption DEF ScreenInOrder, ConsoleOwned, c_lock
<1>10. SequencesOK'
    BY <1>2 DEF SequencesOK, c_lock
<1>11. TtyTypeOK'
    BY <1>2, <1>3, SemTypes DEF TtyTypeOK, c_lock
<1>. QED
    BY <1>3, <1>4, <1>8, <1>9, <1>10, <1>11

LEMMA CGetInv ==
    ASSUME TtyInv, NEW t \in Users, c_get(t)
    PROVE  TtyInv'
<1>. USE DEF TtyInv
<1>1. /\ At(t, "c_get") /\ Goes(t, "c_notify") /\ UNCHANGED semVars
      /\ "c_notify" \in Points
    BY DEF c_get, Points
<1>2. /\ pc' \in [Users -> Points]
      /\ pc[t] = "c_get" /\ pc'[t] = "c_notify"
      /\ \A u \in Users : u # t => pc'[u] = pc[u]
    BY <1>1, GoesMovesOne DEF At
<1>3. /\ WaitersPlaced'
      /\ tokens' = tokens
      /\ Cardinality(Awake("c_notify")') = Cardinality(Awake("c_notify")) + 1
      /\ Awake("w_put")' = Awake("w_put")
      /\ Awake("r_get")' = Awake("r_get")
    <2>1. TtyTypeOK /\ WaitersPlaced /\ "c_get" # "c_notify"
        OBVIOUS
    <2>2. /\ WaitersPlaced' /\ tokens' = tokens
          /\ Cardinality(Awake("c_notify")') = Cardinality(Awake("c_notify")) + 1
          /\ \A r : r \notin {"c_get", "c_notify"} => Awake(r)' = Awake(r)
        BY ONLY <2>1, <1>1, Moves, t \in Users
    <2>. QED
        BY <2>2
<1>4. /\ console = t /\ console' = t /\ t # None
      /\ showing[t] = <<>>
    BY <1>2, TtyAssumption DEF ConsoleOwned, c_get
<1>5. ofifo \in Seq(AllChars) /\ ofifo # <<>>
    BY DEF SequencesOK, c_get
<1>6. /\ ofifo' = Tail(ofifo)
      /\ showing' = [showing EXCEPT ![t] = <<Head(ofifo)>>]
      /\ screen' = screen /\ written' = written
    BY <1>5 DEF c_get, tty_fifo_get
<1>7. /\ Head(ofifo) \in AllChars
      /\ Tail(ofifo) \in Seq(AllChars)
      /\ Len(Tail(ofifo)) = Len(ofifo) - 1
      /\ Len(ofifo) \in Nat
    BY <1>5
<1>8. PlacesConserved'
    <2>1. /\ tokens["osem"] + Cardinality(Awake("w_put")) + Len(ofifo) + Cardinality(Awake("c_notify"))
                 = OBUF_SIZE
          /\ Len(ofifo') = Len(ofifo) - 1
          /\ Len(ofifo) \in Nat
        BY <1>6, <1>7 DEF PlacesConserved
    <2>2. tokens'["osem"] + Cardinality(Awake("w_put")') + Len(ofifo') + Cardinality(Awake("c_notify")')
              = OBUF_SIZE
        <3>1. /\ tokens["osem"] \in Nat /\ Cardinality(Awake("w_put")) \in Nat
              /\ Cardinality(Awake("c_notify")) \in Nat /\ OBUF_SIZE \in Nat
            BY CountTypes
        <3>2. /\ tokens'["osem"] = tokens["osem"]
              /\ Cardinality(Awake("w_put")') = Cardinality(Awake("w_put"))
            BY <1>3
        <3>3. /\ Cardinality(Awake("c_notify")') = Cardinality(Awake("c_notify")) + 1
              /\ Cardinality(Awake("c_notify")') \in Nat
            BY <1>3, <3>1
        <3>. QED
            BY ONLY <2>1, <3>1, <3>2, <3>3, SMTT(30)
    <2>. QED
        BY <2>2 DEF PlacesConserved
<1>9. DataHasToken'
    BY <1>3 DEF DataHasToken, c_get
<1>10. /\ showing' \in [Users -> Seq(AllChars)]
       /\ showing'[t] = <<Head(ofifo)>>
       /\ \A u \in Users : u # t => showing'[u] = showing[u]
    BY <1>6, <1>7 DEF SequencesOK
<1>11. ConsoleOwned'
    <2>1. showing'[t] # <<>> /\ Len(showing'[t]) <= 1
        BY <1>10
    <2>2. \A u \in Users : console' = u <=> pc'[u] \in {"c_get", "c_notify"}
        BY <1>2, <1>4 DEF ConsoleOwned
    <2>3. \A u \in Users : showing'[u] # <<>> <=> pc'[u] = "c_notify"
        BY <1>2, <1>10, <2>1 DEF ConsoleOwned
    <2>4. \A u \in Users : Len(showing'[u]) <= 1
        BY <1>10, <2>1 DEF ConsoleOwned
    <2>. QED
        BY <2>2, <2>3, <2>4 DEF ConsoleOwned
<1>12. ScreenInOrder'
    <2>1. screen \o <<>> \o ofifo = written
        BY <1>4 DEF ScreenInOrder
    <2>2. screen \in Seq(AllChars)
        BY DEF SequencesOK
    <2>3. screen \o <<Head(ofifo)>> \o Tail(ofifo) = screen \o <<>> \o ofifo
        BY <1>5, <2>2
    <2>4. screen' \o (IF console' = None THEN <<>> ELSE showing'[console']) \o ofifo' = written'
        BY <1>4, <1>6, <1>10, <2>1, <2>3
    <2>5. \A u \in Users : showing'[u] # <<>> => u = console'
        BY <1>4, <1>10 DEF ScreenInOrder
    <2>. QED
        BY <2>4, <2>5 DEF ScreenInOrder
<1>13. SequencesOK'
    BY <1>2, <1>6, <1>7, <1>10 DEF SequencesOK, c_get
<1>14. TtyTypeOK'
    <2>1. Len(ofifo') <= OBUF_SIZE
        BY <1>6, <1>7, CountTypes DEF TtyTypeOK
    <2>. QED
        BY <1>2, <1>3, <2>1, SemTypes DEF TtyTypeOK, c_get
<1>. QED
    BY <1>3, <1>8, <1>9, <1>11, <1>12, <1>13, <1>14

(* The place a character had in the fifo goes back to the semaphore. *)
LEMMA CNotifyInv ==
    ASSUME TtyInv, NEW t \in Users, c_notify(t)
    PROVE  TtyInv'
<1>. USE DEF TtyInv
<1>1. At(t, "c_notify") /\ Goes(t, "c_get") /\ Post("osem") /\ "c_get" \in Points
    BY DEF c_notify, Points
<1>2. /\ pc' \in [Users -> Points]
      /\ pc[t] = "c_notify" /\ pc'[t] = "c_get"
      /\ \A u \in Users : u # t => pc'[u] = pc[u]
    BY <1>1, GoesMovesOne DEF At
<1>3. /\ WaitersPlaced'
      /\ tokens' \in [Sems -> Nat]
      /\ tokens'["isem"] = tokens["isem"]
      /\ tokens'["osem"] + Cardinality(Awake("w_put")') = tokens["osem"] + Cardinality(Awake("w_put")) + 1
      /\ Awake("r_get")' = Awake("r_get")
    <2>1. \A u \in Users : pc'[u] = pc[u] \/ {pc[u], pc'[u]} \cap {"w_put", "r_get"} = {}
        BY <1>2
    <2>2. /\ WaitersPlaced' /\ tokens' \in [Sems -> Nat]
          /\ \A r \in {"osem", "isem"} : r # "osem" => tokens'[r] = tokens[r]
          /\ tokens'["osem"] + Cardinality(Awake(Behind("osem"))')
                 = tokens["osem"] + Cardinality(Awake(Behind("osem"))) + 1
          /\ \A r \in {"osem", "isem"} : r # "osem" => Awake(Behind(r))' = Awake(Behind(r))
        BY <1>1, <2>1, PostMoves
    <2>3. Behind("osem") = "w_put" /\ Behind("isem") = "r_get"
        BY DEF Behind
    <2>. QED
        BY <2>2, <2>3
<1>4. /\ Cardinality(Awake("c_notify")') = Cardinality(Awake("c_notify")) - 1
      /\ Cardinality(Awake("c_notify")) \in Nat
    <2>1. \A u : Suspended(u)' => pc'[u] \in {"w_put", "r_get"}
        <3>1. ASSUME NEW u, Suspended(u)' PROVE pc'[u] \in {"w_put", "r_get"}
            <4>1. PICK s \in {"osem", "isem"} : u \in Nodes(waiting'[s])
                BY <3>1, TtyAssumption DEF Suspended
            <4>. QED
                BY <4>1, <1>3 DEF WaitersPlaced
        <3>. QED
            BY <3>1
    <2>2. \A u \in Users : pc[u] = "c_notify" => ~Suspended(u)
        BY SuspendedAt
    <2>3. \A u \in Users : u # t => (At(u, "c_notify")' <=> At(u, "c_notify"))
        BY <1>2, <2>1, <2>2 DEF At
    <2>4. ~At(t, "c_notify")'
        BY <1>2 DEF At
    <2>. QED
        BY <1>1, <2>3, <2>4, OneLess, CountTypes
<1>5. /\ console = t /\ console' = t /\ t # None
      /\ ofifo' = ofifo /\ ififo' = ififo /\ written' = written
      /\ screen' = screen \o showing[t]
      /\ showing' = [showing EXCEPT ![t] = <<>>]
    BY <1>2, TtyAssumption DEF ConsoleOwned, c_notify
<1>6. PlacesConserved'
    <2>1. /\ tokens["osem"] + Cardinality(Awake("w_put")) + Len(ofifo) + Cardinality(Awake("c_notify"))
                 = OBUF_SIZE
          /\ Len(ofifo') = Len(ofifo)
          /\ Len(ofifo) \in Nat
        BY <1>5 DEF PlacesConserved, SequencesOK
    <2>2. /\ tokens["osem"] \in Nat /\ Cardinality(Awake("w_put")) \in Nat
          /\ OBUF_SIZE \in Nat
        BY CountTypes
    <2>3. tokens'["osem"] \in Nat /\ Cardinality(Awake("w_put")') \in Nat
        <3>1. IsFiniteSet(Awake("w_put")')
            <4>1. Awake("w_put")' \in SUBSET Users /\ IsFiniteSet(Users)
                BY TtyAssumption DEF Awake
            <4>. QED
                BY <4>1, FS_Subset
        <3>. QED
            BY <1>3, <3>1, FS_CardinalityType, TtyAssumption
    <2>4. tokens'["osem"] + Cardinality(Awake("w_put")') + Len(ofifo') + Cardinality(Awake("c_notify")')
              = OBUF_SIZE
        <3>1. tokens'["osem"] + Cardinality(Awake("w_put")') = tokens["osem"] + Cardinality(Awake("w_put")) + 1
            BY <1>3
        <3>2. Cardinality(Awake("c_notify")') = Cardinality(Awake("c_notify")) - 1
            BY <1>4
        <3>3. Cardinality(Awake("c_notify")) \in Nat
            BY CountTypes
        <3>. QED
            <4>1. tokens'["osem"] + Cardinality(Awake("w_put")') + Len(ofifo') + Cardinality(Awake("c_notify")')
                      = (tokens["osem"] + Cardinality(Awake("w_put")) + 1) + Len(ofifo)
                            + (Cardinality(Awake("c_notify")) - 1)
                BY ONLY <2>1, <3>1, <3>2, Zenon
            <4>2. @ = tokens["osem"] + Cardinality(Awake("w_put")) + Len(ofifo) + Cardinality(Awake("c_notify"))
                <5>1. /\ tokens["osem"] \in Int /\ Cardinality(Awake("w_put")) \in Int
                      /\ Len(ofifo) \in Int /\ Cardinality(Awake("c_notify")) \in Int
                    BY <2>1, <2>2, <3>3
                <5>. QED
                    BY ONLY <5>1, SMTT(30)
            <4>. QED
                BY ONLY <2>1, <4>1, <4>2, Zenon
    <2>. QED
        BY <2>4 DEF PlacesConserved
<1>7. DataHasToken'
    BY <1>3, <1>5 DEF DataHasToken
<1>8. /\ showing' \in [Users -> Seq(AllChars)]
      /\ showing'[t] = <<>>
      /\ \A u \in Users : u # t => showing'[u] = showing[u]
    BY <1>5 DEF SequencesOK
<1>9. ConsoleOwned'
    <2>1. \A u \in Users : console' = u <=> pc'[u] \in {"c_get", "c_notify"}
        BY <1>2, <1>5 DEF ConsoleOwned
    <2>2. \A u \in Users : showing'[u] # <<>> <=> pc'[u] = "c_notify"
        BY <1>2, <1>8 DEF ConsoleOwned
    <2>3. \A u \in Users : Len(showing'[u]) <= 1
        BY <1>8 DEF ConsoleOwned
    <2>. QED
        BY <2>1, <2>2, <2>3 DEF ConsoleOwned
<1>10. ScreenInOrder'
    <2>1. screen \o showing[t] \o ofifo = written
        BY <1>5 DEF ScreenInOrder
    <2>2. screen \in Seq(AllChars) /\ showing[t] \in Seq(AllChars) /\ ofifo \in Seq(AllChars)
        BY DEF SequencesOK
    <2>3. (screen \o showing[t]) \o <<>> = screen \o showing[t]
        BY <2>2
    <2>4. screen' \o (IF console' = None THEN <<>> ELSE showing'[console']) \o ofifo' = written'
        BY <1>5, <1>8, <2>1, <2>3
    <2>5. \A u \in Users : showing'[u] # <<>> => u = console'
        BY <1>5, <1>8 DEF ScreenInOrder
    <2>. QED
        BY <2>4, <2>5 DEF ScreenInOrder
<1>11. SequencesOK'
    <2>1. screen' \in Seq(AllChars)
        BY <1>5 DEF SequencesOK
    <2>. QED
        BY <1>2, <1>5, <1>8, <2>1 DEF SequencesOK, c_notify
<1>12. TtyTypeOK'
    BY <1>2, <1>3, SemTypes DEF TtyTypeOK, c_notify
<1>. QED
    BY <1>3, <1>6, <1>7, <1>9, <1>10, <1>11, <1>12

(* After a round the reader goes on within its buffer, or returns. *)
LEMMA AfterRoundGoes ==
    ASSUME TtyTypeOK, NEW t \in Users, NEW n \in -1 .. ReadSize, NEW c, AfterRound(t, n, c)
    PROVE  \E q \in {"r_take", "user"} :
              /\ Goes(t, q)
              /\ len' \in [Users -> -1 .. ReadSize]
              /\ q = "r_take" => len'[t] \in 0 .. ReadSize - 1
              /\ \A u \in Users : u # t => len'[u] = len[u]
<1>1. ReadSize \in Nat \ {0}
    BY TtyAssumption
<1>2. len \in [Users -> -1 .. ReadSize]
    BY DEF TtyTypeOK
<1>3. CASE n >= 0 /\ ReadGoesOn(n, c)
    <2>1. Goes(t, "r_take") /\ len' = [len EXCEPT ![t] = n] /\ n < ReadSize
        BY <1>3 DEF AfterRound, ReadGoesOn
    <2>2. n \in 0 .. ReadSize - 1
        BY <1>1, <1>3, <2>1
    <2>. QED
        BY <1>2, <2>1, <2>2
<1>4. CASE ~(n >= 0 /\ ReadGoesOn(n, c))
    <2>1. Goes(t, "user") /\ len' = [len EXCEPT ![t] = -1]
        BY <1>4 DEF AfterRound
    <2>2. -1 \in -1 .. ReadSize
        BY <1>1
    <2>. QED
        BY <1>2, <2>1, <2>2
<1>. QED
    BY <1>3, <1>4

LEMMA CUnlockInv ==
    ASSUME TtyInv, NEW t \in Users, c_unlock(t)
    PROVE  TtyInv'
<1>. USE DEF TtyInv
<1>1. At(t, "c_get") /\ UNCHANGED semVars /\ AfterRound(t, len[t], ch[t])
    BY DEF c_unlock
<1>2. PICK q \in {"r_take", "user"} :
          /\ Goes(t, q)
          /\ len' \in [Users -> -1 .. ReadSize]
          /\ q = "r_take" => len'[t] \in 0 .. ReadSize - 1
          /\ \A u \in Users : u # t => len'[u] = len[u]
    <2>1. len[t] \in -1 .. ReadSize
        BY DEF TtyTypeOK
    <2>. QED
        BY <1>1, <2>1, AfterRoundGoes
<1>3. q \in Points
    BY <1>2 DEF Points
<1>4. /\ pc' \in [Users -> Points]
      /\ pc[t] = "c_get" /\ pc'[t] = q
      /\ \A u \in Users : u # t => pc'[u] = pc[u]
    BY <1>1, <1>2, <1>3, GoesMovesOne DEF At
<1>5. /\ WaitersPlaced'
      /\ tokens' = tokens
      /\ \A r \in {"w_put", "c_notify", "r_get"} : Awake(r)' = Awake(r)
    <2>1. TtyTypeOK /\ WaitersPlaced
        OBVIOUS
    <2>2. /\ WaitersPlaced' /\ tokens' = tokens
          /\ \A r : r \notin {"c_get", q} => Awake(r)' = Awake(r)
        BY ONLY <1>1, <1>2, <1>3, <2>1, Moves, t \in Users
    <2>. QED
        BY <1>2, <2>2
<1>6. PlacesConserved' /\ DataHasToken'
    BY <1>5 DEF PlacesConserved, DataHasToken, c_unlock
<1>7. /\ console = t /\ console' = None /\ t # None /\ None \notin Users
      /\ showing[t] = <<>> /\ showing' = showing
      /\ ofifo = <<>> /\ ofifo' = ofifo /\ screen' = screen /\ written' = written
    BY <1>4, TtyAssumption DEF ConsoleOwned, c_unlock
<1>8. ConsoleOwned'
    <2>1. \A u \in Users : pc'[u] \notin {"c_get", "c_notify"}
        BY <1>2, <1>4, <1>7 DEF ConsoleOwned
    <2>2. \A u \in Users : showing[u] # <<>> <=> pc'[u] = "c_notify"
        BY <1>4, <1>7, <2>1 DEF ConsoleOwned
    <2>. QED
        BY <1>7, <2>1, <2>2 DEF ConsoleOwned
<1>9. ScreenInOrder'
    <2>1. screen \o <<>> \o ofifo = written
        BY <1>7 DEF ScreenInOrder
    <2>2. \A u \in Users : showing[u] = <<>>
        BY <1>7 DEF ScreenInOrder
    <2>. QED
        BY <1>7, <2>1, <2>2 DEF ScreenInOrder
<1>10. SequencesOK'
    BY <1>2, <1>4, <1>7 DEF SequencesOK, c_unlock
<1>11. TtyTypeOK'
    BY <1>2, <1>4, <1>5, SemTypes DEF TtyTypeOK, c_unlock
<1>. QED
    BY <1>5, <1>6, <1>8, <1>9, <1>10, <1>11

-----------------------------------------------------------------------------
(* tty_read *)

LEMMA TtyReadInv ==
    ASSUME TtyInv, NEW t \in Users, tty_read(t)
    PROVE  TtyInv'
<1>. USE DEF TtyInv
<1>1. /\ At(t, "user") /\ Goes(t, "r_take") /\ UNCHANGED semVars
      /\ "r_take" \in Points
    BY DEF tty_read, Points
<1>2. /\ pc' \in [Users -> Points]
      /\ pc[t] = "user" /\ pc'[t] = "r_take"
      /\ \A u \in Users : u # t => pc'[u] = pc[u]
    BY <1>1, GoesMovesOne DEF At
<1>3. /\ WaitersPlaced'
      /\ tokens' = tokens
      /\ \A r \in {"w_put", "c_notify", "r_get"} : Awake(r)' = Awake(r)
    BY <1>1, Moves
<1>4. PlacesConserved' /\ DataHasToken'
    BY <1>3 DEF PlacesConserved, DataHasToken, tty_read
<1>5. ConsoleOwned' /\ ScreenInOrder'
    BY <1>2, ConsoleKept DEF tty_read
<1>6. /\ len' \in [Users -> -1 .. ReadSize]
      /\ len'[t] \in 0 .. ReadSize - 1
      /\ \A u \in Users : u # t => len'[u] = len[u]
    <2>1. len' = [len EXCEPT ![t] = 0] /\ len \in [Users -> -1 .. ReadSize]
        BY DEF tty_read, TtyTypeOK
    <2>2. 0 \in 0 .. ReadSize - 1 /\ 0 \in -1 .. ReadSize
        BY TtyAssumption
    <2>. QED
        BY <2>1, <2>2
<1>7. SequencesOK'
    BY <1>2, <1>6 DEF SequencesOK, tty_read
<1>8. TtyTypeOK'
    BY <1>2, <1>3, <1>6, SemTypes DEF TtyTypeOK, tty_read
<1>. QED
    BY <1>3, <1>4, <1>5, <1>7, <1>8

LEMMA RTakeInv ==
    ASSUME TtyInv, NEW t \in Users, r_take(t)
    PROVE  TtyInv'
<1>. USE DEF TtyInv
<1>1. At(t, "r_take") /\ Wait("isem", t) /\ Goes(t, Behind("isem")) /\ Behind("isem") = "r_get"
    BY DEF r_take, Behind
<1>2. /\ pc' \in [Users -> Points]
      /\ pc[t] = "r_take" /\ pc'[t] = "r_get"
      /\ \A u \in Users : u # t => pc'[u] = pc[u]
    <2>1. "r_get" \in Points
        BY DEF Points
    <2>. QED
        BY <1>1, <2>1, GoesMovesOne DEF At
<1>3. /\ WaitersPlaced'
      /\ tokens' \in [Sems -> Nat]
      /\ tokens'["osem"] = tokens["osem"]
      /\ tokens'["isem"] + Cardinality(Awake("r_get")') = tokens["isem"] + Cardinality(Awake("r_get"))
      /\ Awake("c_notify")' = Awake("c_notify")
      /\ Awake("w_put")' = Awake("w_put")
    BY <1>1, WaitMoves
<1>4. PlacesConserved'
    BY <1>3 DEF PlacesConserved, r_take
<1>5. DataHasToken'
    BY <1>3 DEF DataHasToken, r_take
<1>6. ConsoleOwned' /\ ScreenInOrder'
    BY <1>2, ConsoleKept DEF r_take
<1>7. SequencesOK'
    BY <1>2 DEF SequencesOK, r_take
<1>8. TtyTypeOK'
    BY <1>2, <1>3, SemTypes DEF TtyTypeOK, r_take
<1>. QED
    BY <1>3, <1>4, <1>5, <1>6, <1>7, <1>8

(* The length of the line stays within the reader's buffer. *)
LEMMA NewLenFits ==
    ASSUME NEW n \in 0 .. ReadSize - 1, NEW c, ~(c = "del" /\ n = 0)
    PROVE  NewLen(n, c) \in 0 .. ReadSize
<1>1. ReadSize \in Nat \ {0}
    BY TtyAssumption
<1>2. CASE c = "del"
    BY <1>1, <1>2 DEF NewLen
<1>3. CASE c # "del"
    BY <1>1, <1>3 DEF NewLen
<1>. QED
    BY <1>2, <1>3

(* What r_get does to the task, whatever the character. *)
LEMMA RGetGoes ==
    ASSUME TtyTypeOK, SequencesOK, NEW t \in Users, r_get(t)
    PROVE  \E q \in {"r_take", "w_take", "user"} :
              /\ Goes(t, q)
              /\ len' \in [Users -> -1 .. ReadSize]
              /\ q = "r_take" => len'[t] \in 0 .. ReadSize - 1
              /\ todo' \in [Users -> Seq(AllChars)]
              /\ q = "w_take" => todo'[t] # <<>>
              /\ \A u \in Users : u # t => len'[u] = len[u] /\ todo'[u] = todo[u]
<1>1. pc[t] = "r_get" /\ len[t] \in 0 .. ReadSize - 1
    BY DEF r_get, At, SequencesOK
<1>2. PICK c \in IF ififo = <<>> THEN Keys ELSE {Head(ififo)} :
          IF c = "del" /\ len[t] = 0
          THEN Goes(t, "r_take") /\ UNCHANGED <<len, todo>>
          ELSE IF iecho
          THEN /\ len' = [len EXCEPT ![t] = NewLen(len[t], c)]
               /\ todo' = [todo EXCEPT ![t] = <<c>>]
               /\ Goes(t, "w_take")
          ELSE /\ AfterRound(t, NewLen(len[t], c), c)
               /\ UNCHANGED todo
    BY DEF r_get
<1>3. c \in AllChars
    BY TtyAssumption DEF AllChars, SequencesOK
<1>4. len \in [Users -> -1 .. ReadSize] /\ todo \in [Users -> Seq(AllChars)]
    BY DEF TtyTypeOK, SequencesOK
<1>5. CASE c = "del" /\ len[t] = 0
    BY <1>1, <1>2, <1>4, <1>5
<1>6. CASE ~(c = "del" /\ len[t] = 0) /\ iecho
    <2>1. NewLen(len[t], c) \in -1 .. ReadSize
        <3>1. NewLen(len[t], c) \in 0 .. ReadSize
            BY <1>1, <1>6, NewLenFits
        <3>. QED
            BY <3>1, TtyAssumption
    <2>2. /\ len' = [len EXCEPT ![t] = NewLen(len[t], c)]
          /\ todo' = [todo EXCEPT ![t] = <<c>>]
          /\ Goes(t, "w_take")
        BY <1>2, <1>6
    <2>3. <<c>> \in Seq(AllChars) /\ <<c>> # <<>>
        BY <1>3
    <2>. QED
        BY <1>4, <2>1, <2>2, <2>3
<1>7. CASE ~(c = "del" /\ len[t] = 0) /\ ~iecho
    <2>1. AfterRound(t, NewLen(len[t], c), c) /\ todo' = todo
        BY <1>2, <1>7
    <2>2. NewLen(len[t], c) \in -1 .. ReadSize
        <3>1. NewLen(len[t], c) \in 0 .. ReadSize
            BY <1>1, <1>7, NewLenFits
        <3>. QED
            BY <3>1, TtyAssumption
    <2>3. PICK q \in {"r_take", "user"} :
              /\ Goes(t, q)
              /\ len' \in [Users -> -1 .. ReadSize]
              /\ q = "r_take" => len'[t] \in 0 .. ReadSize - 1
              /\ \A u \in Users : u # t => len'[u] = len[u]
        BY <2>1, <2>2, AfterRoundGoes
    <2>. QED
        BY <1>4, <2>1, <2>3
<1>. QED
    BY <1>5, <1>6, <1>7

LEMMA RGetInv ==
    ASSUME TtyInv, NEW t \in Users, r_get(t)
    PROVE  TtyInv'
<1>. USE DEF TtyInv
<1>1. /\ At(t, "r_get") /\ UNCHANGED semVars
      /\ ififo' = tty_fifo_get(ififo)
      /\ UNCHANGED <<ofifo, iecho, console, screen, showing, written, writesLeft, keysLeft>>
    BY DEF r_get
<1>2. PICK q \in {"r_take", "w_take", "user"} :
          /\ Goes(t, q)
          /\ len' \in [Users -> -1 .. ReadSize]
          /\ q = "r_take" => len'[t] \in 0 .. ReadSize - 1
          /\ todo' \in [Users -> Seq(AllChars)]
          /\ q = "w_take" => todo'[t] # <<>>
          /\ \A u \in Users : u # t => len'[u] = len[u] /\ todo'[u] = todo[u]
    BY RGetGoes
<1>3. q \in Points
    BY <1>2 DEF Points
<1>4. /\ pc' \in [Users -> Points]
      /\ pc[t] = "r_get" /\ pc'[t] = q
      /\ \A u \in Users : u # t => pc'[u] = pc[u]
    BY <1>1, <1>2, <1>3, GoesMovesOne DEF At
<1>5. /\ WaitersPlaced'
      /\ tokens' = tokens
      /\ Cardinality(Awake("r_get")') = Cardinality(Awake("r_get")) - 1
      /\ Cardinality(Awake("r_get")) >= 1
      /\ \A r \in {"w_put", "c_notify"} : Awake(r)' = Awake(r)
    <2>1. TtyTypeOK /\ WaitersPlaced
        OBVIOUS
    <2>2. /\ WaitersPlaced' /\ tokens' = tokens
          /\ Cardinality(Awake("r_get")') = Cardinality(Awake("r_get")) - 1
          /\ Cardinality(Awake("r_get")) >= 1
          /\ \A r : r \notin {"r_get", q} => Awake(r)' = Awake(r)
        BY ONLY <1>1, <1>2, <1>3, <2>1, Moves, t \in Users, ZenonT(40)
    <2>. QED
        BY <1>2, <2>2
<1>6. /\ ififo' \in Seq(AllChars)
      /\ Len(ififo) \in Nat
      /\ Len(ififo') = IF Len(ififo) = 0 THEN 0 ELSE Len(ififo) - 1
    <2>1. ififo \in Seq(AllChars)
        BY DEF SequencesOK
    <2>2. CASE ififo = <<>>
        BY <1>1, <2>2 DEF tty_fifo_get
    <2>3. CASE ififo # <<>>
        <3>1. ififo' = Tail(ififo)
            BY <1>1, <2>3 DEF tty_fifo_get
        <3>2. Len(ififo) \in Nat \ {0} /\ Tail(ififo) \in Seq(AllChars) /\ Len(Tail(ififo)) = Len(ififo) - 1
            BY <2>1, <2>3
        <3>. QED
            BY <3>1, <3>2
    <2>. QED
        BY <2>2, <2>3
<1>7. PlacesConserved'
    BY <1>1, <1>5 DEF PlacesConserved
<1>8. DataHasToken'
    <2>1. Len(ififo) <= tokens["isem"] + Cardinality(Awake("r_get"))
        BY DEF DataHasToken
    <2>2. tokens["isem"] \in Nat /\ Cardinality(Awake("r_get")) \in Nat
        BY CountTypes
    <2>3. tokens'["isem"] = tokens["isem"]
        BY <1>5
    <2>4. Len(ififo') <= tokens'["isem"] + Cardinality(Awake("r_get")')
        BY ONLY <1>5, <1>6, <2>1, <2>2, <2>3
    <2>. QED
        BY <2>4 DEF DataHasToken
<1>9. ConsoleOwned' /\ ScreenInOrder'
    BY <1>1, <1>2, <1>4, ConsoleKept
<1>10. SequencesOK'
    BY <1>1, <1>2, <1>4, <1>6 DEF SequencesOK
<1>11. TtyTypeOK'
    <2>1. Len(ififo') <= IBUF_SIZE
        BY <1>6, CountTypes DEF TtyTypeOK
    <2>. QED
        BY <1>1, <1>2, <1>4, <1>5, <2>1, SemTypes DEF TtyTypeOK
<1>. QED
    BY <1>5, <1>7, <1>8, <1>9, <1>10, <1>11

LEMMA TtyControlInv ==
    ASSUME TtyInv, NEW t \in Users, tty_control(t)
    PROVE  TtyInv'
<1>. USE DEF TtyInv
<1>1. /\ iecho' = ~iecho
      /\ UNCHANGED <<semVars, ofifo, ififo, console, screen, pc, todo, showing, len, written, writesLeft, keysLeft>>
    BY DEF tty_control
<1>2. SemsOK' /\ \A u : Suspended(u)' <=> Suspended(u)
    BY <1>1, SameSems DEF WaitersPlaced
<1>3. \A r : Awake(r)' = Awake(r)
    BY <1>1, <1>2 DEF Awake, At
<1>4. WaitersPlaced'
    BY <1>1, <1>2 DEF WaitersPlaced, semVars
<1>5. PlacesConserved' /\ DataHasToken'
    BY <1>1, <1>3 DEF PlacesConserved, DataHasToken, semVars
<1>6. ConsoleOwned' /\ ScreenInOrder'
    BY <1>1, ConsoleKept
<1>7. SequencesOK'
    BY <1>1 DEF SequencesOK
<1>8. TtyTypeOK'
    BY <1>1, <1>4, SemTypes DEF TtyTypeOK
<1>. QED
    BY <1>4, <1>5, <1>6, <1>7, <1>8

(* A character that comes in brings a token, or wakes a reader that takes it. *)
LEMMA TtyInInv ==
    ASSUME TtyInv, NEW c \in Keys, tty_in(c)
    PROVE  TtyInv'
<1>. USE DEF TtyInv
<1>1. /\ keysLeft' \in 0 .. MaxKeys
      /\ UNCHANGED <<ofifo, iecho, console, screen, pc, todo, showing, len, written, writesLeft>>
    BY TtyAssumption DEF tty_in, TtyTypeOK
<1>2. ConsoleOwned' /\ ScreenInOrder'
    BY <1>1, ConsoleKept
<1>3. ASSUME WaitersPlaced', ififo' \in Seq(AllChars), Len(ififo') <= IBUF_SIZE
      PROVE  TtyTypeOK' /\ SequencesOK'
    BY <1>1, <1>3, SemTypes DEF TtyTypeOK, SequencesOK
<1>4. CASE UNCHANGED <<semVars, ififo>>
    <2>1. SemsOK' /\ \A u : Suspended(u)' <=> Suspended(u)
        BY <1>4, SameSems DEF WaitersPlaced
    <2>2. \A r : Awake(r)' = Awake(r)
        BY <1>1, <2>1 DEF Awake, At
    <2>3. WaitersPlaced'
        BY <1>1, <1>4, <2>1 DEF WaitersPlaced, semVars
    <2>4. PlacesConserved' /\ DataHasToken'
        BY <1>1, <1>4, <2>2 DEF PlacesConserved, DataHasToken, semVars
    <2>5. ififo' \in Seq(AllChars) /\ Len(ififo') <= IBUF_SIZE
        BY <1>4 DEF SequencesOK, TtyTypeOK
    <2>. QED
        BY <1>2, <1>3, <2>3, <2>4, <2>5
<1>5. CASE ififo' = tty_fifo_put(ififo, IBUF_SIZE, c) /\ Post("isem")
    <2>1. /\ WaitersPlaced'
          /\ tokens' \in [Sems -> Nat]
          /\ tokens'["osem"] = tokens["osem"]
          /\ tokens'["isem"] + Cardinality(Awake("r_get")') = tokens["isem"] + Cardinality(Awake("r_get")) + 1
          /\ Awake("w_put")' = Awake("w_put")
        <3>1. \A u \in Users : pc'[u] = pc[u]
            BY <1>1
        <3>2. /\ WaitersPlaced' /\ tokens' \in [Sems -> Nat]
              /\ \A r \in {"osem", "isem"} : r # "isem" => tokens'[r] = tokens[r]
              /\ tokens'["isem"] + Cardinality(Awake(Behind("isem"))')
                     = tokens["isem"] + Cardinality(Awake(Behind("isem"))) + 1
              /\ \A r \in {"osem", "isem"} : r # "isem" => Awake(Behind(r))' = Awake(Behind(r))
            BY <1>5, <3>1, PostMoves
        <3>3. Behind("osem") = "w_put" /\ Behind("isem") = "r_get"
            BY DEF Behind
        <3>. QED
            BY <3>2, <3>3
    <2>2. Awake("c_notify")' = Awake("c_notify")
        <3>1. \A u : Suspended(u)' => pc'[u] \in {"w_put", "r_get"}
            <4>1. ASSUME NEW u, Suspended(u)' PROVE pc'[u] \in {"w_put", "r_get"}
                <5>1. PICK s \in {"osem", "isem"} : u \in Nodes(waiting'[s])
                    BY <4>1, TtyAssumption DEF Suspended
                <5>. QED
                    BY <5>1, <2>1 DEF WaitersPlaced
            <4>. QED
                BY <4>1
        <3>2. \A u \in Users : pc[u] = "c_notify" => ~Suspended(u)
            BY SuspendedAt
        <3>3. \A u \in Users : At(u, "c_notify")' <=> At(u, "c_notify")
            BY <1>1, <3>1, <3>2 DEF At
        <3>. QED
            BY <3>3, SameAwake
    <2>3. /\ ififo' \in Seq(AllChars)
          /\ Len(ififo') <= IBUF_SIZE
          /\ Len(ififo) \in Nat
          /\ Len(ififo') \in Nat
          /\ Len(ififo') <= Len(ififo) + 1
        <3>1. c \in AllChars /\ ififo \in Seq(AllChars) /\ Len(ififo) <= IBUF_SIZE
            BY TtyAssumption DEF AllChars, SequencesOK, TtyTypeOK
        <3>2. /\ Append(ififo, c) \in Seq(AllChars)
              /\ Len(Append(ififo, c)) = Len(ififo) + 1
              /\ Len(ififo) \in Nat
            BY <3>1
        <3>3. CASE Len(ififo) >= IBUF_SIZE
            <4>1. ififo' = ififo
                BY <1>5, <3>3 DEF tty_fifo_put
            <4>. QED
                BY <3>1, <3>2, <4>1
        <3>4. CASE ~(Len(ififo) >= IBUF_SIZE)
            <4>1. ififo' = Append(ififo, c)
                BY <1>5, <3>4 DEF tty_fifo_put
            <4>2. IBUF_SIZE \in Nat
                BY TtyAssumption
            <4>. QED
                BY <3>2, <3>4, <4>1, <4>2
        <3>. QED
            BY <3>3, <3>4
    <2>4. PlacesConserved'
        BY <1>1, <2>1, <2>2 DEF PlacesConserved
    <2>5. DataHasToken'
        <3>1. Len(ififo) <= tokens["isem"] + Cardinality(Awake("r_get"))
            BY DEF DataHasToken
        <3>2. tokens["isem"] \in Nat /\ Cardinality(Awake("r_get")) \in Nat
            BY CountTypes
        <3>3. tokens'["isem"] + Cardinality(Awake("r_get")') = tokens["isem"] + Cardinality(Awake("r_get")) + 1
            BY <2>1
        <3>4. Len(ififo') <= tokens["isem"] + Cardinality(Awake("r_get")) + 1
            BY ONLY <2>3, <3>1, <3>2
        <3>5. Len(ififo') <= tokens'["isem"] + Cardinality(Awake("r_get")')
            BY ONLY <3>3, <3>4
        <3>. QED
            BY <3>5 DEF DataHasToken
    <2>. QED
        BY <1>2, <1>3, <2>1, <2>3, <2>4, <2>5
<1>. QED
    BY <1>4, <1>5 DEF tty_in

-----------------------------------------------------------------------------
(* The invariant, and the properties it gives. *)

LEMMA TtyInitInv == TtyInit => TtyInv
<1>. SUFFICES ASSUME TtyInit PROVE TtyInv
    OBVIOUS
<1>. USE DEF TtyInit, SemsInit
<1>1. /\ tokens \in [Sems -> Nat] /\ tokens["osem"] = OBUF_SIZE /\ tokens["isem"] = 0
      /\ waiting["osem"] = <<>> /\ waiting["isem"] = <<>>
      /\ waiting \in [Sems -> Seq(Users)]
    BY TtyAssumption
<1>2. \A s \in Sems : waiting[s] = <<>> /\ Nodes(waiting[s]) = {} /\ Distinct(waiting[s])
    BY DEF Nodes, Distinct
<1>3. WaitersPlaced
    BY <1>1, <1>2, TtyAssumption DEF WaitersPlaced, SemsOK
<1>4. \A r \in {"w_put", "r_get", "c_notify"} : Awake(r) = {}
    BY DEF Awake, At
<1>5. PlacesConserved /\ DataHasToken
    <2>1. Cardinality({}) = 0
        BY FS_EmptySet
    <2>2. Len(ofifo) = 0 /\ Len(ififo) = 0
        OBVIOUS
    <2>3. OBUF_SIZE \in Nat
        BY TtyAssumption
    <2>4. /\ Cardinality(Awake("w_put")) = 0 /\ Cardinality(Awake("c_notify")) = 0
          /\ Cardinality(Awake("r_get")) = 0
        BY <1>4, <2>1
    <2>5. tokens["osem"] = OBUF_SIZE /\ tokens["isem"] = 0
        BY <1>1
    <2>6. /\ tokens["osem"] + Cardinality(Awake("w_put")) + Len(ofifo) + Cardinality(Awake("c_notify"))
                 = OBUF_SIZE
          /\ Len(ififo) <= tokens["isem"] + Cardinality(Awake("r_get"))
        BY ONLY <2>2, <2>3, <2>4, <2>5
    <2>. QED
        BY <2>6 DEF PlacesConserved, DataHasToken
<1>6. TtyTypeOK
    <2>1. -1 \in -1 .. ReadSize /\ MaxWrites \in 0 .. MaxWrites /\ MaxKeys \in 0 .. MaxKeys
        BY TtyAssumption
    <2>. QED
        BY <1>1, <2>1, TtyAssumption DEF TtyTypeOK, Points
<1>7. SequencesOK
    BY DEF SequencesOK
<1>8. ConsoleOwned /\ ScreenInOrder
    BY TtyAssumption DEF ConsoleOwned, ScreenInOrder
<1>. QED
    BY <1>3, <1>5, <1>6, <1>7, <1>8 DEF TtyInv

LEMMA TtyNextInv == TtyInv /\ [TtyNext]_allVars => TtyInv'
<1>. SUFFICES ASSUME TtyInv, [TtyNext]_allVars PROVE TtyInv'
    OBVIOUS
<1>1. CASE UNCHANGED allVars
    <2>1. UNCHANGED semVars /\ UNCHANGED ttyVars
        BY <1>1 DEF allVars
    <2>2. SemsOK' /\ \A u : Suspended(u)' <=> Suspended(u)
        BY <2>1, SameSems DEF TtyInv, WaitersPlaced
    <2>3. \A r : Awake(r)' = Awake(r)
        BY <2>1, <2>2 DEF Awake, At, ttyVars
    <2>4. WaitersPlaced'
        BY <2>1, <2>2 DEF TtyInv, WaitersPlaced, semVars, ttyVars
    <2>5. PlacesConserved' /\ DataHasToken'
        BY <2>1, <2>3 DEF TtyInv, PlacesConserved, DataHasToken, semVars, ttyVars
    <2>6. ConsoleOwned' /\ ScreenInOrder'
        BY <2>1, ConsoleKept DEF TtyInv, ttyVars
    <2>7. SequencesOK' /\ TtyTypeOK'
        BY <2>1, <2>4, SemTypes DEF TtyInv, SequencesOK, TtyTypeOK, ttyVars
    <2>. QED
        BY <2>4, <2>5, <2>6, <2>7 DEF TtyInv
<1>2. ASSUME NEW t \in Users, Inside(t) PROVE TtyInv'
    BY <1>2, WTakeInv, WPutInv, CLockInv, CGetInv, CNotifyInv, CUnlockInv, RTakeInv, RGetInv DEF Inside
<1>3. ASSUME NEW t \in Users, tty_read(t) PROVE TtyInv'
    BY <1>3, TtyReadInv
<1>4. ASSUME NEW t \in Users, tty_control(t) PROVE TtyInv'
    BY <1>4, TtyControlInv
<1>5. ASSUME NEW t \in Users, NEW text \in Lines, tty_write(t, text) PROVE TtyInv'
    BY <1>5, TtyWriteInv
<1>6. ASSUME NEW c \in Keys, tty_in(c) PROVE TtyInv'
    BY <1>6, TtyInInv
<1>. QED
    BY <1>1, <1>2, <1>3, <1>4, <1>5, <1>6 DEF TtyNext

(* The inductive invariant of the terminal. *)
THEOREM TtySafe == TtySpec => []TtyInv
    BY TtyInitInv, TtyNextInv, PTL DEF TtySpec

(* Every place of the output fifo is free, taken by a character or in one  *)
(* task's hands, and every character of the input fifo has a token.        *)
THEOREM TtyTokensMatch == TtySpec => []TokensMatch
<1>1. TtyInv => TokensMatch
    BY DEF TtyInv, TokensMatch
<1>. QED
    BY <1>1, TtySafe, PTL

(* The screen shows what was put into the fifo, in its order, whoever put  *)
(* it and whoever shows it.                                                *)
THEOREM TtyScreenInOrder == TtySpec => []ScreenInOrder
<1>1. TtyInv => ScreenInOrder
    BY DEF TtyInv
<1>. QED
    BY <1>1, TtySafe, PTL

=============================================================================

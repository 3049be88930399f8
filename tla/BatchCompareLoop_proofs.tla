---------------------- MODULE BatchCompareLoop_proofs ----------------------
(***************************************************************************)
(* Invariance proofs about BatchCompareLoop, for lists of any length, any   *)
(* number of columns and loops of one, two or four lanes.                   *)
(***************************************************************************)
EXTENDS BatchCompareLoop, DataFacts

-----------------------------------------------------------------------------
(* The inductive invariant. *)

(* The rows found to differ: in a column up to the c-th, or before it. *)
DiffersTo(c) == UNION {differs[d] : d \in {d \in 1 .. c : d <= NumColumns}}
DiffersBefore(c) == UNION {differs[d] : d \in {d \in 1 .. c - 1 : d <= NumColumns}}

(* The list is partitioned up to the entry the loop reads next. *)
LInv ==
    /\ lanes \in {1, 2, 4}
    /\ col \in 1 .. NumColumns + 1
    /\ i \in Nat \ {0}
    /\ Count \in Nat /\ RowsIn(part.indices, Count) = 1 .. Count
    /\ i <= Count + 1
    /\ Partitioned(part, Count, i, DiffersTo(col), DiffersBefore(col),
                   IF InColumn THEN differs[col] ELSE {})

LEMMA InitLInv == Init => LInv
<1> SUFFICES ASSUME Init PROVE LInv
  OBVIOUS
<1>1. PICK n \in 1 .. MaxRows :
        /\ part = [indices |-> [k \in 1 .. n |-> k], from |-> 0]
        /\ differs \in [1 .. NumColumns -> SUBSET (1 .. n)]
  BY DEF Init
<1>2. n \in Nat /\ NumColumns \in Nat \ {0}
  BY LoopAssumption
<1>3. /\ part.indices = [k \in 1 .. n |-> k] /\ part.from = 0
      /\ part = [indices |-> part.indices, from |-> part.from]
  BY <1>1
<1>4. Len(part.indices) = n /\ part.indices \in [1 .. n -> 1 .. n]
  BY <1>2, <1>3
<1>5. RowsIn(part.indices, n) = 1 .. n /\ Listing(part.indices, n)
  BY <1>3, <1>4 DEF RowsIn, Listing
<1>6. DiffersBefore(1) = {}
  BY DEF DiffersBefore
<1>7. Partitioned(part, n, 1, DiffersTo(1), DiffersBefore(1), IF InColumn THEN differs[col] ELSE {})
  BY <1>2, <1>3, <1>4, <1>5, <1>6 DEF Partitioned
<1>8. lanes \in {1, 2, 4} /\ col = 1 /\ i = 1
  BY DEF Init
<1> QED
  BY <1>2, <1>4, <1>5, <1>7, <1>8 DEF LInv, Count

LEMMA CountIs ==
    ASSUME NEW n \in Nat, NEW p, NEW j, NEW F, NEW E, NEW U, Partitioned(p, n, j, F, E, U)
    PROVE  Len(p.indices) = n
BY DEF Partitioned, Listing

(* What a lane passes to the next one: the entries still to visit are as they were. *)
Upto(p, n, j, F, E, U) ==
    /\ Partitioned(p, n, j, F, E, U)
    /\ \A k \in j .. n : p.indices[k] = part.indices[k]
    /\ RowsIn(p.indices, n) = RowsIn(part.indices, n)

LEMMA LaneStep ==
    ASSUME NEW n \in Nat, NEW j \in 1 .. n, NEW p, NEW F, NEW E, NEW U, U \subseteq F,
           Upto(p, n, j, F, E, U),
           NEW differ, j \in differ <=> part.indices[j] \in U
    PROVE  Upto(MoveLane(p, j, differ), n, j + 1, F, E, U)
<1>1. /\ p.indices[j] = part.indices[j]
      /\ \A k \in j + 1 .. n : p.indices[k] = part.indices[k]
      /\ RowsIn(p.indices, n) = RowsIn(part.indices, n)
  BY DEF Upto
<1>2. Partitioned(p, n, j, F, E, U)
  BY DEF Upto
<1>3. j \in differ <=> p.indices[j] \in U
  BY <1>1
<1> DEFINE m == MoveLane(p, j, differ)
<1>4. Partitioned(p, n, j, F, E, U)
  BY <1>2
<1> HIDE DEF m
<1>5. /\ Partitioned(m, n, j + 1, F, E, U)
      /\ \A k \in j + 1 .. n : m.indices[k] = p.indices[k]
      /\ RowsIn(m.indices, n) = RowsIn(p.indices, n)
  BY <1>3, <1>4, OneMore DEF m
<1> QED
  BY <1>1, <1>5 DEF Upto, m

LEMMA CompareLanesInv ==
    ASSUME LInv, CompareLanes
    PROVE  LInv'
<1> DEFINE n == Count
           F == DiffersTo(col)
           E == DiffersBefore(col)
           U == differs[col]
           differ == {j \in i .. i + lanes - 1 : part.indices[j] \in U}
           p0 == MoveLane(part, i, differ)
           p1 == MoveLane(p0, i + 1, differ)
           p2 == MoveLane(p1, i + 2, differ)
           p3 == MoveLane(p2, i + 3, differ)
<1>1. /\ lanes \in {1, 2, 4} /\ col \in 1 .. NumColumns + 1 /\ col <= NumColumns
      /\ i \in Nat \ {0} /\ n \in Nat /\ i + lanes - 1 <= n
      /\ Partitioned(part, n, i, F, E, U) /\ RowsIn(part.indices, n) = 1 .. n
      /\ part' = p3 /\ i' = i + lanes
      /\ UNCHANGED <<lanes, differs, col>>
  BY DEF LInv, CompareLanes, InColumn, VisitLanes
<1>2. U \subseteq F
  BY <1>1 DEF DiffersTo
<1>3. \A j \in i .. i + lanes - 1 : j \in differ <=> part.indices[j] \in U
  OBVIOUS
<1>4. \A j : j \notin i .. i + lanes - 1 => j \notin differ
  OBVIOUS
<1> HIDE DEF n, F, E, U, differ
<1>5. Upto(part, n, i, F, E, U)
  BY <1>1 DEF Upto
<1>6. Upto(p0, n, i + 1, F, E, U)
  <2>1. i \in 1 .. n /\ (i \in differ <=> part.indices[i] \in U)
    BY <1>1, <1>3
  <2> QED
    BY <1>1, <1>2, <1>5, <2>1, LaneStep
<1> HIDE DEF p0
<1>7. /\ lanes = 1 => p1 = p0
      /\ lanes # 1 => Upto(p1, n, i + 2, F, E, U)
  <2>1. CASE lanes = 1
    BY <1>1, <1>4, <2>1 DEF MoveLane
  <2>2. CASE lanes # 1
    <3>1. i + 1 \in 1 .. n /\ (i + 1 \in differ <=> part.indices[i + 1] \in U)
      BY <1>1, <1>3, <2>2
    <3>2. Upto(p1, n, (i + 1) + 1, F, E, U)
      BY <1>1, <1>2, <1>6, <3>1, LaneStep
    <3> QED
      BY <1>1, <2>2, <3>2
  <2> QED
    BY <2>1, <2>2
<1> HIDE DEF p1
<1>8. /\ lanes # 4 => p2 = p1
      /\ lanes = 4 => Upto(p2, n, i + 3, F, E, U)
  <2>1. CASE lanes # 4
    BY <1>1, <1>4, <2>1 DEF MoveLane
  <2>2. CASE lanes = 4
    <3>1. i + 2 \in 1 .. n /\ (i + 2 \in differ <=> part.indices[i + 2] \in U)
      BY <1>1, <1>3, <2>2
    <3>2. Upto(p2, n, (i + 2) + 1, F, E, U)
      BY <1>1, <1>2, <1>7, <2>2, <3>1, LaneStep
    <3> QED
      BY <1>1, <2>2, <3>2
  <2> QED
    BY <2>1, <2>2
<1> HIDE DEF p2
<1>9. /\ lanes # 4 => p3 = p2
      /\ lanes = 4 => Upto(p3, n, i + 4, F, E, U)
  <2>1. CASE lanes # 4
    BY <1>1, <1>4, <2>1 DEF MoveLane
  <2>2. CASE lanes = 4
    <3>1. i + 3 \in 1 .. n /\ (i + 3 \in differ <=> part.indices[i + 3] \in U)
      BY <1>1, <1>3, <2>2
    <3>2. Upto(p3, n, (i + 3) + 1, F, E, U)
      BY <1>1, <1>2, <1>8, <2>2, <3>1, LaneStep
    <3> QED
      BY <1>1, <2>2, <3>2
  <2> QED
    BY <2>1, <2>2
<1> HIDE DEF p3
<1>10. Upto(p3, n, i + lanes, F, E, U)
  <2>1. CASE lanes = 1
    BY <1>6, <1>7, <1>8, <1>9, <2>1
  <2>2. CASE lanes = 2
    BY <1>7, <1>8, <1>9, <2>2
  <2>3. CASE lanes = 4
    BY <1>9, <2>3
  <2> QED
    BY <1>1, <2>1, <2>2, <2>3
<1>11. Partitioned(part', n, i', F, E, U) /\ RowsIn(part'.indices, n) = 1 .. n
  BY <1>1, <1>10 DEF Upto
<1>12. Count' = n
  BY <1>1, <1>11, CountIs DEF Count
<1>13. InColumn' /\ DiffersTo(col)' = F /\ DiffersBefore(col)' = E /\ (differs[col])' = U
  BY <1>1 DEF F, E, U, DiffersTo, DiffersBefore, InColumn
<1>14. i' \in Nat \ {0} /\ i' <= n + 1
  BY <1>1
<1> QED
  BY <1>1, <1>11, <1>12, <1>13, <1>14 DEF LInv

LEMMA CompareRestInv ==
    ASSUME LInv, CompareRest
    PROVE  LInv'
<1> DEFINE n == Count
           F == DiffersTo(col)
           E == DiffersBefore(col)
           U == differs[col]
<1>1. /\ lanes \in {1, 2, 4} /\ col \in 1 .. NumColumns + 1 /\ col <= NumColumns
      /\ i \in Nat \ {0} /\ n \in Nat /\ i \in 1 .. n
      /\ Partitioned(part, n, i, F, E, U) /\ RowsIn(part.indices, n) = 1 .. n
      /\ i' = i + 1
      /\ UNCHANGED <<lanes, differs, col>>
  BY DEF LInv, CompareRest, InColumn
<1> DEFINE differ == IF part.indices[i] \in U THEN {i} ELSE {}
<1>2. part' = MoveLane(part, i, differ)
  BY DEF CompareRest, VisitOne, MoveLane
<1>3. U \subseteq F
  BY <1>1 DEF DiffersTo
<1>4. i \in differ <=> part.indices[i] \in U
  OBVIOUS
<1> HIDE DEF n, F, E, U, differ
<1>5. Partitioned(part', n, i', F, E, U) /\ RowsIn(part'.indices, n) = 1 .. n
  BY <1>1, <1>2, <1>3, <1>4, OneMore
<1>6. Count' = n
  BY <1>1, <1>5, CountIs DEF Count
<1>7. InColumn' /\ DiffersTo(col)' = F /\ DiffersBefore(col)' = E /\ (differs[col])' = U
  BY <1>1 DEF F, E, U, DiffersTo, DiffersBefore, InColumn
<1>8. i' \in Nat \ {0} /\ i' <= n + 1
  BY <1>1
<1> QED
  BY <1>1, <1>5, <1>6, <1>7, <1>8 DEF LInv

(* What differs up to a column differs before the next one. *)
LEMMA NextColumnInv ==
    ASSUME LInv, NextColumn
    PROVE  LInv'
<1> DEFINE n == Count
           F == DiffersTo(col)
           E == DiffersBefore(col)
           U == differs[col]
           U2 == IF InColumn' THEN (differs[col])' ELSE {}
<1>1. /\ lanes \in {1, 2, 4} /\ col \in Nat \ {0} /\ col <= NumColumns /\ NumColumns \in Nat
      /\ n \in Nat /\ i = n + 1
      /\ Partitioned(part, n, n + 1, F, E, U) /\ RowsIn(part.indices, n) = 1 .. n
      /\ i' = part.from + 1 /\ col' = col + 1
      /\ UNCHANGED <<lanes, differs, part>>
  BY LoopAssumption DEF LInv, NextColumn, InColumn
<1>2. DiffersBefore(col)' = E \cup U
  <2>1. \A d : d \in {x \in 1 .. (col + 1) - 1 : x <= NumColumns}
                 <=> d \in {x \in 1 .. col - 1 : x <= NumColumns} \/ d = col
    BY <1>1
  <2>2. \A r : r \in DiffersBefore(col)' <=> r \in E \cup U
    BY <1>1, <2>1 DEF DiffersBefore
  <2> QED
    BY <2>2
<1>3. F \subseteq DiffersTo(col)'
  <2>1. \A d : d \in 1 .. col => d \in 1 .. col + 1
    BY <1>1
  <2> QED
    BY <1>1, <2>1 DEF DiffersTo
<1>4. Count' = n
  BY <1>1 DEF Count
<1> DEFINE F2 == DiffersTo(col)'
           E2 == DiffersBefore(col)'
<1> HIDE DEF n, F, E, U, U2, F2, E2
<1>5. /\ part.from \in Nat /\ part.from < n + 1
      /\ RowsIn(part.indices, n) = 1 .. n /\ Listing(part.indices, n)
      /\ part = [indices |-> part.indices, from |-> part.from]
      /\ \A k \in 1 .. part.from : part.indices[k] \in F
      /\ \A k \in part.from + 1 .. n : part.indices[k] \notin E /\ part.indices[k] \notin U
  <2>1. (n + 1) - 1 = n
    BY <1>1
  <2> QED
    BY <1>1, <2>1 DEF Partitioned
<1>6. \A k \in 1 .. part.from : part.indices[k] \in F2
  BY <1>3, <1>5 DEF F2
<1>7. \A k \in part.from + 1 .. n : part.indices[k] \notin E2
  BY <1>2, <1>5 DEF E2
<1>8. \A k \in part.from + 1 .. (part.from + 1) - 1 : FALSE
  BY <1>5
<1>9. Partitioned(part, n, part.from + 1, F2, E2, U2)
  BY <1>5, <1>6, <1>7, <1>8 DEF Partitioned
<1>10. Partitioned(part', n, i', F2, E2, U2) /\ RowsIn(part'.indices, n) = 1 .. n
  BY <1>1, <1>9
<1>11. /\ lanes' \in {1, 2, 4} /\ col' \in 1 .. NumColumns + 1 /\ i' \in Nat \ {0} /\ i' <= n + 1
  BY <1>1, <1>5
<1> QED
  BY <1>1, <1>4, <1>10, <1>11 DEF LInv, U2, F2, E2

LEMMA LInvCorrect == Spec => []LInv
<1>1. LInv /\ [Next]_vars => LInv'
  <2> SUFFICES ASSUME LInv, [Next]_vars PROVE LInv'
    OBVIOUS
  <2>1. CASE UNCHANGED vars
    BY <2>1 DEF vars, LInv, Count, InColumn, DiffersTo, DiffersBefore
  <2> QED
    BY <2>1, CompareLanesInv, CompareRestInv, NextColumnInv DEF Next
<1> QED
  BY <1>1, InitLInv, PTL DEF Spec

-----------------------------------------------------------------------------
(***************************************************************************)
(* The list keeps its rows: entries that are swapped past the ones still to *)
(* be read are neither lost nor listed twice, whatever the number of lanes. *)
(***************************************************************************)
THEOREM RowsAreKept == Spec => []RowsKept
<1>1. LInv => RowsKept
  BY DEF LInv, RowsKept, RowsIn
<1> QED
  BY <1>1, LInvCorrect, PTL

(***************************************************************************)
(* The front holds rows that differ in some column, and the loop has        *)
(* passed no differing row behind it.                                       *)
(***************************************************************************)
THEOREM FrontIsUnequal == Spec => []FrontDiffers
<1>1. LInv => FrontDiffers
  <2> SUFFICES ASSUME LInv PROVE FrontDiffers
    OBVIOUS
  <2> DEFINE n == Count
             U == IF InColumn THEN differs[col] ELSE {}
  <2>1. /\ col \in 1 .. NumColumns + 1 /\ i \in Nat \ {0} /\ n \in Nat /\ NumColumns \in Nat
        /\ part.from \in Nat /\ part.from < i /\ i <= n + 1
        /\ \A k \in 1 .. part.from : part.indices[k] \in DiffersTo(col)
        /\ \A k \in part.from + 1 .. n : part.indices[k] \notin DiffersBefore(col)
        /\ \A k \in part.from + 1 .. i - 1 : part.indices[k] \notin U
    BY LoopAssumption DEF LInv, Partitioned
  <2>2. \A k \in 1 .. part.from :
           \E c \in 1 .. col : c <= NumColumns /\ part.indices[k] \in differs[c]
    BY <2>1 DEF DiffersTo
  <2>3. ASSUME NEW k \in part.from + 1 .. n, NEW c \in 1 .. col - 1
        PROVE  part.indices[k] \notin differs[c]
    <3>1. c \in {d \in 1 .. col - 1 : d <= NumColumns}
      BY <2>1
    <3>2. part.indices[k] \notin DiffersBefore(col)
      BY <2>1
    <3> QED
      BY <3>1, <3>2 DEF DiffersBefore
  <2>4. ASSUME NEW k \in part.from + 1 .. n, k < i, col <= NumColumns
        PROVE  part.indices[k] \notin differs[col]
    <3>1. k \in part.from + 1 .. i - 1
      BY <2>1, <2>4
    <3> QED
      BY <2>1, <2>4, <3>1 DEF InColumn
  <2>5. part.from <= n
    BY <2>1
  <2> QED
    BY <2>2, <2>3, <2>4, <2>5 DEF FrontDiffers
<1> QED
  BY <1>1, LInvCorrect, PTL
=============================================================================

-------------------------- MODULE BatchCompareLoop --------------------------
(***************************************************************************)
(* get_unequals_num_with_decode of rust/src/column_marshaller.rs over the   *)
(* loops of rust/src/batch_compare.rs: column after column, a loop of one,  *)
(* two or four lanes partitions what the columns before found equal.        *)
(***************************************************************************)
EXTENDS BatchCompare

CONSTANTS
    MaxRows,       \* the most rows a list may have
    NumColumns

ASSUME LoopAssumption == MaxRows \in Nat \ {0} /\ NumColumns \in Nat \ {0}

VARIABLES
    lanes,       \* rows a loop compares at once, by build and column type
    differs,     \* per column, the rows whose value differs from their group's
    part,        \* [indices, from]: the list and the length of its front
    col, i

vars == <<lanes, differs, part, col, i>>

Count == Len(part.indices)

(* Lists differ by the names of their rows only: take 1, 2, ... *)
Init ==
    /\ lanes \in {1, 2, 4}
    /\ \E n \in 1 .. MaxRows :
         /\ part = [indices |-> [k \in 1 .. n |-> k], from |-> 0]
         /\ differs \in [1 .. NumColumns -> SUBSET (1 .. n)]
    /\ col = 1 /\ i = 1

(* A column after from = Count is left out, that is, has no iteration. *)
InColumn == col <= NumColumns

CompareLanes ==
    /\ InColumn /\ i + lanes - 1 <= Count
    /\ part' = VisitLanes(part, i, lanes, differs[col])
    /\ i' = i + lanes
    /\ UNCHANGED <<lanes, differs, col>>

(* "Handle remaining row(s)" *)
CompareRest ==
    /\ InColumn /\ i <= Count /\ i + lanes - 1 > Count
    /\ part' = VisitOne(part, i, differs[col])
    /\ i' = i + 1
    /\ UNCHANGED <<lanes, differs, col>>

(* Mutant: the rows that fill no vector are left out. *)
NextColumn_no_rest ==
    /\ InColumn /\ i + lanes - 1 > Count
    /\ col' = col + 1
    /\ i' = part.from + 1
    /\ UNCHANGED <<lanes, differs, part>>

(* The next column is given the list behind idx_from. *)
NextColumn ==
    /\ InColumn /\ i > Count
    /\ col' = col + 1
    /\ i' = part.from + 1
    /\ UNCHANGED <<lanes, differs, part>>

Next == CompareLanes \/ CompareRest \/ NextColumn
Spec == Init /\ [][Next]_vars
-----------------------------------------------------------------------------
(* Properties. *)

(***************************************************************************)
(* No row is lost from the list or listed twice, although entries move      *)
(* while later ones are still to be read.                                   *)
(***************************************************************************)
RowsKept == {part.indices[k] : k \in 1 .. Count} = 1 .. Count

(***************************************************************************)
(* The front holds rows that differ in a column, and what the loop has      *)
(* passed behind it are rows equal in every column so far, whatever the     *)
(* number of lanes.                                                         *)
(***************************************************************************)
FrontDiffers ==
    /\ part.from <= Count
    /\ \A k \in 1 .. part.from :
          \E c \in 1 .. col : c <= NumColumns /\ part.indices[k] \in differs[c]
    /\ \A k \in part.from + 1 .. Count :
          /\ \A c \in 1 .. col - 1 : part.indices[k] \notin differs[c]
          /\ k < i /\ col <= NumColumns => part.indices[k] \notin differs[col]
=============================================================================

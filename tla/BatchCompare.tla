---------------------------- MODULE BatchCompare ----------------------------
(***************************************************************************)
(* The partition of rust/src/batch_compare.rs: the rows of an index list    *)
(* whose key differs from their group's are swapped to its front.  Which    *)
(* rows differ is the set `unequal'; every variant (i64, i32, varchar,      *)
(* cached varchar) has the loop below and only reads the keys differently.  *)
(* A null pointer or a null marker makes a varchar row differ.              *)
(***************************************************************************)
EXTENDS Naturals, Sequences, FiniteSets

(* indices.swap(i, j) *)
Swap(indices, i, j) == [indices EXCEPT ![i] = indices[j], ![j] = indices[i]]

(* Mutant: the differing row is copied to the front. *)
ToFront_copy(part, i) ==
    [indices |-> [part.indices EXCEPT ![part.from + 1] = part.indices[i]],
     from |-> part.from + 1]

(* The entry at i joins the front. *)
ToFront(part, i) ==
    [indices |-> Swap(part.indices, i, part.from + 1), from |-> part.from + 1]

(* One iteration of a scalar loop. *)
VisitOne(part, i, unequal) ==
    IF part.indices[i] \in unequal THEN ToFront(part, i) ELSE part

(* "if mask == 0": the entry at i joins the front if its lane differed. *)
MoveLane(part, i, differ) == IF i \in differ THEN ToFront(part, i) ELSE part

(***************************************************************************)
(* One iteration of a vector loop of one, two or four lanes: the comparison *)
(* of all lanes is done before the first of them is swapped.                *)
(***************************************************************************)
VisitLanes(part, i, lanes, unequal) ==
    LET differ == {j \in i .. i + lanes - 1 : part.indices[j] \in unequal}
        lane0 == MoveLane(part, i, differ)
        lane1 == MoveLane(lane0, i + 1, differ)
        lane2 == MoveLane(lane1, i + 2, differ)
    IN MoveLane(lane2, i + 3, differ)

(* A whole scalar loop over the entries behind the first `base' ones. *)
ComparePass(indices, base, unequal) ==
    LET visited[n \in 0 .. Len(indices) - base] ==
            IF n = 0 THEN [indices |-> indices, from |-> base]
            ELSE VisitOne(visited[n - 1], base + n, unequal)
    IN visited[Len(indices) - base]
=============================================================================

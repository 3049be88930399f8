---------------------------- MODULE MCProbeOnly ----------------------------
(***************************************************************************)
(* run_hashmap_probe_only on sixteen rows, with the chunks, tags and load   *)
(* threshold of the code: two chunks are made for them.  Nine of the keys   *)
(* have their home in chunk 0 of four, the last of them the last row.       *)
(***************************************************************************)
EXTENDS MapWorkload

MCKeys == 1 .. 16
MCHashOf == [k \in MCKeys |-> IF k <= 8 THEN 4 * k ELSE IF k < 16 THEN 2 * k + 1 ELSE 4 * k]
MCOperations == {[i \in 1 .. 16 |-> i]}
=============================================================================

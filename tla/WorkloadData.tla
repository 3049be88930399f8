---------------------------- MODULE WorkloadData ----------------------------
(***************************************************************************)
(* What the benchmark drivers of rust/src/bin hand to the library: the rows *)
(* of gen_data, as their keys, the size of the table made for them, and the *)
(* slices of at most BATCH_SIZE rows they are passed in.  How a key is      *)
(* spelled and hashed is left out.                                          *)
(***************************************************************************)
EXTENDS TaperTable

CONSTANTS
    BATCH_SIZE,            \* 410 in the code
    NUM_PROBE_ROWS,        \* 1000000
    FILL_NUM, FILL_DEN     \* tables are made for a load of 0.85

ASSUME WorkloadAssumption ==
    /\ BATCH_SIZE \in Nat \ {0}
    /\ NUM_PROBE_ROWS \in Nat \ {0}
    /\ FILL_DEN \in Nat \ {0}
    /\ FILL_NUM \in 1 .. FILL_DEN

(***************************************************************************)
(* The rows: the distinct keys of the table first, then NUM_PROBE_ROWS      *)
(* probes in any order, num_hits of them for keys of the table and each of  *)
(* the others for a key of its own.                                         *)
(***************************************************************************)
GenData(build, num_hits, keys) ==
    {build \o probe : probe \in {p \in [1 .. NUM_PROBE_ROWS -> keys] :
        LET of_table == {build[i] : i \in DOMAIN build}
            misses == {i \in DOMAIN p : p[i] \notin of_table} IN
        /\ Cardinality(misses) = NUM_PROBE_ROWS - num_hits
        /\ \A i, j \in misses : p[i] = p[j] => i = j}}

(* What main, which never looks at the rows, takes the number of keys for. *)
DistinctKeys(num_keys, num_hits) == num_keys + (NUM_PROBE_ROWS - num_hits)

-----------------------------------------------------------------------------
(* The size of the table. *)

MaxSlots(a, b) == IF a > b THEN a ELSE b
ChunksFor(slots) == (slots + SLOTS_PER_CHUNK - 1) \div SLOTS_PER_CHUNK

(* Mutant: a slot for every key and none to spare. *)
MinSlots_exact(distinct) == MaxSlots(distinct, SLOTS_PER_CHUNK)

(* ((distinct_keys as f64 / 0.85) as usize).max(8) *)
MinSlots(distinct) == MaxSlots((distinct * FILL_DEN) \div FILL_NUM, SLOTS_PER_CHUNK)
MainChunks(distinct) == NextPowerOfTwo(ChunksFor(MinSlots(distinct)))

(* micro_hashmap_bench doubles until there is a slot for every row as well. *)
MicroChunks(num_keys, total_rows) ==
    NextPowerOfTwo(ChunksFor(MaxSlots((num_keys * FILL_DEN) \div FILL_NUM, total_rows)))

(* micro_functions_bench leaves out the margin. *)
FunctionsChunks(num_ops) == NextPowerOfTwo(ChunksFor(num_ops))

-----------------------------------------------------------------------------
(* The slices. *)

(* Mutant: a last batch that is not full is forgotten. *)
NumBatches_full(total_rows) == total_rows \div BATCH_SIZE

NumBatches(total_rows) == (total_rows + BATCH_SIZE - 1) \div BATCH_SIZE

(* Rows start .. end - 1 of the code, batch_idx counting from 0. *)
BatchOf(data, batch_idx) ==
    LET start == batch_idx * BATCH_SIZE
        end == IF start + BATCH_SIZE < Len(data) THEN start + BATCH_SIZE ELSE Len(data) IN
    SubSeq(data, start + 1, end)
=============================================================================

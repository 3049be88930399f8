----------------------------- MODULE MapWorkload -----------------------------
(***************************************************************************)
(* The callers of TaperHashMap::emplace_batch_full: anyone, with batches of *)
(* any kind, or one of the drivers that run the map without the pipeline.   *)
(* Those take equal hashes for equal keys (key_cmp is constantly true),     *)
(* count their hits in on_update and report table.len() + sum.              *)
(***************************************************************************)
EXTENDS EmplaceBatchFull, WorkloadData

CONSTANTS
    AnyRequests,     \* the tables of the callers that are no driver
    Builds,          \* the keys gen_data may start with, as sequences
    Operations       \* the rows of micro_functions_bench

ASSUME DriverAssumption ==
    /\ AnyRequests \subseteq Requests
    /\ \A B \in Builds : B \in Seq(Keys) /\ B # <<>>
    /\ \A B \in Builds : \A i, j \in DOMAIN B : B[i] = B[j] => i = j
    /\ \A B \in Operations : B \in Seq(Keys)
    /\ \A j, k \in Keys : HashOf[j] = HashOf[k] => j = k
    /\ \A B \in Builds, num_hits \in 0 .. NUM_PROBE_ROWS :
          ChunksFor(MinSlots(DistinctKeys(Len(B), num_hits))) <= MOST_CHUNKS
    /\ \A B \in Builds : \A total_rows \in {0, Len(B) + NUM_PROBE_ROWS} :
          ChunksFor(MaxSlots((Len(B) * FILL_DEN) \div FILL_NUM, total_rows)) <= MOST_CHUNKS

VARIABLES
    driver,       \* who calls
    data,         \* all rows of a driver, as their keys
    batch_idx,
    sum           \* the hits counted by on_update

driverVars == <<driver, data, batch_idx, sum>>
workVars == <<allVars, driverVars>>

(***************************************************************************)
(* The drivers and their tables: micro_pipeline_bench's cases A and C       *)
(* ("hashmap_only") and C2 ("plus_serialize"), micro_hashmap_bench          *)
(* ("insert_probe"), whose probes are all hits, micro_cases_bench           *)
(* ("empty_row"), whose hashes are all different, and micro_functions_bench *)
(* ("probe_only").                                                          *)
(***************************************************************************)
StartPipelineCases ==
    /\ driver \in {"hashmap_only", "plus_serialize"}
    /\ \E build \in Builds, num_hits \in 0 .. NUM_PROBE_ROWS :
         /\ num_chunks = WithCapacity(MainChunks(DistinctKeys(Len(build), num_hits)))
         /\ data \in GenData(build, num_hits, Keys)

StartInsertProbe ==
    /\ driver = "insert_probe"
    /\ \E build \in Builds :
         /\ num_chunks = WithCapacity(MicroChunks(Len(build), Len(build) + NUM_PROBE_ROWS))
         /\ data \in GenData(build, NUM_PROBE_ROWS, Keys)

StartEmptyRow ==
    /\ driver = "empty_row"
    /\ data \in Builds
    /\ num_chunks = WithCapacity(MicroChunks(Len(data), 0))

StartProbeOnly ==
    /\ driver = "probe_only"
    /\ data \in Operations
    /\ num_chunks = WithCapacity(FunctionsChunks(Len(data)))

WorkInit ==
    /\ BatchInit
    /\ batch_idx = 0 /\ sum = 0
    /\ \/ driver = "any" /\ data = <<>> /\ num_chunks \in {WithCapacity(r) : r \in AnyRequests}
       \/ StartPipelineCases \/ StartInsertProbe \/ StartEmptyRow \/ StartProbeOnly

AnyCall(B) ==
    /\ driver = "any"
    /\ EmplaceBatch(B)
    /\ UNCHANGED driverVars

(* One call for all rows. *)
OneCall(d) ==
    /\ driver = d
    /\ batch_idx = 0
    /\ EmplaceBatch(data)
    /\ batch_idx' = 1
    /\ UNCHANGED <<driver, data, sum>>

RunHashmapOnly == OneCall("hashmap_only")
RunInsertProbe == OneCall("insert_probe")
RunHashmapPlusEmptyRow == OneCall("empty_row")
RunHashmapProbeOnly == OneCall("probe_only")

(* Slice after slice. *)
RunHashmapPlusSerialize ==
    /\ driver = "plus_serialize"
    /\ batch_idx < NumBatches(Len(data))
    /\ EmplaceBatch(BatchOf(data, batch_idx))
    /\ batch_idx' = batch_idx + 1
    /\ UNCHANGED <<driver, data, sum>>

(* A step of a call, with the driver's on_update: a row given an old slot   *)
(* is a hit.                                                                *)
CountedStep ==
    /\ BatchStep
    /\ sum' = IF driver # "any" /\ rows' = rows /\ served' # served
                THEN sum + 1 ELSE sum
    /\ UNCHANGED <<driver, data, batch_idx>>

DriverStep ==
    \/ RunHashmapOnly \/ RunInsertProbe \/ RunHashmapPlusEmptyRow \/ RunHashmapProbeOnly
    \/ RunHashmapPlusSerialize \/ CountedStep

WorkNext == (\E B \in Batches : AnyCall(B)) \/ DriverStep
WorkSpec == WorkInit /\ [][WorkNext]_workVars /\ WF_workVars(DriverStep)
-----------------------------------------------------------------------------
(* Properties. *)

Finished ==
    /\ phase = "none"
    /\ CASE driver = "any" -> FALSE
         [] driver = "plus_serialize" -> batch_idx = NumBatches(Len(data))
         [] OTHER -> batch_idx = 1

(***************************************************************************)
(* The number a driver reports accounts for every row it was to pass, and   *)
(* its new slots are the distinct hashes of the rows: no row is dropped by  *)
(* a growing table, left out between two slices, or given a slot of its     *)
(* own although its hash has one.  The tables of micro_functions_bench do   *)
(* grow; the property is about the other drivers.                           *)
(***************************************************************************)
RowsCounted ==
    Finished /\ driver # "probe_only" =>
        /\ size + sum = Len(data)
        /\ size = Cardinality({HashOf[data[i]] : i \in DOMAIN data})
=============================================================================

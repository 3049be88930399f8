-------------------------- MODULE PipelineWorkload --------------------------
(***************************************************************************)
(* The callers of TaperColumnSerializeHandler: anyone, with batches of any  *)
(* kind, or run_workload of the drivers, which passes the rows of gen_data  *)
(* in slices to a handler whose map was made for them.                      *)
(***************************************************************************)
EXTENDS SerializeHandler, WorkloadData

CONSTANTS
    AnyRequests,     \* the tables of the callers that are no driver
    AnyCalls,        \* bounds the number of their calls
    DriverKeys,      \* the keys of gen_data
    Builds           \* the keys gen_data may start with, as sequences

(* The drivers' 64-bit hashes are taken to differ where their keys do. *)
ASSUME DriverAssumption ==
    /\ AnyRequests \subseteq Requests
    /\ AnyCalls \in 0 .. MaxCalls
    /\ DriverKeys \subseteq Keys
    /\ \A B \in Builds : B \in Seq(DriverKeys) /\ B # <<>>
    /\ \A B \in Builds : \A i, j \in DOMAIN B : B[i] = B[j] => i = j
    /\ \A j, k \in DriverKeys : HashOf[j] = HashOf[k] => j = k
    /\ \A c \in DOMAIN AggValues : BATCH_SIZE <= Len(AggValues[c])
    /\ 2 * BATCH_SIZE <= Capacity(MOST_CHUNKS)
    /\ \A B \in Builds, num_hits \in 0 .. NUM_PROBE_ROWS :
          ChunksFor(MinSlots(DistinctKeys(Len(B), num_hits))) <= MOST_CHUNKS

VARIABLES
    driver,       \* who calls
    data,         \* all rows of a driver, as their keys
    batch_idx

driverVars == <<driver, data, batch_idx>>
workVars == <<pipelineVars, driverVars>>

(* The table is made by main or gen_data, the rows by gen_data. *)
StartRunWorkload ==
    /\ driver = "run_workload"
    /\ \E build \in Builds, num_hits \in 0 .. NUM_PROBE_ROWS :
         /\ num_chunks = WithCapacity(MainChunks(DistinctKeys(Len(build), num_hits)))
         /\ data \in GenData(build, num_hits, DriverKeys)

WorkInit ==
    /\ HandlerInit
    /\ batch_idx = 0
    /\ \/ driver = "any" /\ data = <<>> /\ num_chunks \in {WithCapacity(r) : r \in AnyRequests}
       \/ StartRunWorkload

AnyCall(B) ==
    /\ driver = "any" /\ calls < AnyCalls
    /\ EmplaceTableWithDecode(B)
    /\ UNCHANGED driverVars

RunWorkload ==
    /\ driver = "run_workload"
    /\ batch_idx < NumBatches(Len(data))
    /\ EmplaceTableWithDecode(BatchOf(data, batch_idx))
    /\ batch_idx' = batch_idx + 1
    /\ UNCHANGED <<driver, data>>

PipelineStep == HandlerStep /\ UNCHANGED driverVars

NumGroups == Len(rows)

WorkNext == (\E B \in Batches : AnyCall(B)) \/ RunWorkload \/ PipelineStep
WorkSpec == WorkInit /\ [][WorkNext]_workVars /\ WF_workVars(RunWorkload \/ PipelineStep)
-----------------------------------------------------------------------------
(* Properties. *)

(***************************************************************************)
(* A table that holds groups is never made anew for a driver, neither by an *)
(* expansion nor by the presizing that would lose them: the 0.85 its size   *)
(* was computed with keeps it below the 0.9 where it grows, and one smaller *)
(* than a batch is replaced before the first row.                           *)
(***************************************************************************)
TableKept == [][driver # "any" /\ num_chunks' # num_chunks => size = 0]_workVars

(***************************************************************************)
(* What a driver reports is right, and does not rest on the second stage:   *)
(* num_groups is the number of different keys in its rows, every one of     *)
(* them a group of its own, and no row ever met another key's group.        *)
(***************************************************************************)
ResultRight ==
    driver # "any" =>
        /\ idx_from = 0
        /\ step = "ready" /\ batch_idx = NumBatches(Len(data)) =>
             /\ NumGroups = Cardinality({data[i] : i \in DOMAIN data})
             /\ {rows[i] : i \in DOMAIN rows} = {data[i] : i \in DOMAIN data}
             /\ size = NumGroups
=============================================================================

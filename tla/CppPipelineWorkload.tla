------------------------ MODULE CppPipelineWorkload ------------------------
(***************************************************************************)
(* The callers of the C++ handler: anyone, or RunWorkload of the C++        *)
(* drivers, whose rows, table size and slices are computed as in Rust.      *)
(***************************************************************************)
EXTENDS PipelineWorkload, CppSerializeHandler

CppAnyCall(B) ==
    /\ driver = "any" /\ calls < AnyCalls
    /\ CppEmplaceTableWithDecode(B)
    /\ UNCHANGED driverVars

(* Mutant: the batch number where its first row is meant. *)
CppRunWorkload_unscaled ==
    /\ driver = "run_workload"
    /\ batch_idx < NumBatches(Len(data))
    /\ CppEmplaceTableWithDecode(
            SubSeq(data, batch_idx + 1, batch_idx + Len(BatchOf(data, batch_idx))))
    /\ batch_idx' = batch_idx + 1
    /\ UNCHANGED <<driver, data>>

CppRunWorkload ==
    /\ driver = "run_workload"
    /\ batch_idx < NumBatches(Len(data))
    /\ CppEmplaceTableWithDecode(BatchOf(data, batch_idx))
    /\ batch_idx' = batch_idx + 1
    /\ UNCHANGED <<driver, data>>

CppPipelineStep == CppHandlerStep /\ UNCHANGED driverVars

CppWorkNext ==
    (\E B \in Batches : CppAnyCall(B)) \/ CppRunWorkload \/ CppPipelineStep
CppWorkSpec ==
    WorkInit /\ [][CppWorkNext]_workVars /\ WF_workVars(CppRunWorkload \/ CppPipelineStep)
=============================================================================

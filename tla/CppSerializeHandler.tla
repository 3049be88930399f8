------------------------ MODULE CppSerializeHandler ------------------------
(***************************************************************************)
(* TaperColumnSerializeHandler of cpp/include/column_marshaller.h.  The     *)
(* stages are those of the Rust handler; the map is the C++ one, it is      *)
(* never replaced, so a small one takes a batch through                     *)
(* EmplaceBatchDirectly, and groups_ (`served') follows the second stage.   *)
(***************************************************************************)
EXTENDS SerializeHandler, CppHashTable

(* "if (rowsNum <= 0) return": batches have rows.  Entries that groups_ keeps  *)
(* from an earlier call are written before they are read; here they are 0.   *)
CppEmplaceTableWithDecode(B) ==
    /\ step = "ready" /\ calls < MaxCalls
    /\ batch' = B
    /\ served' = [r \in DOMAIN B |-> 0]
    /\ dropped' = {}
    /\ update_indices' = FreshUpdates
    /\ input_total' = [k \in Keys |-> input_total[k] + PassedIn(B, k)]
    /\ step' = "sized"
    /\ UNCHANGED <<tableVars, rehashVars, pc, emplaceVars, phase, resume, idx, cur_count,
                   arrays, batch_collisions, batch_round, retryVars, calls, stageVars, agg>>

CppBatchCallback ==
    /\ step = "batch"
    /\ CppBatchStep
    /\ IF \E r \in DOMAIN batch : served'[r] # served[r]
         THEN LET r == CHOOSE r \in DOMAIN batch : served'[r] # served[r] IN
              IF rows' # rows
                THEN agg' = Append(agg, AggValue(r)) /\ UNCHANGED update_indices
                ELSE update_indices' = Append(update_indices, r) /\ UNCHANGED agg
         ELSE UNCHANGED <<agg, update_indices>>
    /\ UNCHANGED <<step, stageVars, input_total>>

(* GetUnequalsNumWithDecode: the swap partition over the columns, from a cache *)
(* of varchar pointers that is cleared first.                                 *)
GetUnequalsNumWithDecode == CompareColumn \/ CompareDone

CppReemplaceCall ==
    /\ Visiting /\ ui <= idx_from /\ pc = "idle"
    /\ CppEmplace(batch[InputRow])
    /\ UNCHANGED <<batchVars, handlerVars>>

Matches == IF pc = "probe" THEN ColumnMatches ELSE {}
CppReemplaceProbe ==
    /\ Visiting /\ pc # "idle"
    /\ CppSearch(Matches)
    /\ UNCHANGED <<batchVars, handlerVars>>

GroupSet(r, v) == [served EXCEPT ![r] = v]

(* The last callback of Emplace notes the row's group, new or not. *)
CppGroupFound ==
    /\ Visiting
    /\ \/ /\ FoundIn(Matches)
          /\ agg' = [agg EXCEPT ![result'.value] = AddAgg(@, AggValue(InputRow))]
       \/ /\ InsertUnless(Matches)
          /\ agg' = Append(agg, AggValue(InputRow))
    /\ served' = GroupSet(InputRow, result'.value)
    /\ ui' = ui + 1
    /\ UNCHANGED <<batch, phase, resume, idx, cur_count, arrays, batch_collisions,
                   batch_round, retryVars, dropped, calls,
                   step, update_indices, working_indices, idx_from, col, input_total>>

CppHandlerStep ==
    \/ StartBatch \/ CppBatchCallback \/ NothingToCompare
    \/ StartCompare \/ GetUnequalsNumWithDecode
    \/ CppReemplaceCall \/ CppReemplaceProbe \/ CppGroupFound
    \/ Accumulate \/ CallReturns

CppHandlerNext == (\E B \in Batches : CppEmplaceTableWithDecode(B)) \/ CppHandlerStep

CppHandlerSpec == HandlerInit /\ [][CppHandlerNext]_pipelineVars
CppHandlerFairSpec == CppHandlerSpec /\ WF_pipelineVars(CppHandlerStep)

(***************************************************************************)
(* AggChecksum walks the slots of the table, not the rows, and adds up what *)
(* the rows of the used ones have, in a signed word that wraps around.      *)
(***************************************************************************)
SlotAgg(j) ==
    LET slot == chunks[(j - 1) \div SLOTS_PER_CHUNK][(j - 1) % SLOTS_PER_CHUNK] IN
    IF slot.tag # EMPTY_TAG THEN agg[slot.value] ELSE 0
SlotsTotal(n) == SumTo([j \in 1 .. Capacity(n) |-> SlotAgg(j)], Capacity(n)) % AGG_WRAP

(* Mutant: the last chunk's index taken for the number of chunks. *)
AggChecksum_short == SlotsTotal(num_chunks - 1)

AggChecksum == SlotsTotal(num_chunks)
-----------------------------------------------------------------------------
(* Properties, besides HandlerTypeOK, ValuesConserved. *)

(***************************************************************************)
(* Between the calls groups_ names, for every row of the last batch, the    *)
(* only group of the row's own key, through whichever stage it went.        *)
(***************************************************************************)
GroupsRight ==
    /\ step = "ready" => \A r \in DOMAIN batch : rows[served[r]] = batch[r]
    /\ \A i, j \in DOMAIN rows : rows[i] = rows[j] => i = j

(* The keys in some order, to add up what was passed in for them. *)
KeyOrder ==
    LET n == Cardinality(Keys) IN
    CHOOSE q \in [1 .. n -> Keys] : \A i, j \in 1 .. n : q[i] = q[j] => i = j
PassedTotal ==
    SumTo([i \in 1 .. Cardinality(Keys) |-> input_total[KeyOrder[i]]], Cardinality(Keys))

(* The slots of the table account for every value passed in. *)
ChecksumRight ==
    step = "ready" => AggChecksum = PassedTotal % AGG_WRAP

(***************************************************************************)
(* A C++ call returns, although the load is tested in a full chunk only and *)
(* the table may have no empty slot when one of its probes starts.          *)
(***************************************************************************)
CppHandlerReturns == step # "ready" ~> step = "ready"
=============================================================================

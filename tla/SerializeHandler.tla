-------------------------- MODULE SerializeHandler --------------------------
(***************************************************************************)
(* TaperColumnSerializeHandler of rust/src/column_marshaller.rs: a batch of *)
(* rows with several key columns is grouped in two stages.  The map's batch *)
(* insertion, which only knows hashes, gives every row a candidate group;   *)
(* the rows whose key is not the candidate's go through emplace one by one, *)
(* now with their columns compared; the others are added to their           *)
(* candidate.                                                               *)
(*                                                                          *)
(* A key is the tuple of its column values.  The code's groups vector is    *)
(* `served': the row each input row was given, 0 for null.                  *)
(***************************************************************************)
EXTENDS EmplaceBatchFull, BatchCompare, Sums, FiniteSetsExt

CONSTANTS
    Columns,      \* col_descs: "Int64" or "Varchar" per key column
    AggValues,    \* per call, the agg_values of its rows
    AGG_WRAP      \* number of aggregates, 2^64: negative ones are the upper half

ASSUME HandlerAssumption ==
    /\ Columns \in Seq({"Int64", "Varchar"})
    /\ \A k \in Keys : k = [c \in DOMAIN Columns |-> k[c]]
    /\ AGG_WRAP \in Nat \ {0}
    /\ AggValues \in Seq(Seq(0 .. AGG_WRAP - 1)) /\ Len(AggValues) = MaxCalls
    /\ \A c \in DOMAIN AggValues : \A B \in Batches : Len(B) <= Len(AggValues[c])
    /\ \A B \in Batches : 2 * Len(B) <= Capacity(MOST_CHUNKS)

VARIABLES
    step,               \* "ready", "sized", "batch", "compare", "groups"
    update_indices,     \* rows that met an existing group, in that order
    working_indices,    \* the same rows, while they are partitioned and visited
    idx_from,           \* the differing rows are the first idx_from of them
    col,                \* the column being compared
    ui,                 \* the entry of working_indices being visited
    agg,                \* per stored row, its aggregate
    input_total         \* per key, what the caller has passed so far

handlerVars == <<step, update_indices, working_indices, idx_from, col, ui, agg, input_total>>
stageVars == <<working_indices, idx_from, col, ui>>
pipelineVars == <<allVars, handlerVars>>

HandlerInit ==
    /\ BatchInit
    /\ step = "ready" /\ update_indices = <<>>
    /\ working_indices = <<>> /\ idx_from = 0 /\ col = 1 /\ ui = 1
    /\ agg = <<>> /\ input_total = [k \in Keys |-> 0]

(* The map's batch call, which is what counts the calls, comes after presizing. *)
AggValue(r) == AggValues[IF step = "sized" THEN calls + 1 ELSE calls][r]

(* What the next call's rows of key k bring. *)
PassedIn(B, k) ==
    SumTo([r \in DOMAIN B |-> IF B[r] = k THEN AggValues[calls + 1][r] ELSE 0], Len(B))

(* Mutant: a sum that does not fit stays at the largest value. *)
AddAgg_saturating(a, v) == IF a + v < AGG_WRAP THEN a + v ELSE AGG_WRAP - 1

(* += on i64, in a build without overflow checks. *)
AddAgg(a, v) == (a + v) % AGG_WRAP

-----------------------------------------------------------------------------
(* Key columns of a stored row. *)

VarcharColumns == {c \in DOMAIN Columns : Columns[c] = "Varchar"}
UseMerged == Cardinality(VarcharColumns) > 1

(***************************************************************************)
(* Merged varchars lie in one block, and only the row's first varchar slot  *)
(* points to it; the other slots stay null in the zeroed row.               *)
(***************************************************************************)
HasPointer(c) == UseMerged => \A d \in VarcharColumns : c <= d

(* compare_keys_with_decode reads a pointer at every varchar column. *)
CompareKeysWithDecode(k, stored) ==
    \A c \in DOMAIN Columns :
        k[c] = stored[c] /\ (Columns[c] = "Varchar" => HasPointer(c))

(***************************************************************************)
(* The batch comparison finds every varchar: alone through its slot, merged *)
(* through the walk of the block that fills merged_cache.                   *)
(***************************************************************************)
Differing(c) == {r \in DOMAIN batch : served[r] # 0 /\ rows[served[r]][c] # batch[r][c]}

-----------------------------------------------------------------------------
FreshUpdates == <<>>

(***************************************************************************)
(* A call.  A map with less than one slot per row is replaced by an empty   *)
(* one, and the buffers kept between calls are cleared.                     *)
(***************************************************************************)
EmplaceTableWithDecode(B) ==
    /\ step = "ready" /\ calls < MaxCalls
    /\ IF Capacity(num_chunks) < Len(B)
         THEN LET want == Max({2 * num_chunks, Len(B) \div SLOTS_PER_CHUNK + 1})
                  n == WithCapacity(NextPowerOfTwo(want)) IN
              /\ num_chunks' = n
              /\ chunks' = AllocChunks(n)
              /\ size' = 0
         ELSE UNCHANGED tableVars
    /\ batch' = B
    /\ served' = [r \in DOMAIN B |-> 0]
    /\ dropped' = {}
    /\ update_indices' = FreshUpdates
    /\ input_total' = [k \in Keys |-> input_total[k] + PassedIn(B, k)]
    /\ step' = "sized"
    /\ UNCHANGED <<rehashVars, pc, emplaceVars, phase, resume, idx, cur_count, arrays,
                   batch_collisions, batch_round, retryVars, calls, stageVars, agg>>

StartBatch ==
    /\ step = "sized"
    /\ EmplaceBatch(batch)
    /\ step' = "batch"
    /\ UNCHANGED <<update_indices, stageVars, agg, input_total>>

(***************************************************************************)
(* A step of the batch insertion, with what its callbacks do here: on_init  *)
(* stores the row's key and value, on_update notes a row that met a group.  *)
(***************************************************************************)
BatchCallback ==
    /\ step = "batch"
    /\ BatchStep
    /\ IF \E r \in DOMAIN batch : served'[r] # served[r]
         THEN LET r == CHOOSE r \in DOMAIN batch : served'[r] # served[r] IN
              IF rows' # rows
                THEN agg' = Append(agg, AggValue(r)) /\ UNCHANGED update_indices
                ELSE update_indices' = Append(update_indices, r) /\ UNCHANGED agg
         ELSE UNCHANGED <<agg, update_indices>>
    /\ UNCHANGED <<step, stageVars, input_total>>

(* "if count == 0 { return; }" *)
NothingToCompare ==
    /\ step = "batch" /\ phase = "none" /\ update_indices = <<>>
    /\ step' = "ready"
    /\ UNCHANGED <<allVars, update_indices, stageVars, agg, input_total>>

StartCompare ==
    /\ step = "batch" /\ phase = "none" /\ update_indices # <<>>
    /\ working_indices' = update_indices /\ update_indices' = <<>>
    /\ idx_from' = 0 /\ col' = 1
    /\ step' = "compare"
    /\ UNCHANGED <<allVars, ui, agg, input_total>>

(* Mutant: the next column's count replaces the earlier ones. *)
ColumnFrom_replaced(part) == part.from - idx_from

ColumnFrom(part) == part.from

(* One column; the loop over the columns ends early when all rows differ. *)
CompareColumn ==
    /\ step = "compare" /\ col <= Len(Columns) /\ idx_from < Len(working_indices)
    /\ LET part == ComparePass(working_indices, idx_from, Differing(col)) IN
         /\ working_indices' = part.indices
         /\ idx_from' = ColumnFrom(part)
    /\ col' = col + 1
    /\ UNCHANGED <<allVars, step, update_indices, ui, agg, input_total>>

CompareDone ==
    /\ step = "compare"
    /\ col > Len(Columns) \/ idx_from >= Len(working_indices)
    /\ step' = "groups" /\ ui' = 1 /\ col' = 1
    /\ UNCHANGED <<allVars, update_indices, working_indices, idx_from, agg, input_total>>

-----------------------------------------------------------------------------
(* The differing rows: emplace with the columns compared. *)

Visiting == step = "groups" /\ ui <= Len(working_indices)
InputRow == working_indices[ui]
ColumnMatches ==
    {s \in HashMatches(chunks[pos], HashOf[row]) :
        CompareKeysWithDecode(row, rows[chunks[pos][s].value])}

ReemplaceCall ==
    /\ Visiting /\ ui <= idx_from /\ pc = "idle"
    /\ Emplace(batch[InputRow])
    /\ UNCHANGED <<batchVars, handlerVars>>

ReemplaceProbe ==
    /\ Visiting /\ pc # "idle"
    /\ (ExpandStep /\ UNCHANGED emplaceVars) \/ Locate \/ NextUnless(ColumnMatches)
    /\ UNCHANGED <<batchVars, handlerVars>>

ReemplaceOld ==
    /\ Visiting
    /\ FoundIn(ColumnMatches)
    /\ agg' = [agg EXCEPT ![result'.value] = AddAgg(@, AggValue(InputRow))]
    /\ ui' = ui + 1
    /\ UNCHANGED <<batchVars, step, update_indices, working_indices, idx_from, col,
                   input_total>>

ReemplaceNew ==
    /\ Visiting
    /\ InsertUnless(ColumnMatches)
    /\ agg' = Append(agg, AggValue(InputRow))
    /\ ui' = ui + 1
    /\ UNCHANGED <<batchVars, step, update_indices, working_indices, idx_from, col,
                   input_total>>

(* The rows that are equal to their candidate. *)
Accumulate ==
    /\ Visiting /\ ui > idx_from
    /\ agg' = [agg EXCEPT ![served[InputRow]] = AddAgg(@, AggValue(InputRow))]
    /\ ui' = ui + 1
    /\ UNCHANGED <<allVars, step, update_indices, working_indices, idx_from, col, input_total>>

(* The list goes back to the handler, to be cleared by the next call. *)
CallReturns ==
    /\ step = "groups" /\ ui > Len(working_indices)
    /\ update_indices' = working_indices
    /\ working_indices' = <<>> /\ idx_from' = 0 /\ ui' = 1
    /\ step' = "ready"
    /\ UNCHANGED <<allVars, col, agg, input_total>>

HandlerStep ==
    \/ StartBatch \/ BatchCallback \/ NothingToCompare
    \/ StartCompare \/ CompareColumn \/ CompareDone
    \/ ReemplaceCall \/ ReemplaceProbe \/ ReemplaceOld \/ ReemplaceNew
    \/ Accumulate \/ CallReturns

HandlerNext == (\E B \in Batches : EmplaceTableWithDecode(B)) \/ HandlerStep

HandlerSpec == HandlerInit /\ [][HandlerNext]_pipelineVars
HandlerFairSpec == HandlerSpec /\ WF_pipelineVars(HandlerStep)
-----------------------------------------------------------------------------
(* Properties. *)

HandlerTypeOK ==
    /\ TypeOK /\ BatchTypeOK
    /\ step \in {"ready", "sized", "batch", "compare", "groups"}
    /\ step # "ready" => update_indices \in Seq(DOMAIN batch)
    /\ working_indices \in Seq(DOMAIN batch)
    /\ idx_from \in 0 .. Len(working_indices)
    /\ col \in 1 .. Len(Columns) + 1
    /\ ui \in 1 .. Len(working_indices) + 1
    /\ agg \in Seq(0 .. AGG_WRAP - 1) /\ Len(agg) = Len(rows)
    /\ input_total \in [Keys -> Nat]

(* The rows of the call whose value is in no group yet. *)
ToAdd ==
    CASE step = "sized" -> DOMAIN batch
      [] step = "batch" ->
            {r \in DOMAIN batch : served[r] = 0} \cup
            {update_indices[i] : i \in DOMAIN update_indices}
      [] step \in {"compare", "groups"} ->
            {working_indices[i] : i \in ui .. Len(working_indices)}
      [] OTHER -> {}

GroupTotal(k) ==
    SumTo([i \in DOMAIN rows |-> IF rows[i] = k THEN agg[i] ELSE 0], Len(rows))
StillToAdd(k) ==
    SumTo([r \in DOMAIN batch |-> IF r \in ToAdd /\ batch[r] = k THEN AggValue(r) ELSE 0],
          Len(batch))

(***************************************************************************)
(* Every value passed in is in a group of its own key or still to be added, *)
(* and is counted once: through the batch insertion and its expansions, the *)
(* swaps of the comparison and both ways of the second stage.  Sums that    *)
(* wrap around do so in the order the rows were added in, and still agree   *)
(* with the whole.                                                          *)
(***************************************************************************)
ValuesConserved ==
    \A k \in Keys : (GroupTotal(k) + StillToAdd(k)) % AGG_WRAP = input_total[k] % AGG_WRAP

(***************************************************************************)
(* The two stages together give no key two groups, although the first one   *)
(* takes equal hashes for equal keys and a rehash may change which of two   *)
(* equal hashes it meets first.                                             *)
(***************************************************************************)
GroupsDistinct == \A i, j \in DOMAIN rows : rows[i] = rows[j] => i = j

(***************************************************************************)
(* The second stage looks up exactly the rows whose candidate is not their  *)
(* key's group, and adds the others to the right one.                       *)
(***************************************************************************)
CandidatesSorted ==
    step = "groups" =>
        \A i \in DOMAIN working_indices :
            LET r == working_indices[i] IN
            i <= idx_from <=> rows[served[r]] # batch[r]

(* A call returns. *)
HandlerReturns == step # "ready" ~> step = "ready"
=============================================================================

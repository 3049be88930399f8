-------------------------- MODULE EmplaceBatchFull --------------------------
(***************************************************************************)
(* TaperHashMap::emplace_batch_full of rust/src/taper_hashmap.rs: a batch   *)
(* of rows goes through the table in passes that share the collision        *)
(* counter and compact the waiting rows to the front of the batch's own     *)
(* arrays while they are still being read.  A table smaller than the batch  *)
(* takes it row by row through emplace, as emplace_batch does.              *)
(*                                                                          *)
(* A row matches on its hash alone (KeyEquals is int64 ==): keys of equal   *)
(* hash share one group here, and whoever cares compares the keys later.    *)
(***************************************************************************)
EXTENDS TaperHashMap

CONSTANTS
    Batches,    \* the batches a caller may pass, sequences of keys
    MaxCalls    \* bounds the number of batches

ASSUME BatchAssumption ==
    /\ \A B \in Batches : B \in Seq(Keys) /\ B # <<>>
    /\ MaxCalls \in Nat

VARIABLES
    batch,              \* the rows of the current call, as their keys
    phase,              \* "none", "direct", "first", "collide", "expand", "retry"
    resume,             \* the pass an expansion interrupted
    idx,                \* the row, or the waiting row, the pass is at
    cur_count,          \* waiting rows of the current collision round
    emplace_hash_vals, emplace_positions, emplace_collisions,
    batch_collisions,   \* collision_count
    batch_round,        \* collision_batch
    retry_idx, retry_count,
    served,             \* per row, the row its on_update was given, 0 if none yet
    dropped,            \* rows whose one retry failed
    calls

arrays == <<emplace_hash_vals, emplace_positions, emplace_collisions>>
retryVars == <<retry_idx, retry_count>>
batchVars == <<batch, phase, resume, idx, cur_count, arrays, batch_collisions,
               batch_round, retryVars, served, dropped, calls>>
allVars == <<vars, batchVars>>

NumRows == Len(batch)

BatchInit ==
    /\ Init /\ row = CHOOSE k \in Keys : TRUE
    /\ batch = <<>> /\ phase = "none" /\ resume = "first"
    /\ idx = 1 /\ cur_count = 0
    /\ emplace_hash_vals = <<>> /\ emplace_positions = <<>> /\ emplace_collisions = <<>>
    /\ batch_collisions = 0 /\ batch_round = 1
    /\ retry_idx = 1 /\ retry_count = 0
    /\ served = <<>> /\ dropped = {} /\ calls = 0

(***************************************************************************)
(* The call: a table too small for the batch falls back to emplace, any     *)
(* other one gets the context with every row's hash and home position.      *)
(***************************************************************************)
EmplaceBatch(B) ==
    /\ phase = "none" /\ pc = "idle" /\ calls < MaxCalls
    /\ calls' = calls + 1
    /\ batch' = B
    /\ served' = [i \in DOMAIN B |-> 0]
    /\ dropped' = {}
    /\ IF Capacity(num_chunks) < Len(B)
         THEN phase' = "direct" /\ UNCHANGED arrays
         ELSE /\ phase' = "first"
              /\ emplace_hash_vals' = [i \in DOMAIN B |-> HashOf[B[i]]]
              /\ emplace_positions' = [i \in DOMAIN B |-> ChunkPos(num_chunks, HashOf[B[i]])]
              /\ emplace_collisions' = [i \in DOMAIN B |-> 0]
    /\ UNCHANGED <<vars, resume, idx, cur_count, batch_collisions, batch_round, retryVars>>

(* The locals of a call end with it. *)
Return ==
    /\ phase' = "none" /\ resume' = "first"
    /\ idx' = 1 /\ cur_count' = 0
    /\ emplace_hash_vals' = <<>> /\ emplace_positions' = <<>> /\ emplace_collisions' = <<>>
    /\ batch_collisions' = 0 /\ batch_round' = 1
    /\ retry_idx' = 1 /\ retry_count' = 0
    /\ UNCHANGED <<vars, batch, served, dropped, calls>>

-----------------------------------------------------------------------------
(* The fallback. *)

DirectCall ==
    /\ phase = "direct" /\ pc = "idle" /\ idx <= NumRows
    /\ Emplace(batch[idx])
    /\ UNCHANGED batchVars

(* on_update runs in the step that ends the lookup. *)
DirectStep ==
    /\ phase = "direct"
    /\ Step
    /\ IF pc = "probe" /\ pc' = "idle"
         THEN served' = [served EXCEPT ![idx] = result'.value] /\ idx' = idx + 1
         ELSE UNCHANGED <<served, idx>>
    /\ UNCHANGED <<batch, phase, resume, cur_count, arrays, batch_collisions,
                   batch_round, retryVars, dropped, calls>>

DirectReturn ==
    /\ phase = "direct" /\ pc = "idle" /\ idx > NumRows
    /\ Return

-----------------------------------------------------------------------------
(***************************************************************************)
(* TryEmplaceAtPos of row r with hash h at chunk p: a slot with this hash,  *)
(* else the first empty slot; it fails on a full chunk without a match.     *)
(***************************************************************************)
TryEmplaceAtPos(h, p, r) ==
    \/ \E s \in Slots :
         /\ IsLowest(s, HashMatches(chunks[p], h))
         /\ served' = [served EXCEPT ![r] = chunks[p][s].value]
         /\ UNCHANGED <<tableVars, rows>>
    \/ /\ HashMatches(chunks[p], h) = {}
       /\ \E s \in Slots :
            /\ IsLowest(s, MatchEmpty(chunks[p]))
            /\ chunks' = Fill(chunks, p, s, h, Len(rows) + 1)
       /\ size' = size + 1
       /\ rows' = Append(rows, batch[r])
       /\ served' = [served EXCEPT ![r] = Len(rows) + 1]
       /\ UNCHANGED num_chunks

CannotEmplaceAtPos(h, p) == HashMatches(chunks[p], h) = {} /\ IsFull(chunks[p])

(***************************************************************************)
(* The first pass visits every row, a collision round the rows that wait.   *)
(* The two loops have the same body.                                        *)
(***************************************************************************)
InPass == phase \in {"first", "collide"} /\ pc = "idle"
PassEnd == IF phase = "first" THEN NumRows ELSE cur_count
RowAt_place(i) == i      \* mutant: the place in the pass is taken for the row
RowAt(i) == IF phase = "first" THEN i ELSE emplace_collisions[i]

(* Mutant: a waiting row's hash is read at its row number, where the
   compaction may have put another row's. *)
HashAt_by_row(i) == IF phase = "first" THEN emplace_hash_vals[i]
                                       ELSE emplace_hash_vals[emplace_collisions[i]]
HashAt(i) == IF phase = "first" THEN emplace_hash_vals[i]
                                ELSE HashOf[batch[emplace_collisions[i]]]

PassServe ==
    /\ InPass /\ idx <= PassEnd
    /\ TryEmplaceAtPos(HashAt(idx), emplace_positions[idx], RowAt(idx))
    /\ idx' = idx + 1
    /\ UNCHANGED <<rehashVars, pc, row, pos, collision_batch, result, batch, phase, resume,
                   cur_count, arrays, batch_collisions, batch_round, retryVars, dropped, calls>>

(* The failed row joins the waiting rows, one position further. *)
KeepWaiting ==
    LET at == batch_collisions + 1 IN
    /\ emplace_collisions' = [emplace_collisions EXCEPT ![at] = RowAt(idx)]
    /\ emplace_hash_vals' = [emplace_hash_vals EXCEPT ![at] = emplace_hash_vals[idx]]
    /\ emplace_positions' = [emplace_positions EXCEPT
            ![at] = RehashPos(num_chunks, batch_round, emplace_positions[idx])]
    /\ batch_collisions' = at

PassCollide ==
    /\ InPass /\ idx <= PassEnd
    /\ CannotEmplaceAtPos(HashAt(idx), emplace_positions[idx])
    /\ ~ShouldExpand(num_chunks, size)
    /\ KeepWaiting
    /\ idx' = idx + 1
    /\ UNCHANGED <<vars, batch, phase, resume, cur_count, batch_round, retryVars,
                   served, dropped, calls>>

PassExpand ==
    /\ InPass /\ idx <= PassEnd
    /\ CannotEmplaceAtPos(HashAt(idx), emplace_positions[idx])
    /\ ShouldExpand(num_chunks, size)
    /\ KeepWaiting
    /\ StartExpand("idle")
    /\ phase' = "expand" /\ resume' = phase
    /\ batch_round' = 1
    /\ UNCHANGED <<emplaceVars, batch, idx, cur_count, retryVars, served, dropped, calls>>

ExpandInBatch ==
    /\ phase = "expand"
    /\ ExpandStep
    /\ UNCHANGED <<emplaceVars, batchVars>>

(* Mutant: the positions of the old table stay in use. *)
ResetPositions_none(first, last) == emplace_positions

(* Mutant: the whole hash is taken for the position. *)
ResetPositions_unmasked(first, last) ==
    [i \in DOMAIN emplace_positions |->
        IF i \in first .. last THEN emplace_hash_vals[i] ELSE emplace_positions[i]]

(* Rows i in first .. last get the home position of the doubled table. *)
ResetPositions(first, last) ==
    [i \in DOMAIN emplace_positions |->
        IF i \in first .. last THEN ChunkPos(num_chunks, emplace_hash_vals[i])
                               ELSE emplace_positions[i]]

(* tryEmplaceRehashedCollisions: every waiting row is tried once at home. *)
RetryStart ==
    /\ phase = "expand" /\ pc = "idle"
    /\ emplace_positions' = ResetPositions(1, batch_collisions)
    /\ retry_count' = batch_collisions /\ retry_idx' = 1
    /\ batch_collisions' = 0
    /\ phase' = "retry"
    /\ UNCHANGED <<vars, batch, resume, idx, cur_count, emplace_hash_vals,
                   emplace_collisions, batch_round, served, dropped, calls>>

RetryServe ==
    /\ phase = "retry" /\ retry_idx <= retry_count
    /\ LET r == emplace_collisions[retry_idx] IN
         TryEmplaceAtPos(HashOf[batch[r]], emplace_positions[retry_idx], r)
    /\ retry_idx' = retry_idx + 1
    /\ UNCHANGED <<rehashVars, pc, row, pos, collision_batch, result, batch, phase, resume,
                   idx, cur_count, arrays, batch_collisions, batch_round, retry_count,
                   dropped, calls>>

(* The outcome of the retry is not looked at: the row is forgotten. *)
RetryDrop ==
    /\ phase = "retry" /\ retry_idx <= retry_count
    /\ LET r == emplace_collisions[retry_idx] IN
         /\ CannotEmplaceAtPos(HashOf[batch[r]], emplace_positions[retry_idx])
         /\ dropped' = dropped \cup {r}
    /\ retry_idx' = retry_idx + 1
    /\ UNCHANGED <<vars, batch, phase, resume, idx, cur_count, arrays, batch_collisions,
                   batch_round, retry_count, served, calls>>

(* Back in the pass: the rows it has still to visit start at home again. *)
RetryEnd ==
    /\ phase = "retry" /\ retry_idx > retry_count
    /\ emplace_positions' =
         ResetPositions(idx + 1, IF resume = "first" THEN NumRows ELSE cur_count)
    /\ phase' = resume /\ resume' = "first"
    /\ idx' = idx + 1
    /\ retry_idx' = 1 /\ retry_count' = 0
    /\ UNCHANGED <<vars, batch, cur_count, emplace_hash_vals, emplace_collisions,
                   batch_collisions, batch_round, served, dropped, calls>>

(* Mutant: a collision round starts over at the home positions. *)
NextRound_restart ==
    /\ InPass /\ idx > PassEnd /\ batch_collisions > 0
    /\ phase' = "collide"
    /\ cur_count' = batch_collisions /\ batch_collisions' = 0
    /\ batch_round' = 1
    /\ emplace_positions' = ResetPositions(1, batch_collisions)
    /\ idx' = 1
    /\ UNCHANGED <<vars, batch, resume, emplace_hash_vals, emplace_collisions, retryVars,
                   served, dropped, calls>>

NextRound ==
    /\ InPass /\ idx > PassEnd /\ batch_collisions > 0
    /\ phase' = "collide"
    /\ cur_count' = batch_collisions /\ batch_collisions' = 0
    /\ batch_round' = batch_round + 1
    /\ idx' = 1
    /\ UNCHANGED <<vars, batch, resume, arrays, retryVars, served, dropped, calls>>

BatchReturn ==
    /\ InPass /\ idx > PassEnd /\ batch_collisions = 0
    /\ Return

BatchStep ==
    \/ DirectCall \/ DirectStep \/ DirectReturn
    \/ PassServe \/ PassCollide \/ PassExpand \/ ExpandInBatch
    \/ RetryStart \/ RetryServe \/ RetryDrop \/ RetryEnd
    \/ NextRound \/ BatchReturn

BatchNext == (\E B \in Batches : EmplaceBatch(B)) \/ BatchStep

BatchSpec == BatchInit /\ [][BatchNext]_allVars
BatchFairSpec == BatchSpec /\ WF_allVars(BatchStep)
-----------------------------------------------------------------------------
(* Properties. *)

BatchTypeOK ==
    /\ TypeOK
    /\ batch \in Seq(Keys)
    /\ phase \in {"none", "direct", "first", "collide", "expand", "retry"}
    /\ resume \in {"first", "collide"}
    /\ idx \in 1 .. NumRows + 1 /\ cur_count \in 0 .. NumRows
    /\ batch_collisions \in 0 .. NumRows /\ batch_round \in Nat \ {0}
    /\ retry_count \in Nat /\ retry_idx \in 1 .. retry_count + 1
    /\ served \in [DOMAIN batch -> 0 .. Len(rows)]
    /\ dropped \subseteq DOMAIN batch
    /\ phase \in {"first", "collide", "expand", "retry"} =>
         /\ DOMAIN emplace_hash_vals = DOMAIN batch
         /\ emplace_positions \in [DOMAIN batch -> 0 .. num_chunks - 1]
         /\ emplace_collisions \in [DOMAIN batch -> 0 .. NumRows]

(* Array places of the rows that wait, that the pass has still to visit,   *)
(* and that the retry has still to try.                                     *)
WaitingAt == 1 .. batch_collisions
UnvisitedAt ==
    CASE phase \in {"first", "collide"} -> idx .. PassEnd
      [] phase \in {"expand", "retry"} ->
            idx + 1 .. (IF resume = "first" THEN NumRows ELSE cur_count)
      [] OTHER -> {}
RetryAt == IF phase = "retry" THEN retry_idx .. retry_count ELSE {}

InFirstPass == phase = "first" \/ (phase \in {"expand", "retry"} /\ resume = "first")
Waiting == {emplace_collisions[i] : i \in WaitingAt}
Unvisited == IF InFirstPass THEN UnvisitedAt ELSE {emplace_collisions[i] : i \in UnvisitedAt}
ToRetry == {emplace_collisions[i] : i \in RetryAt}
Served == {r \in DOMAIN batch : served[r] # 0}

(***************************************************************************)
(* Compacting the waiting rows over the arrays still being read mixes up    *)
(* no row: each one has been served, waits, is still to be visited or       *)
(* retried, or was dropped by a retry, and is so once.  When the call       *)
(* returns, no row is left but the ones that were dropped.                  *)
(***************************************************************************)
RowsAccounted ==
    /\ phase \in {"first", "collide", "expand", "retry"} =>
          LET parts == <<Served, Waiting, Unvisited, ToRetry, dropped>> IN
          /\ UNION {parts[i] : i \in DOMAIN parts} = DOMAIN batch
          /\ \A i, j \in DOMAIN parts : i # j => parts[i] \cap parts[j] = {}
          /\ Cardinality(Waiting) = batch_collisions
          /\ Cardinality(Unvisited) = Cardinality(UnvisitedAt)
    /\ phase = "none" =>
          Served \cup dropped = DOMAIN batch /\ Served \cap dropped = {}

(***************************************************************************)
(* The position kept for a row is the next one of its own probe sequence in *)
(* the table as it is now: the shared collision counter and the positions   *)
(* reset after an expansion agree.                                          *)
(***************************************************************************)
WaitingOnPath ==
    phase \in {"first", "collide"} =>
        /\ \A i \in WaitingAt :
              LET h == HashOf[batch[emplace_collisions[i]]] IN
              /\ emplace_positions[i] = Probe(num_chunks, h, batch_round)
              /\ FullBefore(chunks, num_chunks, h, batch_round)
        /\ \A i \in UnvisitedAt :
              /\ emplace_positions[i] = Probe(num_chunks, HashAt(i), batch_round - 1)
              /\ FullBefore(chunks, num_chunks, HashAt(i), batch_round - 1)

(* A row is only ever given a group of its own hash. *)
ServedOwn == \A r \in Served : HashOf[rows[served[r]]] = HashOf[batch[r]]

(* When a batch returns on_update has been called for every row of it: also *)
(* for the rows that were waiting when the table grew.                      *)
NoRowForgotten == phase = "none" => Served = DOMAIN batch

(***************************************************************************)
(* A batch returns: the collision rounds end, whatever the rehashes between *)
(* them do to the collision counter.                                        *)
(***************************************************************************)
BatchReturns == phase # "none" ~> phase = "none"
=============================================================================

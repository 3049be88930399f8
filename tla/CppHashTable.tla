---------------------------- MODULE CppHashTable ----------------------------
(***************************************************************************)
(* TaperFlatHashTable of cpp/include/taper_hashtable.h.  Chunks, lookups,   *)
(* the rehash and the passes of EmplaceBatch are those of the Rust table;   *)
(* what differs is when the table grows: Emplace and EmplaceBatchDirectly   *)
(* look at the load only when a full chunk stops them, so the table may     *)
(* fill to its last slot.                                                   *)
(***************************************************************************)
EXTENDS EmplaceBatchFull

(* No load test before the lookup. *)
CppEmplace(k) ==
    /\ pc = "idle"
    /\ row' = k
    /\ pc' = "locate"
    /\ UNCHANGED <<tableVars, rehashVars, rows, pos, collision_batch, result>>

(* Mutant: the probe goes on at the old position of the doubled table. *)
CppExpandAt_old(M) ==
    /\ pc = "probe" /\ M = {} /\ IsFull(chunks[pos])
    /\ ShouldExpand(num_chunks, size)
    /\ StartExpand("probe")
    /\ UNCHANGED emplaceVars

(* The full chunk of a loaded table: grow, then start again at home. *)
CppExpandAt(M) ==
    /\ pc = "probe" /\ M = {} /\ IsFull(chunks[pos])
    /\ ShouldExpand(num_chunks, size)
    /\ StartExpand("locate")
    /\ UNCHANGED emplaceVars

CppNextUnless(M) == ~ShouldExpand(num_chunks, size) /\ NextUnless(M)

(* ExpandCapacity collects the slots in use and sets them in rounds, one step *)
(* farther in each, into twice the chunks.                                   *)
ExpandCapacity == ExpandStep /\ UNCHANGED emplaceVars

(* The steps of a lookup before the one that ends it. *)
CppSearch(M) ==
    \/ ExpandCapacity
    \/ Locate
    \/ CppExpandAt(M)
    \/ CppNextUnless(M)

CppProbe(M) == CppSearch(M) \/ FoundIn(M) \/ InsertUnless(M)

-----------------------------------------------------------------------------
(***************************************************************************)
(* EmplaceBatchDirectly, for a table smaller than the batch: TryEmplaceAtPos*)
(* row by row, which takes the first slot with the hash.                    *)
(***************************************************************************)
DirectMatches == IF pc = "probe" THEN HashMatches(chunks[pos], HashOf[row]) ELSE {}

CppDirectCall ==
    /\ phase = "direct" /\ pc = "idle" /\ idx <= NumRows
    /\ CppEmplace(batch[idx])
    /\ UNCHANGED batchVars

CppDirectStep ==
    /\ phase = "direct"
    /\ CppProbe(DirectMatches)
    /\ IF pc = "probe" /\ pc' = "idle"
         THEN served' = [served EXCEPT ![idx] = result'.value] /\ idx' = idx + 1
         ELSE UNCHANGED <<served, idx>>
    /\ UNCHANGED <<batch, phase, resume, cur_count, arrays, batch_collisions,
                   batch_round, retryVars, dropped, calls>>

CppBatchStep ==
    \/ CppDirectCall \/ CppDirectStep \/ DirectReturn
    \/ PassServe \/ PassCollide \/ PassExpand \/ ExpandInBatch
    \/ RetryStart \/ RetryServe \/ RetryDrop \/ RetryEnd
    \/ NextRound \/ BatchReturn

-----------------------------------------------------------------------------
(* A property, besides those of the Rust table that hold here as well. *)

(***************************************************************************)
(* The table may be full, but a probe that passes a full chunk without      *)
(* growing the table always has an empty slot before it, and a rehash has   *)
(* twice the room it needs.                                                 *)
(***************************************************************************)
CppRoomToProbe ==
    /\ size <= Capacity(num_chunks)
    /\ pc = "probe" /\ ~ShouldExpand(num_chunks, size) => size < Capacity(num_chunks)
    /\ pc = "rehash" => 2 * (size + Cardinality(Pending)) <= Capacity(num_chunks)
=============================================================================

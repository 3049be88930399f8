-------------------------- MODULE EmplaceBatchSimd --------------------------
(***************************************************************************)
(* TaperHashMap::emplace_batch_simd of rust/src/taper_hashmap.rs: rounds in *)
(* which every active row is first looked up, then all candidates are       *)
(* compared at once by the caller's batch_key_cmp, and only then are the    *)
(* rows without a match inserted.                                           *)
(***************************************************************************)
EXTENDS TaperHashMap

CONSTANTS
    Batches,    \* the batches a caller may pass, sequences of keys
    MaxCalls    \* bounds the number of batches

ASSUME SimdAssumption ==
    /\ \A B \in Batches : B \in Seq(Keys) /\ B # <<>>
    /\ MaxCalls \in Nat

VARIABLES
    batch,           \* the rows of the current call, as their keys
    phase,           \* "none", "round", "expand", "lookup", "compare", "place"
    active,          \* the rows of this round that are still to be looked up
    row_positions,   \* the chunk each row is tried at
    simd_round,      \* collision_batch
    candidates,      \* rows of the round with the value of the slot found for each
    no_match_rows,   \* rows of the round still to be placed
    collision_buf,   \* rows that go on to the next round
    served,          \* per row, the row its on_update was given, 0 if none yet
    calls

roundVars == <<active, candidates, no_match_rows, collision_buf>>
simdVars == <<batch, phase, roundVars, row_positions, simd_round, served, calls>>
allVars == <<vars, simdVars>>

SimdInit ==
    /\ Init /\ row = CHOOSE k \in Keys : TRUE
    /\ batch = <<>> /\ phase = "none"
    /\ active = <<>> /\ row_positions = <<>> /\ simd_round = 1
    /\ candidates = <<>> /\ no_match_rows = <<>> /\ collision_buf = <<>>
    /\ served = <<>> /\ calls = 0

(* Mutant: the position in the old table stays in use. *)
Home_stale(r) == row_positions[r]

Home(r) == ChunkPos(num_chunks, HashOf[batch[r]])

EmplaceBatch(B) ==
    /\ phase = "none" /\ calls < MaxCalls
    /\ calls' = calls + 1
    /\ batch' = B
    /\ served' = [i \in DOMAIN B |-> 0]
    /\ row_positions' = [i \in DOMAIN B |-> ChunkPos(num_chunks, HashOf[B[i]])]
    /\ active' = [i \in DOMAIN B |-> i]
    /\ simd_round' = 1
    /\ phase' = "round"
    /\ UNCHANGED <<vars, candidates, no_match_rows, collision_buf>>

(* The load is tested once per round, before its rows are looked at. *)
RoundTop ==
    /\ phase = "round"
    /\ ~ShouldExpand(num_chunks, size)
    /\ phase' = "lookup"
    /\ UNCHANGED <<vars, batch, roundVars, row_positions, simd_round, served, calls>>

RoundExpand ==
    /\ phase = "round"
    /\ ShouldExpand(num_chunks, size)
    /\ StartExpand("idle")
    /\ phase' = "expand"
    /\ UNCHANGED <<emplaceVars, batch, roundVars, row_positions, simd_round, served, calls>>

ExpandInRound ==
    /\ phase = "expand"
    /\ ExpandStep
    /\ UNCHANGED <<emplaceVars, simdVars>>

ActiveRows == {active[i] : i \in DOMAIN active}

(* After the expansion the active rows start at home again. *)
ExpandReturns ==
    /\ phase = "expand" /\ pc = "idle"
    /\ row_positions' = [r \in DOMAIN batch |->
                            IF r \in ActiveRows THEN Home(r) ELSE row_positions[r]]
    /\ simd_round' = 1
    /\ phase' = "lookup"
    /\ UNCHANGED <<vars, batch, roundVars, served, calls>>

(***************************************************************************)
(* Stage 1, row by row: the candidate of a row is the lowest slot of its    *)
(* chunk with its hash.                                                     *)
(***************************************************************************)
HitSlots(r) == HashMatches(chunks[row_positions[r]], HashOf[batch[r]])

LookupHit ==
    /\ phase = "lookup" /\ active # <<>>
    /\ LET r == Head(active) IN
         \E s \in Slots :
            /\ IsLowest(s, HitSlots(r))
            /\ candidates' = Append(candidates,
                                [row |-> r, value |-> chunks[row_positions[r]][s].value])
    /\ active' = Tail(active)
    /\ UNCHANGED <<vars, batch, phase, row_positions, simd_round, no_match_rows,
                   collision_buf, served, calls>>

LookupMiss ==
    /\ phase = "lookup" /\ active # <<>>
    /\ HitSlots(Head(active)) = {}
    /\ no_match_rows' = Append(no_match_rows, Head(active))
    /\ active' = Tail(active)
    /\ UNCHANGED <<vars, batch, phase, row_positions, simd_round, candidates,
                   collision_buf, served, calls>>

LookupDone ==
    /\ phase = "lookup" /\ active = <<>>
    /\ phase' = "compare"
    /\ UNCHANGED <<vars, batch, roundVars, row_positions, simd_round, served, calls>>

(***************************************************************************)
(* Stage 2 and the first loop of stage 3, candidate by candidate; the table *)
(* is the same for all of them.  A row whose candidate has another key is   *)
(* placed behind the rows without a candidate.                              *)
(***************************************************************************)
CompareMatch ==
    /\ phase = "compare" /\ candidates # <<>>
    /\ LET c == Head(candidates) IN
         /\ rows[c.value] = batch[c.row]
         /\ served' = [served EXCEPT ![c.row] = c.value]
    /\ candidates' = Tail(candidates)
    /\ UNCHANGED <<vars, batch, phase, active, row_positions, simd_round, no_match_rows,
                   collision_buf, calls>>

CompareDiffer ==
    /\ phase = "compare" /\ candidates # <<>>
    /\ LET c == Head(candidates) IN
         /\ rows[c.value] # batch[c.row]
         /\ no_match_rows' = Append(no_match_rows, c.row)
    /\ candidates' = Tail(candidates)
    /\ UNCHANGED <<vars, batch, phase, active, row_positions, simd_round, collision_buf,
                   served, calls>>

CompareDone ==
    /\ phase = "compare" /\ candidates = <<>>
    /\ phase' = "place"
    /\ UNCHANGED <<vars, batch, roundVars, row_positions, simd_round, served, calls>>

(* Nothing is looked up again: the row takes the first empty slot. *)
PlaceNew ==
    /\ phase = "place" /\ no_match_rows # <<>>
    /\ LET r == Head(no_match_rows)
           p == row_positions[r] IN
         /\ \E s \in Slots :
              /\ IsLowest(s, MatchEmpty(chunks[p]))
              /\ chunks' = Fill(chunks, p, s, HashOf[batch[r]], Len(rows) + 1)
         /\ rows' = Append(rows, batch[r])
         /\ served' = [served EXCEPT ![r] = Len(rows) + 1]
    /\ size' = size + 1
    /\ no_match_rows' = Tail(no_match_rows)
    /\ UNCHANGED <<num_chunks, rehashVars, pc, row, pos, collision_batch, result,
                   batch, phase, active, candidates, row_positions, simd_round,
                   collision_buf, calls>>

PlaceLater ==
    /\ phase = "place" /\ no_match_rows # <<>>
    /\ LET r == Head(no_match_rows)
           p == row_positions[r] IN
         /\ IsFull(chunks[p])
         /\ row_positions' = [row_positions EXCEPT ![r] = RehashPos(num_chunks, simd_round, p)]
         /\ collision_buf' = Append(collision_buf, r)
    /\ no_match_rows' = Tail(no_match_rows)
    /\ UNCHANGED <<vars, batch, phase, active, candidates, simd_round, served, calls>>

(* Mutant: a round starts over at the home positions. *)
NextRound_restart ==
    /\ phase = "place" /\ no_match_rows = <<>> /\ collision_buf # <<>>
    /\ active' = collision_buf
    /\ collision_buf' = <<>>
    /\ row_positions' = [r \in DOMAIN batch |-> Home(r)]
    /\ simd_round' = 1
    /\ phase' = "round"
    /\ UNCHANGED <<vars, batch, candidates, no_match_rows, served, calls>>

NextRound ==
    /\ phase = "place" /\ no_match_rows = <<>> /\ collision_buf # <<>>
    /\ active' = collision_buf
    /\ collision_buf' = <<>>
    /\ simd_round' = simd_round + 1
    /\ phase' = "round"
    /\ UNCHANGED <<vars, batch, row_positions, candidates, no_match_rows, served, calls>>

(* Mutant: the collided rows get no further round. *)
BatchReturn_early ==
    /\ phase = "place" /\ no_match_rows = <<>> 
    /\ phase' = "none"
    /\ row_positions' = <<>> /\ simd_round' = 1
    /\ UNCHANGED <<vars, batch, roundVars, served, calls>>

BatchReturn ==
    /\ phase = "place" /\ no_match_rows = <<>> /\ collision_buf = <<>>
    /\ phase' = "none"
    /\ row_positions' = <<>> /\ simd_round' = 1
    /\ UNCHANGED <<vars, batch, roundVars, served, calls>>

SimdStep ==
    \/ RoundTop \/ RoundExpand \/ ExpandInRound \/ ExpandReturns
    \/ LookupHit \/ LookupMiss \/ LookupDone
    \/ CompareMatch \/ CompareDiffer \/ CompareDone
    \/ PlaceNew \/ PlaceLater \/ NextRound \/ BatchReturn

SimdNext == (\E B \in Batches : EmplaceBatch(B)) \/ SimdStep

SimdSpec == SimdInit /\ [][SimdNext]_allVars
SimdFairSpec == SimdSpec /\ WF_allVars(SimdStep)
-----------------------------------------------------------------------------
(* Properties. *)

SimdTypeOK ==
    /\ TypeOK
    /\ batch \in Seq(Keys)
    /\ phase \in {"none", "round", "expand", "lookup", "compare", "place"}
    /\ candidates \in Seq([row : DOMAIN batch, value : Nat])
    /\ \A q \in {active, no_match_rows, collision_buf} : q \in Seq(DOMAIN batch)
    /\ phase # "none" => row_positions \in [DOMAIN batch -> 0 .. num_chunks - 1]
    /\ simd_round \in Nat \ {0}
    /\ served \in [DOMAIN batch -> 0 .. Len(rows)]

Served == {r \in DOMAIN batch : served[r] # 0}

(***************************************************************************)
(* A round tries its rows at the next chunk of their own probe sequences,   *)
(* also when the table has doubled since they collided.                     *)
(***************************************************************************)
ActiveOnPath ==
    /\ phase = "lookup" =>
         \A r \in ActiveRows :
            /\ row_positions[r] = Probe(num_chunks, HashOf[batch[r]], simd_round - 1)
            /\ FullBefore(chunks, num_chunks, HashOf[batch[r]], simd_round - 1)
    /\ phase = "place" =>
         \A i \in DOMAIN collision_buf :
            LET h == HashOf[batch[collision_buf[i]]] IN
            /\ row_positions[collision_buf[i]] = Probe(num_chunks, h, simd_round)
            /\ FullBefore(chunks, num_chunks, h, simd_round)

(* on_update has been called for every row of a batch when it returns, and *)
(* with the group of the row's own key.                                     *)
EveryRowServed ==
    phase = "none" => \A r \in DOMAIN batch : served[r] # 0 /\ rows[served[r]] = batch[r]

(* No two slots stand for the same key once a batch has returned. *)
NoGroupTwice ==
    phase = "none" => \A i, j \in DOMAIN rows : rows[i] = rows[j] => i = j

(* Every round places a row or ends with an expansion that makes room. *)
SimdReturns == phase # "none" ~> phase = "none"
=============================================================================

----------------------- MODULE EmplaceBatchFull_proofs -----------------------
(***************************************************************************)
(* Invariance proofs about EmplaceBatchFull, for any batches, any number of *)
(* calls, any keys, hash function, chunk size and load threshold; and, at   *)
(* the end, about the tables and slices the drivers of rust/src/bin make    *)
(* for it (WorkloadData), for any number of keys.                           *)
(***************************************************************************)
EXTENDS EmplaceBatchFull, WorkloadData, TaperHashMap_proofs, DataFacts

USE TableAssumption, HashAssumption

-----------------------------------------------------------------------------
(* The inductive invariant. *)

InArrays == phase \in {"first", "collide", "expand", "retry"}

(* The places the pass has to visit end here, also while it is interrupted. *)
LastAt == IF InFirstPass THEN NumRows ELSE cur_count

(* The row at a place the pass has still to visit. *)
RowOf(i) == IF InFirstPass THEN i ELSE emplace_collisions[i]

H(r) == HashOf[batch[r]]

(* Where the program can be, between the phases of a batch and those of the map. *)
Control ==
    /\ phase \in {"none", "first", "collide", "retry"} => pc = "idle"
    /\ phase = "expand" => pc \in {"idle", "rehash"} /\ (pc = "rehash" => after = "idle")
    /\ phase = "direct" =>
          /\ pc = "rehash" => after = "locate"
          /\ pc # "idle" => idx <= NumRows /\ row = batch[idx]

(* The compaction stays behind the place that is being read. *)
Ranges ==
    /\ phase = "none" => idx = 1 /\ cur_count = 0
    /\ phase \in {"none", "direct"} => batch_collisions = 0 /\ batch_round = 1
    /\ phase \in {"first", "collide"} => idx <= LastAt + 1 /\ batch_collisions < idx
    /\ phase \in {"expand", "retry"} => idx <= LastAt /\ batch_collisions <= idx /\ batch_round = 1
    /\ phase = "retry" => batch_collisions = 0 /\ retry_count <= idx

(* Every place in use names a row of the batch and keeps that row's hash. *)
Named ==
    InArrays =>
        /\ emplace_hash_vals \in [DOMAIN batch -> Nat]
        /\ \A i \in WaitingAt \cup RetryAt :
              /\ emplace_collisions[i] \in DOMAIN batch
              /\ emplace_hash_vals[i] = H(emplace_collisions[i])
        /\ \A i \in UnvisitedAt :
              RowOf(i) \in DOMAIN batch /\ emplace_hash_vals[i] = H(RowOf(i))

(* No two places name one row. *)
Injective ==
    InArrays =>
        /\ \A i, j \in WaitingAt : emplace_collisions[i] = emplace_collisions[j] => i = j
        /\ \A i, j \in RetryAt : emplace_collisions[i] = emplace_collisions[j] => i = j
        /\ \A i, j \in UnvisitedAt : RowOf(i) = RowOf(j) => i = j

Partition(S, W, U, T, D) ==
    /\ S \cup W \cup U \cup T \cup D = DOMAIN batch
    /\ S \cap W = {} /\ S \cap U = {} /\ S \cap T = {} /\ S \cap D = {}
    /\ W \cap U = {} /\ W \cap T = {} /\ W \cap D = {}
    /\ U \cap T = {} /\ U \cap D = {} /\ T \cap D = {}

Parts ==
    /\ InArrays => Partition(Served, Waiting, Unvisited, ToRetry, dropped)
    /\ phase = "direct" => Served = 1 .. idx - 1 /\ dropped = {}
    /\ phase = "none" => Served \cup dropped = DOMAIN batch /\ Served \cap dropped = {}

(***************************************************************************)
(* Hash h is to be tried at p, its k-th chunk, and is in none of the full   *)
(* chunks before it.                                                        *)
(***************************************************************************)
Scanned(C, n, h, p, k) ==
    /\ OnPath(C, n, h, p, k)
    /\ \A j \in 0 .. k - 1 : HashMatches(C[Probe(n, h, j)], h) = {}

OnPaths ==
    /\ phase \in {"first", "collide"} =>
          /\ \A i \in WaitingAt :
                Scanned(chunks, num_chunks, H(emplace_collisions[i]),
                        emplace_positions[i], batch_round)
          /\ \A i \in UnvisitedAt :
                Scanned(chunks, num_chunks, H(RowOf(i)), emplace_positions[i], batch_round - 1)
    /\ \A i \in RetryAt :
          Scanned(chunks, num_chunks, H(emplace_collisions[i]), emplace_positions[i], 0)

ServedRight ==
    \A r \in Served : served[r] \in DOMAIN rows /\ HashOf[rows[served[r]]] = H(r)

(***************************************************************************)
(* What holds of a batch whatever table it meets, also one made anew while  *)
(* rows are stored; and what holds of it in a table of which it is known    *)
(* that every row stored is in it.                                          *)
(***************************************************************************)
AInv ==
    /\ BatchTypeOK /\ RowsInv
    /\ Control /\ Ranges /\ Named /\ Injective /\ Parts /\ ServedRight
PathsInv == IInv /\ OnPaths

BInv == AInv /\ PathsInv

(* Every step keeps the first, and with it the second. *)
BKept == AInv' /\ (PathsInv => PathsInv')

-----------------------------------------------------------------------------
(* What a try does to the table. *)

(* A row can be looked for at p as if nothing had happened in between. *)
LEMMA ScannedKept ==
    ASSUME NEW n \in Nat \ {0}, NEW C, NEW D,
           \A i \in 0 .. n - 1 : IsFull(C[i]) => D[i] = C[i],
           NEW h \in Nat, NEW p, NEW k \in Nat, Scanned(C, n, h, p, k)
    PROVE  Scanned(D, n, h, p, k)
<1>1. OnPath(C, n, h, p, k)
  BY DEF Scanned
<1>2. OnPath(D, n, h, p, k)
  BY <1>1, PathKept
<1>3. ASSUME NEW j \in 0 .. k - 1 PROVE HashMatches(D[Probe(n, h, j)], h) = {}
  <2>1. IsFull(C[Probe(n, h, j)])
    BY <1>1 DEF OnPath, FullBefore
  <2>2. Probe(n, h, j) \in 0 .. n - 1
    BY ProbeStep
  <2>3. D[Probe(n, h, j)] = C[Probe(n, h, j)]
    BY <2>1, <2>2
  <2> QED
    BY <2>3 DEF Scanned
<1> QED
  BY <1>2, <1>3 DEF Scanned

(* A full chunk without the hash sends it one position further. *)
LEMMA ScannedNext ==
    ASSUME NEW n \in Nat \ {0}, NEW C, NEW h \in Nat, NEW p, NEW k \in Nat,
           Scanned(C, n, h, p, k), HashMatches(C[p], h) = {}, IsFull(C[p])
    PROVE  Scanned(C, n, h, RehashPos(n, k + 1, p), k + 1)
<1>1. OnPath(C, n, h, p, k) /\ p = Probe(n, h, k)
  BY DEF Scanned, OnPath
<1>2. OnPath(C, n, h, RehashPos(n, k + 1, p), k + 1)
  BY <1>1, PathNext
<1>3. \A j \in 0 .. (k + 1) - 1 : j = k \/ j \in 0 .. k - 1
  OBVIOUS
<1> QED
  BY <1>1, <1>2, <1>3 DEF Scanned

LEMMA ScannedHome ==
    ASSUME NEW n \in Nat \ {0}, NEW C, NEW h \in Nat
    PROVE  Scanned(C, n, h, ChunkPos(n, h), 0)
BY PathStart DEF Scanned

ServeEffect(r) ==
    /\ TypeOK' /\ RowsInv' /\ num_chunks' = num_chunks /\ pc' = "idle"
    /\ Len(rows) <= Len(rows')
    /\ served' \in [DOMAIN batch -> 0 .. Len(rows')]
    /\ served'[r] # 0 /\ \A q \in DOMAIN batch \ {r} : served'[q] = served[q]
    /\ served'[r] \in DOMAIN rows' /\ HashOf[rows'[served'[r]]] = H(r)
    /\ \A i \in DOMAIN rows : i \in DOMAIN rows' /\ rows'[i] = rows[i]
    /\ \A i \in 0 .. num_chunks - 1 : IsFull(chunks[i]) => chunks'[i] = chunks[i]

LEMMA HashType ==
    ASSUME batch \in Seq(Keys), NEW r \in DOMAIN batch
    PROVE  batch[r] \in Keys /\ H(r) \in Nat
<1>1. batch[r] \in Keys
  OBVIOUS
<1> QED
  BY <1>1 DEF H

LEMMA SameVars ==
    ASSUME TypeOK, RowsInv, UNCHANGED vars
    PROVE  TypeOK' /\ RowsInv' /\ (IInv => IInv')
BY NextType, NextRowsInv, NextIInv

(* The row is given the group that has its hash. *)
LEMMA ServeFound ==
    ASSUME TypeOK, RowsInv, pc = "idle",
           UNCHANGED <<rehashVars, pc, row, pos, collision_batch, result>>,
           batch \in Seq(Keys), NEW r \in DOMAIN batch,
           served \in [DOMAIN batch -> 0 .. Len(rows)],
           NEW p \in 0 .. num_chunks - 1, NEW s \in HashMatches(chunks[p], H(r)),
           served' = [served EXCEPT ![r] = chunks[p][s].value],
           UNCHANGED <<tableVars, rows>>
    PROVE  ServeEffect(r) /\ (IInv => IInv')
<1> DEFINE v == chunks[p][s].value
<1>1. H(r) \in Nat
  BY HashType
<1>2. v \in DOMAIN rows /\ HashOf[rows[v]] = H(r)
  BY <1>1, HitRight DEF RowsInv
<1>3. DOMAIN rows = 1 .. Len(rows) /\ Len(rows) \in Nat
  BY DEF TypeOK
<1>4. UNCHANGED vars
  BY DEF vars, tableVars, rehashVars, emplaceVars
<1>5. TypeOK' /\ RowsInv' /\ (IInv => IInv')
  BY <1>4, SameVars
<1>6. num_chunks' = num_chunks /\ chunks' = chunks /\ rows' = rows /\ pc' = "idle"
  BY <1>4 DEF vars, tableVars, emplaceVars
<1> HIDE DEF v
<1>7. served' = [served EXCEPT ![r] = v] /\ v \in 1 .. Len(rows)
  BY <1>2, <1>3 DEF v
<1>8. /\ served' \in [DOMAIN batch -> 0 .. Len(rows)] /\ served'[r] = v /\ v # 0
      /\ \A q \in DOMAIN batch \ {r} : served'[q] = served[q]
  BY <1>3, <1>7
<1>9. HashOf[rows'[served'[r]]] = H(r) /\ served'[r] \in DOMAIN rows'
  BY <1>2, <1>6, <1>8
<1>10. Len(rows) <= Len(rows') /\ Len(rows') = Len(rows)
  BY <1>3, <1>6
<1>11. \A i \in DOMAIN rows : i \in DOMAIN rows' /\ rows'[i] = rows[i]
  BY <1>6
<1>12. \A i \in 0 .. num_chunks - 1 : IsFull(chunks[i]) => chunks'[i] = chunks[i]
  BY <1>6
<1> QED
  BY <1>5, <1>6, <1>8, <1>9, <1>10, <1>11, <1>12 DEF ServeEffect

(* A slot of the chunk is taken for the row, whatever the others hold. *)
LEMMA ServeNew ==
    ASSUME TypeOK, RowsInv, pc = "idle",
           UNCHANGED <<rehashVars, pc, row, pos, collision_batch, result, num_chunks>>,
           batch \in Seq(Keys), NEW r \in DOMAIN batch,
           served \in [DOMAIN batch -> 0 .. Len(rows)],
           NEW p \in 0 .. num_chunks - 1, NEW s \in MatchEmpty(chunks[p]),
           chunks' = Fill(chunks, p, s, H(r), Len(rows) + 1),
           size' = size + 1,
           rows' = Append(rows, batch[r]),
           served' = [served EXCEPT ![r] = Len(rows) + 1]
    PROVE  /\ ServeEffect(r)
           /\ AddedAt(num_chunks, chunks, chunks', <<p, s>>,
                      [tag |-> TagHash(H(r)), key |-> H(r), value |-> Len(rows) + 1])
<1> DEFINE key == batch[r]
           v == Len(rows) + 1
<1>1. key \in Keys /\ H(r) \in Nat /\ H(r) = HashOf[key]
  BY HashType DEF H
<1>2. /\ rows \in Seq(Keys) /\ Len(rows) \in Nat /\ DOMAIN rows = 1 .. Len(rows)
      /\ num_chunks \in Nat \ {0} /\ size \in Nat
      /\ chunks \in [0 .. num_chunks - 1 -> [Slots -> Slot]]
  <2>1. /\ rows \in Seq(Keys) /\ num_chunks \in Nat \ {0} /\ size \in Nat
        /\ chunks \in [0 .. num_chunks - 1 -> [Slots -> Slot]]
    BY DEF TypeOK
  <2>2. Len(rows) \in Nat /\ DOMAIN rows = 1 .. Len(rows)
    BY <2>1
  <2> QED
    BY <2>1, <2>2
<1> HIDE DEF key
<1>3. rows' = Append(rows, key) /\ UNCHANGED <<todo, collided, entries>>
  BY DEF key, rehashVars
<1>4. /\ RowsRight'
      /\ AddedAt(num_chunks, chunks, chunks', <<p, s>>,
                 [tag |-> TagHash(HashOf[key]), key |-> HashOf[key], value |-> Len(rows) + 1])
      /\ rows' \in Seq(Keys) /\ Len(rows') = v /\ DOMAIN rows' = 1 .. v /\ rows'[v] = key
      /\ \A i \in DOMAIN rows : i \in DOMAIN rows' /\ rows'[i] = rows[i]
  BY <1>1, <1>3, InsertKeepsRows DEF RowsInv
<1>5. RowsInv'
  BY <1>3, <1>4 DEF RowsInv, Pending
<1>6. AddedAt(num_chunks, chunks, chunks', <<p, s>>,
              [tag |-> TagHash(H(r)), key |-> H(r), value |-> v])
  BY <1>1, <1>4
<1>7. /\ chunks' \in [0 .. num_chunks - 1 -> [Slots -> Slot]]
      /\ \A i \in 0 .. num_chunks - 1 : IsFull(chunks[i]) => chunks'[i] = chunks[i]
  BY <1>6 DEF AddedAt
<1>8. TypeOK'
  <2>1. size' \in Nat /\ pc' = "idle"
    BY <1>2
  <2>2. /\ todo' \cup collided' \subseteq DOMAIN entries'
        /\ entries' \in [DOMAIN entries' -> Slot]
        /\ positions' \in [DOMAIN entries' -> 0 .. num_chunks' - 1]
        /\ rehash_batch' \in Nat \ {0} /\ after' \in {"idle", "locate"}
    BY DEF TypeOK, rehashVars
  <2>3. /\ row' \in Keys /\ pos' \in Nat /\ collision_batch' \in Nat \ {0}
        /\ result' \in [value : Nat, is_new : BOOLEAN]
    BY DEF TypeOK
  <2> QED
    BY <1>2, <1>4, <1>7, <2>1, <2>2, <2>3 DEF TypeOK
<1>9. /\ served' \in [DOMAIN batch -> 0 .. Len(rows')] /\ served'[r] = v
      /\ \A q \in DOMAIN batch \ {r} : served'[q] = served[q]
  BY <1>2, <1>4
<1>10. v # 0 /\ v \in DOMAIN rows' /\ HashOf[rows'[v]] = H(r) /\ Len(rows) <= Len(rows')
  BY <1>1, <1>2, <1>4
<1>11. pc' = "idle" /\ num_chunks' = num_chunks
  OBVIOUS
<1> HIDE DEF v
<1>12. ServeEffect(r)
  BY <1>4, <1>5, <1>7, <1>8, <1>9, <1>10, <1>11 DEF ServeEffect
<1> QED
  BY <1>6, <1>12 DEF v

(* No group has its hash anywhere on its path: the row may make one. *)
LEMMA ServeNewIInv ==
    ASSUME TypeOK, IInv, pc = "idle",
           UNCHANGED <<rehashVars, pc, num_chunks>>,
           batch \in Seq(Keys), NEW r \in DOMAIN batch,
           NEW p \in 0 .. num_chunks - 1, NEW t \in Nat,
           Scanned(chunks, num_chunks, H(r), p, t), HashMatches(chunks[p], H(r)) = {},
           NEW s \in MatchEmpty(chunks[p]),
           AddedAt(num_chunks, chunks, chunks', <<p, s>>,
                   [tag |-> TagHash(H(r)), key |-> H(r), value |-> Len(rows) + 1]),
           rows' = Append(rows, batch[r])
    PROVE  IInv'
<1> DEFINE key == batch[r]
<1>1. key \in Keys /\ H(r) \in Nat /\ H(r) = HashOf[key]
  BY HashType DEF H
<1>2. Pending = {} /\ Pending' = {}
  BY DEF IInv, RehashRight, Pending, rehashVars
<1>3. OnPath(chunks, num_chunks, HashOf[key], p, t)
  BY <1>1 DEF Scanned
<1>4. \A i \in DOMAIN rows : rows[i] # key
  <2>1. \A j \in 0 .. t - 1 :
           KeyMatches(chunks[Probe(num_chunks, HashOf[key], j)], key) = {}
    BY <1>1 DEF Scanned, KeyMatches
  <2>2. KeyMatches(chunks[p], key) = {}
    BY <1>1 DEF KeyMatches
  <2>3. ~IsFull(chunks[p])
    BY DEF IsFull
  <2> QED
    BY <1>1, <1>2, <1>3, <2>1, <2>2, <2>3, PathComplete
<1>5. Placed' /\ TagsRight' /\ RowsRight' /\ NoneLost' /\ NoneTwice' /\ KeysDistinct'
  <2>1. /\ num_chunks' = num_chunks /\ rows' = Append(rows, key)
        /\ AddedAt(num_chunks, chunks, chunks', <<p, s>>,
                   [tag |-> TagHash(HashOf[key]), key |-> HashOf[key], value |-> Len(rows) + 1])
    BY <1>1
  <2> HIDE DEF key
  <2> QED
    BY <1>1, <1>2, <1>3, <1>4, <2>1, InsertIInv
<1>6. RehashRight' /\ ScanRight'
  BY <1>2 DEF IInv, RehashRight, ScanRight, Pending, rehashVars
<1> QED
  BY <1>5, <1>6 DEF IInv

LEMMA ServeFacts ==
    ASSUME TypeOK, RowsInv, pc = "idle",
           UNCHANGED <<rehashVars, pc, row, pos, collision_batch, result>>,
           batch \in Seq(Keys), NEW r \in DOMAIN batch,
           served \in [DOMAIN batch -> 0 .. Len(rows)],
           NEW p \in 0 .. num_chunks - 1,
           TryEmplaceAtPos(H(r), p, r)
    PROVE  /\ ServeEffect(r)
           /\ \A t \in Nat : IInv /\ Scanned(chunks, num_chunks, H(r), p, t) => IInv'
<1>1. CASE \E s \in Slots :
             /\ IsLowest(s, HashMatches(chunks[p], H(r)))
             /\ served' = [served EXCEPT ![r] = chunks[p][s].value]
             /\ UNCHANGED <<tableVars, rows>>
  BY <1>1, ServeFound DEF IsLowest
<1>2. CASE /\ HashMatches(chunks[p], H(r)) = {}
           /\ \E s \in Slots :
                /\ IsLowest(s, MatchEmpty(chunks[p]))
                /\ chunks' = Fill(chunks, p, s, H(r), Len(rows) + 1)
           /\ size' = size + 1
           /\ rows' = Append(rows, batch[r])
           /\ served' = [served EXCEPT ![r] = Len(rows) + 1]
           /\ UNCHANGED num_chunks
  <2>1. PICK s \in MatchEmpty(chunks[p]) :
           chunks' = Fill(chunks, p, s, H(r), Len(rows) + 1)
    BY <1>2 DEF IsLowest
  <2>2. /\ ServeEffect(r)
        /\ AddedAt(num_chunks, chunks, chunks', <<p, s>>,
                   [tag |-> TagHash(H(r)), key |-> H(r), value |-> Len(rows) + 1])
    BY <1>2, <2>1, ServeNew
  <2>3. ASSUME NEW t \in Nat, IInv, Scanned(chunks, num_chunks, H(r), p, t) PROVE IInv'
    BY <1>2, <2>2, <2>3, ServeNewIInv
  <2> QED
    BY <2>2, <2>3
<1> QED
  BY <1>1, <1>2 DEF TryEmplaceAtPos

-----------------------------------------------------------------------------
(* The passes. *)

LEMMA BatchTypes ==
    ASSUME BatchTypeOK
    PROVE  /\ TypeOK /\ batch \in Seq(Keys)
           /\ NumRows \in Nat /\ DOMAIN batch = 1 .. NumRows /\ NumRows = Len(batch)
           /\ idx \in Nat \ {0} /\ cur_count \in 0 .. NumRows
           /\ batch_collisions \in 0 .. NumRows /\ batch_round \in Nat \ {0}
           /\ retry_count \in Nat /\ retry_idx \in 1 .. retry_count + 1
           /\ served \in [DOMAIN batch -> 0 .. Len(rows)]
           /\ Len(rows) \in Nat /\ DOMAIN rows = 1 .. Len(rows)
           /\ num_chunks \in Nat \ {0} /\ LastAt \in 0 .. NumRows
<1>1. /\ TypeOK /\ batch \in Seq(Keys) /\ rows \in Seq(Keys) /\ num_chunks \in Nat \ {0}
      /\ served \in [DOMAIN batch -> 0 .. Len(rows)]
  BY DEF BatchTypeOK, TypeOK
<1>2. NumRows \in Nat /\ DOMAIN batch = 1 .. NumRows /\ NumRows = Len(batch)
  BY <1>1 DEF NumRows
<1>3. Len(rows) \in Nat /\ DOMAIN rows = 1 .. Len(rows)
  BY <1>1
<1>4. /\ idx \in 1 .. NumRows + 1 /\ cur_count \in 0 .. NumRows
      /\ batch_collisions \in 0 .. NumRows /\ batch_round \in Nat \ {0}
      /\ retry_count \in Nat /\ retry_idx \in 1 .. retry_count + 1
  BY DEF BatchTypeOK
<1>5. LastAt \in 0 .. NumRows
  BY <1>2, <1>4 DEF LastAt
<1> QED
  BY <1>1, <1>2, <1>3, <1>4, <1>5

LEMMA PassFacts ==
    ASSUME AInv, InPass, idx <= PassEnd
    PROVE  /\ PassEnd = LastAt /\ UnvisitedAt = idx .. LastAt
           /\ RetryAt = {} /\ ToRetry = {}
           /\ idx \in DOMAIN batch /\ idx <= LastAt /\ idx \in UnvisitedAt
           /\ RowAt(idx) = RowOf(idx) /\ RowOf(idx) \in DOMAIN batch
           /\ HashAt(idx) = H(RowOf(idx)) /\ emplace_hash_vals[idx] = H(RowOf(idx))
           /\ emplace_positions[idx] \in 0 .. num_chunks - 1
           /\ batch_round - 1 \in Nat /\ (batch_round - 1) + 1 = batch_round
           /\ OnPaths => Scanned(chunks, num_chunks, H(RowOf(idx)), emplace_positions[idx],
                                 batch_round - 1)
           /\ batch_collisions < idx
<1>1. phase \in {"first", "collide"} /\ InArrays
  BY DEF InPass, InArrays
<1>2. /\ PassEnd = LastAt /\ UnvisitedAt = idx .. LastAt
      /\ RowAt(idx) = RowOf(idx)
  BY <1>1 DEF PassEnd, LastAt, InFirstPass, UnvisitedAt, RowAt, RowOf
<1>3. RetryAt = {} /\ ToRetry = {}
  BY <1>1 DEF RetryAt, ToRetry
<1>4. idx \in DOMAIN batch /\ idx <= LastAt /\ idx \in UnvisitedAt
  BY <1>2, BatchTypes DEF AInv
<1>5. RowOf(idx) \in DOMAIN batch /\ emplace_hash_vals[idx] = H(RowOf(idx))
  BY <1>1, <1>4 DEF AInv, Named
<1>6. HashAt(idx) = H(RowOf(idx))
  BY <1>1, <1>5 DEF HashAt, H, RowOf, InFirstPass
<1>7. emplace_positions[idx] \in 0 .. num_chunks - 1
  BY <1>1, <1>4 DEF AInv, BatchTypeOK
<1>8. batch_round - 1 \in Nat /\ (batch_round - 1) + 1 = batch_round
  BY BatchTypes DEF AInv
<1>9. OnPaths => Scanned(chunks, num_chunks, H(RowOf(idx)), emplace_positions[idx],
                         batch_round - 1)
  BY <1>1, <1>4 DEF OnPaths
<1>10. batch_collisions < idx
  BY <1>1 DEF AInv, Ranges
<1> QED
  BY <1>2, <1>3, <1>4, <1>5, <1>6, <1>7, <1>8, <1>9, <1>10

(* The sets of rows, through the places that name them. *)
LEMMA RowSets ==
    Unvisited = {RowOf(i) : i \in UnvisitedAt}
BY DEF Unvisited, RowOf

(* A served row moves from the rows to visit to the rows served. *)
LEMMA PassServeKept ==
    ASSUME AInv, PassServe
    PROVE  BKept
<1> DEFINE r == RowOf(idx)
<1>1. InPass /\ idx <= PassEnd /\ BatchTypeOK /\ RowsInv /\ TypeOK
  BY DEF PassServe, AInv, BatchTypeOK
<1>2. /\ UNCHANGED <<rehashVars, pc, row, pos, collision_batch, result, batch, phase, resume,
                     cur_count, batch_collisions, batch_round, retry_idx, retry_count, dropped>>
      /\ UNCHANGED <<emplace_hash_vals, emplace_positions, emplace_collisions>>
      /\ idx' = idx + 1
  BY DEF PassServe, arrays, retryVars
<1>3. /\ phase \in {"first", "collide"} /\ InArrays /\ pc = "idle"
      /\ phase' \in {"first", "collide"} /\ InArrays'
  BY <1>1, <1>2 DEF InPass, InArrays
<1>4. r \in DOMAIN batch /\ idx \in UnvisitedAt
  BY <1>1, PassFacts
<1>5. ServeEffect(r) /\ (PathsInv => IInv')
  <2>1. TryEmplaceAtPos(H(r), emplace_positions[idx], r)
    BY <1>1, PassFacts DEF PassServe
  <2>2. /\ emplace_positions[idx] \in 0 .. num_chunks - 1 /\ batch_round - 1 \in Nat
        /\ OnPaths => Scanned(chunks, num_chunks, H(r), emplace_positions[idx], batch_round - 1)
    BY <1>1, PassFacts
  <2>3. batch \in Seq(Keys) /\ served \in [DOMAIN batch -> 0 .. Len(rows)]
    BY <1>1, BatchTypes
  <2> HIDE DEF r
  <2> QED
    BY <1>1, <1>2, <1>3, <1>4, <2>1, <2>2, <2>3, ServeFacts DEF PathsInv
<1>6. /\ WaitingAt' = WaitingAt /\ RetryAt' = {} /\ RetryAt = {}
      /\ UnvisitedAt' = idx + 1 .. LastAt /\ UnvisitedAt = idx .. LastAt
      /\ LastAt' = LastAt /\ LastAt \in Nat /\ idx \in Nat
      /\ \A i : RowOf(i)' = RowOf(i)
      /\ \A q : H(q)' = H(q)
  <2>1. WaitingAt' = WaitingAt /\ RetryAt' = {} /\ RetryAt = {}
    BY <1>2, <1>3 DEF WaitingAt, RetryAt
  <2>2. InFirstPass' = InFirstPass /\ LastAt' = LastAt /\ PassEnd' = PassEnd
    BY <1>2, <1>3 DEF InFirstPass, LastAt, NumRows, PassEnd
  <2>3. UnvisitedAt' = idx + 1 .. LastAt /\ UnvisitedAt = idx .. LastAt
    BY <1>1, <1>2, <1>3, <2>2, PassFacts DEF UnvisitedAt
  <2>4. LastAt \in Nat /\ idx \in Nat
    BY <1>1, BatchTypes
  <2>5. \A i : RowOf(i)' = RowOf(i)
    BY <1>2, <2>2 DEF RowOf
  <2>6. \A q : H(q)' = H(q)
    BY <1>2 DEF H
  <2> QED
    BY <2>1, <2>2, <2>3, <2>4, <2>5, <2>6
<1>7. UnvisitedAt' \subseteq UnvisitedAt /\ UnvisitedAt = UnvisitedAt' \cup {idx} /\ idx \notin UnvisitedAt'
  BY <1>4, <1>6
<1>8. Unvisited' = Unvisited \ {r} /\ r \in Unvisited
  <2>1. Unvisited = {RowOf(i) : i \in UnvisitedAt} /\ Unvisited' = {RowOf(i) : i \in UnvisitedAt'}
    BY <1>6 DEF Unvisited, RowOf
  <2>2. \A i, j \in UnvisitedAt : RowOf(i) = RowOf(j) => i = j
    BY <1>3 DEF AInv, Injective
  <2> QED
    BY <1>4, <1>7, <2>1, <2>2
<1>9. Served' = Served \cup {r}
  BY <1>2, <1>4, <1>5, BatchTypes, <1>1 DEF Served, ServeEffect
<1>10. BatchTypeOK'
  <2>1. TypeOK' /\ served' \in [DOMAIN batch' -> 0 .. Len(rows')] /\ num_chunks' = num_chunks
    BY <1>2, <1>5 DEF ServeEffect
  <2>2. idx' \in 1 .. NumRows' + 1
    <3>1. NumRows' = NumRows
      BY <1>2 DEF NumRows
    <3>2. idx \in 1 .. NumRows /\ NumRows \in Nat
      BY <1>1, PassFacts, BatchTypes
    <3> QED
      BY <1>2, <3>1, <3>2
  <2> QED
    BY <1>1, <1>2, <1>3, <2>1, <2>2 DEF BatchTypeOK, InArrays, NumRows
<1>11. RowsInv' /\ Control'
  BY <1>2, <1>3, <1>5 DEF ServeEffect, Control
<1>12. Ranges'
  <2>1. /\ idx <= LastAt /\ batch_collisions < idx
        /\ idx \in Nat /\ batch_collisions \in Nat /\ LastAt \in Nat
    BY <1>1, PassFacts, BatchTypes
  <2> QED
    BY <1>2, <1>3, <1>6, <2>1 DEF Ranges
<1>13. Named'
  BY <1>2, <1>3, <1>6, <1>7 DEF AInv, Named
<1>14. Injective'
  BY <1>2, <1>3, <1>6, <1>7 DEF AInv, Injective
<1>15. Parts'
  <2>1. Waiting' = Waiting /\ ToRetry' = ToRetry /\ dropped' = dropped /\ batch' = batch
    BY <1>2, <1>3, <1>6 DEF Waiting, ToRetry
  <2>2. Partition(Served, Waiting, Unvisited, ToRetry, dropped)
    BY <1>3 DEF AInv, Parts
  <2>3. Partition(Served, Waiting, Unvisited, ToRetry, dropped)'
    <3>1. /\ (Served \cup {r}) \cup (Unvisited \ {r}) = Served \cup Unvisited
          /\ (Served \cup {r}) \cap (Unvisited \ {r}) = {}
      BY <1>8, <2>2 DEF Partition
    <3>2. /\ (Served \cup {r}) \cap Waiting = {} /\ (Served \cup {r}) \cap ToRetry = {}
          /\ (Served \cup {r}) \cap dropped = {} /\ Waiting \cap (Unvisited \ {r}) = {}
          /\ (Unvisited \ {r}) \cap ToRetry = {} /\ (Unvisited \ {r}) \cap dropped = {}
      BY <1>8, <2>2 DEF Partition
    <3>3. (Served \cup {r}) \cup Waiting \cup (Unvisited \ {r}) \cup ToRetry \cup dropped
             = DOMAIN batch
      BY <2>2, <3>1 DEF Partition
    <3> HIDE DEF r
    <3> QED
      BY <1>8, <1>9, <2>1, <2>2, <3>1, <3>2, <3>3 DEF Partition
  <2> QED
    BY <1>3, <2>3 DEF Parts
<1>16. ASSUME PathsInv PROVE OnPaths'
  <2>1. /\ num_chunks \in Nat \ {0} /\ num_chunks' = num_chunks
        /\ \A i \in 0 .. num_chunks - 1 : IsFull(chunks[i]) => chunks'[i] = chunks[i]
    BY <1>1, <1>5, BatchTypes DEF ServeEffect
  <2>2. \A h, k \in Nat : \A p : Scanned(chunks, num_chunks, h, p, k)
                                    => Scanned(chunks', num_chunks, h, p, k)
    BY <2>1, ScannedKept
  <2>3. \A q \in DOMAIN batch : H(q) \in Nat
    BY <1>1, BatchTypes, HashType
  <2>4. batch_round \in Nat /\ batch_round - 1 \in Nat
    BY <1>1, BatchTypes
  <2>5. \A i \in WaitingAt :
           Scanned(chunks', num_chunks, H(emplace_collisions[i]), emplace_positions[i], batch_round)
    <3>1. \A i \in WaitingAt : emplace_collisions[i] \in DOMAIN batch
      BY <1>3 DEF AInv, Named
    <3>2. \A i \in WaitingAt :
             Scanned(chunks, num_chunks, H(emplace_collisions[i]), emplace_positions[i], batch_round)
      BY <1>3, <1>16 DEF PathsInv, OnPaths
    <3> QED
      BY <2>2, <2>3, <2>4, <3>1, <3>2
  <2>6. \A i \in UnvisitedAt :
           Scanned(chunks', num_chunks, H(RowOf(i)), emplace_positions[i], batch_round - 1)
    <3>1. \A i \in UnvisitedAt : RowOf(i) \in DOMAIN batch
      BY <1>3 DEF AInv, Named
    <3>2. \A i \in UnvisitedAt :
             Scanned(chunks, num_chunks, H(RowOf(i)), emplace_positions[i], batch_round - 1)
      BY <1>3, <1>16 DEF PathsInv, OnPaths
    <3> QED
      BY <2>2, <2>3, <2>4, <3>1, <3>2
  <2> QED
    BY <1>2, <1>6, <1>7, <2>1, <2>5, <2>6 DEF OnPaths
<1>17. ServedRight'
  <2>1. \A q \in Served : served[q] \in DOMAIN rows /\ HashOf[rows[served[q]]] = H(q) /\ q \in DOMAIN batch
    BY DEF AInv, ServedRight, Served
  <2> QED
    BY <1>5, <1>6, <1>9, <2>1 DEF ServedRight, ServeEffect
<1> QED
  BY <1>5, <1>10, <1>11, <1>12, <1>13, <1>14, <1>15, <1>16, <1>17 DEF BKept, AInv, PathsInv

(* The failed row is put at a place the pass has already read. *)
LEMMA KeepFacts ==
    ASSUME AInv, InPass, idx <= PassEnd, KeepWaiting
    PROVE  \E at \in DOMAIN batch :
              /\ at = batch_collisions + 1 /\ at <= idx /\ batch_collisions' = at
              /\ emplace_collisions'[at] = RowOf(idx)
              /\ emplace_hash_vals'[at] = H(RowOf(idx))
              /\ emplace_positions'[at]
                    = RehashPos(num_chunks, batch_round, emplace_positions[idx])
              /\ \A i \in DOMAIN batch \ {at} :
                    /\ emplace_collisions'[i] = emplace_collisions[i]
                    /\ emplace_hash_vals'[i] = emplace_hash_vals[i]
                    /\ emplace_positions'[i] = emplace_positions[i]
              /\ emplace_hash_vals' \in [DOMAIN batch -> Nat]
              /\ emplace_positions' \in [DOMAIN batch -> 0 .. num_chunks - 1]
              /\ emplace_collisions' \in [DOMAIN batch -> 0 .. NumRows]
              /\ WaitingAt' = WaitingAt \cup {at} /\ at \notin WaitingAt
              /\ WaitingAt \subseteq DOMAIN batch
<1> DEFINE at == batch_collisions + 1
           r == RowOf(idx)
           p == RehashPos(num_chunks, batch_round, emplace_positions[idx])
<1>1. /\ batch_collisions \in Nat /\ idx \in Nat /\ NumRows \in Nat /\ DOMAIN batch = 1 .. NumRows
      /\ num_chunks \in Nat \ {0} /\ batch_round \in Nat /\ batch \in Seq(Keys)
  BY BatchTypes DEF AInv
<1>2. idx \in 1 .. NumRows /\ batch_collisions < idx
  BY <1>1, PassFacts
<1>3. at \in DOMAIN batch /\ at <= idx
  BY <1>1, <1>2
<1>4. InArrays
  BY DEF InPass, InArrays
<1>5. /\ emplace_hash_vals \in [DOMAIN batch -> Nat]
      /\ emplace_positions \in [DOMAIN batch -> 0 .. num_chunks - 1]
      /\ emplace_collisions \in [DOMAIN batch -> 0 .. NumRows]
  BY <1>4 DEF AInv, Named, BatchTypeOK, InArrays
<1>6. r \in DOMAIN batch /\ emplace_hash_vals[idx] = H(r) /\ RowAt(idx) = r
  BY PassFacts
<1>7. H(r) \in Nat /\ r \in 0 .. NumRows
  BY <1>1, <1>6, HashType
<1>8. p \in 0 .. num_chunks - 1
  <2>1. emplace_positions[idx] \in Nat
    BY <1>1, <1>2, <1>5
  <2>2. emplace_positions[idx] + batch_round \in Nat
    BY <1>1, <2>1
  <2> QED
    BY <1>1, <2>2, ModRange DEF RehashPos
<1>9. /\ emplace_collisions' = [emplace_collisions EXCEPT ![at] = r]
      /\ emplace_hash_vals' = [emplace_hash_vals EXCEPT ![at] = H(r)]
      /\ emplace_positions' = [emplace_positions EXCEPT ![at] = p]
      /\ batch_collisions' = at
  BY <1>6 DEF KeepWaiting
<1> HIDE DEF r, p
<1>10. /\ emplace_hash_vals' \in [DOMAIN batch -> Nat]
       /\ emplace_positions' \in [DOMAIN batch -> 0 .. num_chunks - 1]
       /\ emplace_collisions' \in [DOMAIN batch -> 0 .. NumRows]
  BY <1>5, <1>7, <1>8, <1>9
<1>11. /\ emplace_collisions'[at] = r /\ emplace_hash_vals'[at] = H(r)
       /\ emplace_positions'[at] = p
       /\ \A i \in DOMAIN batch \ {at} :
             /\ emplace_collisions'[i] = emplace_collisions[i]
             /\ emplace_hash_vals'[i] = emplace_hash_vals[i]
             /\ emplace_positions'[i] = emplace_positions[i]
  BY <1>3, <1>5, <1>9
<1>12. /\ WaitingAt' = WaitingAt \cup {at} /\ at \notin WaitingAt
       /\ WaitingAt \subseteq DOMAIN batch
  BY <1>1, <1>2, <1>9 DEF WaitingAt
<1> QED
  BY <1>3, <1>9, <1>10, <1>11, <1>12 DEF r, p

(* Whether it expands the table or not, the row moves to the waiting rows. *)
LEMMA KeepRows ==
    ASSUME AInv, InPass, idx <= PassEnd, KeepWaiting,
           UNCHANGED <<batch, served, dropped>>,
           UnvisitedAt' = idx + 1 .. LastAt, InFirstPass' = InFirstPass,
           phase' \in {"first", "collide", "expand"}
    PROVE  /\ Named' /\ Injective' /\ Parts'
           /\ \A i \in UnvisitedAt' :
                 /\ i \in UnvisitedAt /\ i \in DOMAIN batch /\ RowOf(i)' = RowOf(i)
                 /\ RowOf(i) \in DOMAIN batch /\ emplace_positions'[i] = emplace_positions[i]
<1> DEFINE r == RowOf(idx)
<1>1. PICK at \in DOMAIN batch :
              /\ at = batch_collisions + 1 /\ at <= idx
              /\ emplace_collisions'[at] = r /\ emplace_hash_vals'[at] = H(r)
              /\ \A i \in DOMAIN batch \ {at} :
                    /\ emplace_collisions'[i] = emplace_collisions[i]
                    /\ emplace_hash_vals'[i] = emplace_hash_vals[i]
                    /\ emplace_positions'[i] = emplace_positions[i]
              /\ emplace_hash_vals' \in [DOMAIN batch -> Nat]
              /\ WaitingAt' = WaitingAt \cup {at} /\ at \notin WaitingAt
              /\ WaitingAt \subseteq DOMAIN batch
  BY KeepFacts
<1>2. /\ UnvisitedAt = idx .. LastAt /\ idx <= LastAt /\ RetryAt = {} /\ ToRetry = {}
      /\ r \in DOMAIN batch /\ idx \in DOMAIN batch
  BY PassFacts
<1>3. /\ idx \in Nat \ {0} /\ LastAt \in 0 .. NumRows /\ NumRows \in Nat
      /\ DOMAIN batch = 1 .. NumRows /\ batch \in Seq(Keys) /\ batch_collisions \in Nat
  BY BatchTypes DEF AInv
<1>4. InArrays /\ InArrays' /\ RetryAt' = {}
  BY DEF InPass, InArrays, RetryAt
<1>5. \A q : H(q)' = H(q)
  BY DEF H
<1>6. /\ UnvisitedAt' \subseteq UnvisitedAt /\ UnvisitedAt = UnvisitedAt' \cup {idx}
      /\ idx \notin UnvisitedAt' /\ UnvisitedAt \subseteq DOMAIN batch /\ idx \in UnvisitedAt
  BY <1>2, <1>3
<1>7. \A i \in UnvisitedAt' :
         /\ i # at /\ i \in UnvisitedAt /\ RowOf(i)' = RowOf(i)
         /\ emplace_hash_vals'[i] = emplace_hash_vals[i]
         /\ emplace_positions'[i] = emplace_positions[i]
  <2> TAKE i \in UnvisitedAt'
  <2>1. i # at /\ i \in DOMAIN batch /\ i \in UnvisitedAt
    BY <1>1, <1>3, <1>6
  <2>2. emplace_collisions'[i] = emplace_collisions[i]
    BY <1>1, <2>1
  <2>3. RowOf(i)' = RowOf(i)
    BY <2>2 DEF RowOf
  <2> QED
    BY <1>1, <2>1, <2>3
<1>8. /\ \A i \in WaitingAt :
            /\ emplace_collisions[i] \in DOMAIN batch
            /\ emplace_hash_vals[i] = H(emplace_collisions[i])
      /\ \A i \in UnvisitedAt : RowOf(i) \in DOMAIN batch /\ emplace_hash_vals[i] = H(RowOf(i))
  BY <1>4 DEF AInv, Named
<1>9. \A i \in WaitingAt : /\ emplace_collisions'[i] = emplace_collisions[i]
                           /\ emplace_hash_vals'[i] = emplace_hash_vals[i]
  BY <1>1
<1> HIDE DEF r
<1>10. Named'
  <2>1. \A i \in WaitingAt' :
           emplace_collisions'[i] \in DOMAIN batch /\ emplace_hash_vals'[i] = H(emplace_collisions'[i])
    BY <1>1, <1>2, <1>8, <1>9
  <2>2. \A i \in UnvisitedAt' :
           RowOf(i)' \in DOMAIN batch /\ emplace_hash_vals'[i] = H(RowOf(i)')
    BY <1>7, <1>8
  <2> QED
    BY <1>1, <1>4, <1>5, <2>1, <2>2 DEF Named, H
<1>11. Unvisited = {RowOf(i) : i \in UnvisitedAt} /\ Unvisited' = {RowOf(i)' : i \in UnvisitedAt'}
  BY DEF Unvisited, RowOf
<1>12. /\ \A i, j \in WaitingAt : emplace_collisions[i] = emplace_collisions[j] => i = j
       /\ \A i, j \in UnvisitedAt : RowOf(i) = RowOf(j) => i = j
       /\ Partition(Served, Waiting, Unvisited, ToRetry, dropped)
  BY <1>4 DEF AInv, Injective, Parts
<1>13. Unvisited' = Unvisited \ {r} /\ r \in Unvisited
  BY <1>6, <1>7, <1>11, <1>12 DEF r
<1>14. Waiting' = Waiting \cup {r} /\ r \notin Waiting
  <2>1. Waiting' = Waiting \cup {r}
    BY <1>1, <1>9 DEF Waiting
  <2> QED
    BY <2>1, <1>12, <1>13 DEF Partition
<1>15. Injective'
  <2>1. \A i, j \in WaitingAt' : emplace_collisions'[i] = emplace_collisions'[j] => i = j
    <3>1. \A i \in WaitingAt : emplace_collisions'[i] # r
      BY <1>9, <1>14 DEF Waiting
    <3> QED
      BY <1>1, <1>9, <1>12, <3>1
  <2>2. \A i, j \in UnvisitedAt' : RowOf(i)' = RowOf(j)' => i = j
    BY <1>7, <1>12
  <2> QED
    BY <1>4, <2>1, <2>2 DEF Injective
<1>16. Parts'
  <2>1. Served' = Served /\ ToRetry' = {} /\ dropped' = dropped /\ batch' = batch
    BY <1>4 DEF Served, ToRetry
  <2>2. Partition(Served, Waiting, Unvisited, ToRetry, dropped)'
    <3>1. /\ (Waiting \cup {r}) \cup (Unvisited \ {r}) = Waiting \cup Unvisited
          /\ (Waiting \cup {r}) \cap (Unvisited \ {r}) = {}
      BY <1>12, <1>13, <1>14 DEF Partition
    <3>2. /\ Served \cap (Waiting \cup {r}) = {} /\ Served \cap (Unvisited \ {r}) = {}
          /\ (Waiting \cup {r}) \cap dropped = {} /\ (Unvisited \ {r}) \cap dropped = {}
      BY <1>12, <1>13 DEF Partition
    <3>3. Served \cup (Waiting \cup {r}) \cup (Unvisited \ {r}) \cup {} \cup dropped
             = DOMAIN batch
      BY <1>2, <1>12, <3>1 DEF Partition
    <3>4. Served \cap dropped = {}
      BY <1>12 DEF Partition
    <3> QED
      BY <1>13, <1>14, <2>1, <3>1, <3>2, <3>3, <3>4 DEF Partition
  <2>3. phase' # "direct" /\ phase' # "none"
    OBVIOUS
  <2> QED
    BY <2>2, <2>3 DEF Parts
<1> QED
  BY <1>6, <1>7, <1>8, <1>10, <1>15, <1>16

(* A collision leaves the table alone and sends the row one chunk further. *)
LEMMA PassCollideKept ==
    ASSUME AInv, PassCollide
    PROVE  BKept
<1>1. /\ InPass /\ idx <= PassEnd /\ KeepWaiting /\ idx' = idx + 1
      /\ CannotEmplaceAtPos(HashAt(idx), emplace_positions[idx])
  BY DEF PassCollide
<1>2. /\ UNCHANGED vars
      /\ UNCHANGED <<batch, phase, resume, cur_count, batch_round, retry_idx, retry_count,
                     served, dropped>>
  BY DEF PassCollide, retryVars
<1>3. UNCHANGED <<num_chunks, chunks, size, entries, positions, todo, collided, rehash_batch,
                  after, pc, rows, row, pos, collision_batch, result>>
  BY <1>2 DEF vars, tableVars, rehashVars, emplaceVars
<1>4. /\ phase \in {"first", "collide"} /\ pc = "idle" /\ InArrays
      /\ phase' \in {"first", "collide"} /\ pc' = "idle" /\ InArrays'
  BY <1>1, <1>2, <1>3 DEF InPass, InArrays
<1>5. /\ TypeOK /\ RowsInv /\ BatchTypeOK
  BY DEF AInv, BatchTypeOK
<1>6. TypeOK' /\ RowsInv' /\ (IInv => IInv')
  BY <1>2, <1>5, SameVars
<1>7. /\ UnvisitedAt = idx .. LastAt /\ idx <= LastAt /\ PassEnd = LastAt
      /\ HashAt(idx) = H(RowOf(idx)) /\ batch_collisions < idx
      /\ RowOf(idx) \in DOMAIN batch
  BY <1>1, PassFacts
<1>8. /\ idx \in Nat \ {0} /\ LastAt \in 0 .. NumRows /\ NumRows \in Nat
      /\ DOMAIN batch = 1 .. NumRows /\ batch \in Seq(Keys) /\ batch_collisions \in Nat
      /\ num_chunks \in Nat \ {0} /\ batch_round \in Nat \ {0}
  BY <1>5, BatchTypes
<1>9. /\ InFirstPass' = InFirstPass /\ LastAt' = LastAt /\ NumRows' = NumRows
      /\ UnvisitedAt' = idx + 1 .. LastAt
  <2>1. InFirstPass' = InFirstPass /\ LastAt' = LastAt /\ NumRows' = NumRows
    BY <1>2, <1>4 DEF InFirstPass, LastAt, NumRows
  <2>2. PassEnd' = LastAt'
    BY <1>4 DEF PassEnd, LastAt, InFirstPass
  <2> QED
    BY <1>1, <1>4, <2>1, <2>2 DEF UnvisitedAt
<1>10. PICK at \in DOMAIN batch :
              /\ at = batch_collisions + 1 /\ at <= idx /\ batch_collisions' = at
              /\ emplace_collisions'[at] = RowOf(idx)
              /\ emplace_positions'[at]
                    = RehashPos(num_chunks, batch_round, emplace_positions[idx])
              /\ \A i \in DOMAIN batch \ {at} :
                    /\ emplace_collisions'[i] = emplace_collisions[i]
                    /\ emplace_positions'[i] = emplace_positions[i]
              /\ emplace_hash_vals' \in [DOMAIN batch -> Nat]
              /\ emplace_positions' \in [DOMAIN batch -> 0 .. num_chunks - 1]
              /\ emplace_collisions' \in [DOMAIN batch -> 0 .. NumRows]
              /\ WaitingAt' = WaitingAt \cup {at} /\ at \notin WaitingAt
              /\ WaitingAt \subseteq DOMAIN batch
  BY <1>1, KeepFacts
<1>11. /\ Named' /\ Injective' /\ Parts'
       /\ \A i \in UnvisitedAt' :
             /\ i \in UnvisitedAt /\ RowOf(i)' = RowOf(i)
             /\ emplace_positions'[i] = emplace_positions[i]
  BY <1>1, <1>2, <1>4, <1>9, KeepRows
<1>12. BatchTypeOK'
  <2>1. idx' \in 1 .. NumRows' + 1 /\ batch_collisions' \in 0 .. NumRows'
    BY <1>1, <1>7, <1>8, <1>9, <1>10
  <2>2. served' \in [DOMAIN batch' -> 0 .. Len(rows')]
    BY <1>2, <1>3, <1>5 DEF BatchTypeOK
  <2>3. /\ DOMAIN emplace_hash_vals' = DOMAIN batch'
        /\ emplace_positions' \in [DOMAIN batch' -> 0 .. num_chunks' - 1]
        /\ emplace_collisions' \in [DOMAIN batch' -> 0 .. NumRows']
    BY <1>2, <1>3, <1>9, <1>10
  <2> QED
    BY <1>2, <1>5, <1>6, <1>9, <2>1, <2>2, <2>3 DEF BatchTypeOK
<1>13. Control'
  BY <1>4 DEF Control
<1>14. Ranges'
  <2>1. idx' <= LastAt' + 1 /\ batch_collisions' < idx'
    BY <1>1, <1>7, <1>8, <1>9, <1>10
  <2> QED
    BY <1>4, <2>1 DEF Ranges
<1>15. ASSUME PathsInv PROVE OnPaths'
  <2>1. \A q : H(q)' = H(q)
    BY <1>2 DEF H
  <2>2. /\ \A i \in WaitingAt : Scanned(chunks, num_chunks, H(emplace_collisions[i]),
                                        emplace_positions[i], batch_round)
        /\ \A i \in UnvisitedAt : Scanned(chunks, num_chunks, H(RowOf(i)), emplace_positions[i],
                                          batch_round - 1)
    BY <1>4, <1>15 DEF PathsInv, OnPaths
  <2>3. Scanned(chunks, num_chunks, H(RowOf(idx)),
                RehashPos(num_chunks, batch_round, emplace_positions[idx]), batch_round)
    <3> DEFINE h == H(RowOf(idx))
               p == emplace_positions[idx]
               k == batch_round - 1
    <3>1. Scanned(chunks, num_chunks, h, p, k)
      BY <1>1, <1>15, PassFacts DEF PathsInv
    <3>2. HashMatches(chunks[p], h) = {} /\ IsFull(chunks[p])
      BY <1>1, <1>7 DEF CannotEmplaceAtPos
    <3>3. h \in Nat
      BY <1>7, <1>8, HashType
    <3>4. k \in Nat /\ k + 1 = batch_round
      BY <1>8
    <3> HIDE DEF h, p, k
    <3>5. Scanned(chunks, num_chunks, h, RehashPos(num_chunks, k + 1, p), k + 1)
      BY <1>8, <3>1, <3>2, <3>3, <3>4, ScannedNext
    <3> QED
      BY <3>4, <3>5 DEF h, p
  <2>4. \A i \in WaitingAt' : Scanned(chunks, num_chunks, H(emplace_collisions'[i]),
                                      emplace_positions'[i], batch_round)
    BY <1>10, <2>2, <2>3
  <2>5. \A i \in UnvisitedAt' : Scanned(chunks, num_chunks, H(RowOf(i)'),
                                        emplace_positions'[i], batch_round - 1)
    BY <1>11, <2>2
  <2>6. RetryAt' = {}
    BY <1>4 DEF RetryAt
  <2> QED
    BY <1>2, <1>3, <2>1, <2>4, <2>5, <2>6 DEF OnPaths, H
<1>16. ServedRight'
  BY <1>2, <1>3 DEF AInv, ServedRight, Served, H
<1> QED
  BY <1>6, <1>11, <1>12, <1>13, <1>14, <1>15, <1>16 DEF BKept, AInv, PathsInv

(* A collision in a table at its threshold: expand takes it apart. *)
LEMMA PassExpandKept ==
    ASSUME AInv, PassExpand
    PROVE  BKept
<1>1. /\ InPass /\ idx <= PassEnd /\ KeepWaiting /\ StartExpand("idle")
      /\ phase' = "expand" /\ resume' = phase /\ batch_round' = 1
  BY DEF PassExpand
<1>2. UNCHANGED <<rows, row, pos, collision_batch, result, batch, idx, cur_count,
                  retry_idx, retry_count, served, dropped>>
  BY DEF PassExpand, emplaceVars, retryVars
<1>3. phase \in {"first", "collide"} /\ pc = "idle" /\ InArrays
  BY <1>1 DEF InPass, InArrays
<1>4. TypeOK /\ RowsInv /\ BatchTypeOK /\ Pending = {}
  BY <1>3 DEF AInv, BatchTypeOK, RowsInv
<1>5. TypeOK' /\ pc' = "rehash" /\ after' = "idle"
  <2>1. /\ num_chunks' \in Nat \ {0}
        /\ chunks' \in [0 .. num_chunks' - 1 -> [Slots -> Slot]]
        /\ size' \in Nat
        /\ todo' \cup collided' \subseteq DOMAIN entries'
        /\ entries' \in [DOMAIN entries' -> Slot]
        /\ positions' \in [DOMAIN entries' -> 0 .. num_chunks' - 1]
        /\ rehash_batch' \in Nat \ {0}
        /\ pc' = "rehash"
    BY <1>1, <1>4, StartExpandType
  <2>2. after' = "idle"
    BY <1>1 DEF StartExpand
  <2>3. /\ rows' \in Seq(Keys) /\ row' \in Keys /\ pos' \in Nat
        /\ collision_batch' \in Nat \ {0} /\ result' \in [value : Nat, is_new : BOOLEAN]
    BY <1>2, <1>4 DEF TypeOK
  <2> QED
    BY <2>1, <2>2, <2>3 DEF TypeOK
<1>6. RowsInv' /\ (IInv => IInv')
  BY <1>1, <1>2, <1>4, <1>5, StartKeepsRows, StartExpandIInv DEF RowsInv
<1>7. /\ UnvisitedAt = idx .. LastAt /\ idx <= LastAt /\ batch_collisions < idx
  BY <1>1, PassFacts
<1>8. /\ idx \in Nat \ {0} /\ LastAt \in 0 .. NumRows /\ NumRows \in Nat
      /\ DOMAIN batch = 1 .. NumRows /\ batch_collisions \in Nat
      /\ num_chunks \in Nat \ {0}
  BY <1>4, BatchTypes
<1>9. /\ InFirstPass' = InFirstPass /\ LastAt' = LastAt /\ NumRows' = NumRows
      /\ UnvisitedAt' = idx + 1 .. LastAt
  <2>1. InFirstPass' = InFirstPass /\ LastAt' = LastAt /\ NumRows' = NumRows
    BY <1>1, <1>2, <1>3 DEF InFirstPass, LastAt, NumRows
  <2>2. UnvisitedAt' = idx' + 1 .. (IF resume' = "first" THEN NumRows' ELSE cur_count')
    BY <1>1 DEF UnvisitedAt
  <2>3. LastAt' = IF resume' = "first" THEN NumRows' ELSE cur_count'
    BY <1>1 DEF LastAt, InFirstPass
  <2> QED
    BY <1>2, <2>1, <2>2, <2>3
<1>10. PICK at \in DOMAIN batch :
              /\ at = batch_collisions + 1 /\ at <= idx /\ batch_collisions' = at
              /\ emplace_hash_vals' \in [DOMAIN batch -> Nat]
              /\ emplace_positions' \in [DOMAIN batch -> 0 .. num_chunks - 1]
              /\ emplace_collisions' \in [DOMAIN batch -> 0 .. NumRows]
  BY <1>1, KeepFacts
<1>11. Named' /\ Injective' /\ Parts'
  BY <1>1, <1>2, <1>9, KeepRows
<1>12. BatchTypeOK'
  <2>1. idx' \in 1 .. NumRows' + 1 /\ batch_collisions' \in 0 .. NumRows'
    BY <1>2, <1>7, <1>8, <1>9, <1>10
  <2>2. served' \in [DOMAIN batch' -> 0 .. Len(rows')]
    BY <1>2, <1>4 DEF BatchTypeOK
  <2>3. num_chunks' = 2 * num_chunks
    BY <1>1 DEF StartExpand
  <2>4. \A x \in 0 .. num_chunks - 1 : x \in 0 .. num_chunks' - 1
    BY <1>8, <2>3
  <2>5. emplace_positions' \in [DOMAIN batch -> 0 .. num_chunks' - 1]
    BY <1>10, <2>4
  <2>6. /\ DOMAIN emplace_hash_vals' = DOMAIN batch'
        /\ emplace_positions' \in [DOMAIN batch' -> 0 .. num_chunks' - 1]
        /\ emplace_collisions' \in [DOMAIN batch' -> 0 .. NumRows']
    BY <1>2, <1>9, <1>10, <2>5
  <2>7. /\ batch' \in Seq(Keys) /\ phase' = "expand" /\ resume' \in {"first", "collide"}
        /\ cur_count' \in 0 .. NumRows' /\ batch_round' \in Nat \ {0}
        /\ retry_count' \in Nat /\ retry_idx' \in 1 .. retry_count' + 1
        /\ dropped' \subseteq DOMAIN batch'
    BY <1>1, <1>2, <1>3, <1>4, <1>9 DEF BatchTypeOK
  <2> QED
    BY <1>5, <2>1, <2>2, <2>6, <2>7 DEF BatchTypeOK
<1>13. Control'
  BY <1>1, <1>5 DEF Control
<1>14. Ranges'
  BY <1>1, <1>2, <1>7, <1>8, <1>9, <1>10 DEF Ranges
<1>15. OnPaths'
  BY <1>1 DEF OnPaths, RetryAt
<1>16. ServedRight'
  BY <1>2 DEF AInv, ServedRight, Served, H
<1> QED
  BY <1>6, <1>11, <1>12, <1>13, <1>14, <1>15, <1>16 DEF BKept, AInv, PathsInv

(* The pass is over: its waiting rows are the rows of the next round. *)
LEMMA NextRoundKept ==
    ASSUME AInv, NextRound
    PROVE  BKept
<1>1. /\ InPass /\ idx > PassEnd /\ phase' = "collide"
      /\ cur_count' = batch_collisions /\ batch_collisions' = 0
      /\ batch_round' = batch_round + 1 /\ idx' = 1
  BY DEF NextRound
<1>2. /\ UNCHANGED vars
      /\ UNCHANGED <<batch, resume, emplace_hash_vals, emplace_positions, emplace_collisions,
                     retry_idx, retry_count, served, dropped>>
  BY DEF NextRound, arrays, retryVars
<1>3. UNCHANGED <<num_chunks, chunks, rows, pc>>
  BY <1>2 DEF vars, tableVars, rehashVars, emplaceVars
<1>4. phase \in {"first", "collide"} /\ pc = "idle" /\ InArrays /\ InArrays'
  BY <1>1 DEF InPass, InArrays
<1>5. TypeOK /\ BatchTypeOK /\ TypeOK' /\ RowsInv' /\ (IInv => IInv')
  BY <1>2, SameVars DEF AInv, BatchTypeOK
<1>6. /\ idx \in Nat /\ LastAt \in 0 .. NumRows /\ NumRows \in Nat /\ NumRows' = NumRows
      /\ batch_collisions \in 0 .. NumRows /\ batch_round \in Nat \ {0}
  BY <1>2, <1>5, BatchTypes DEF NumRows
<1>7. UnvisitedAt = {} /\ Unvisited = {} /\ RetryAt = {} /\ ToRetry = {}
  <2>1. PassEnd = LastAt
    BY <1>4 DEF PassEnd, LastAt, InFirstPass
  <2>2. UnvisitedAt = {}
    BY <1>1, <1>4, <1>6, <2>1 DEF UnvisitedAt
  <2> QED
    BY <1>4, <2>2 DEF Unvisited, RetryAt, ToRetry
<1>8. /\ WaitingAt' = {} /\ RetryAt' = {} /\ UnvisitedAt' = WaitingAt
      /\ \A i : RowOf(i)' = emplace_collisions[i]
      /\ \A q : H(q)' = H(q)
  BY <1>1, <1>2 DEF WaitingAt, RetryAt, UnvisitedAt, PassEnd, RowOf, InFirstPass, H
<1>9. Waiting' = {} /\ ToRetry' = {} /\ Unvisited' = Waiting /\ Served' = Served
  BY <1>1, <1>2, <1>8 DEF Waiting, ToRetry, Unvisited, InFirstPass, Served
<1>10. BatchTypeOK'
  <2>1. idx' \in 1 .. NumRows' + 1 /\ batch_collisions' \in 0 .. NumRows'
        /\ cur_count' \in 0 .. NumRows' /\ batch_round' \in Nat \ {0}
    BY <1>1, <1>6
  <2> QED
    BY <1>1, <1>2, <1>3, <1>4, <1>5, <1>6, <2>1 DEF BatchTypeOK
<1>11. Control' /\ Ranges'
  <2>1. Control'
    BY <1>1, <1>3, <1>4 DEF Control
  <2>2. LastAt' = batch_collisions
    BY <1>1 DEF LastAt, InFirstPass
  <2> QED
    BY <1>1, <1>6, <2>1, <2>2 DEF Ranges
<1>12. Named'
  BY <1>2, <1>4, <1>8 DEF AInv, Named
<1>13. Injective'
  BY <1>2, <1>4, <1>8 DEF AInv, Injective
<1>14. Parts'
  <2>1. Partition(Served, Waiting, Unvisited, ToRetry, dropped)
    BY <1>4 DEF AInv, Parts
  <2>2. Partition(Served, Waiting, Unvisited, ToRetry, dropped)'
    BY <1>2, <1>7, <1>9, <2>1 DEF Partition
  <2> QED
    BY <1>1, <2>2 DEF Parts
<1>15. ASSUME PathsInv PROVE OnPaths'
  <2>1. batch_round' - 1 = batch_round
    BY <1>1, <1>6
  <2>2. \A i \in WaitingAt : Scanned(chunks, num_chunks, H(emplace_collisions[i]),
                                     emplace_positions[i], batch_round)
    BY <1>4, <1>15 DEF PathsInv, OnPaths
  <2>3. \A i \in UnvisitedAt' : Scanned(chunks', num_chunks', H(RowOf(i))',
                                        emplace_positions'[i], batch_round' - 1)
    BY <1>2, <1>3, <1>8, <2>1, <2>2 DEF H
  <2> QED
    BY <1>8, <2>3 DEF OnPaths
<1>16. ServedRight'
  BY <1>2, <1>3 DEF AInv, ServedRight, Served, H
<1> QED
  BY <1>5, <1>10, <1>11, <1>12, <1>13, <1>14, <1>15, <1>16 DEF BKept, AInv, PathsInv

-----------------------------------------------------------------------------
(* The expansion inside a batch and the retry after it. *)

(* Whatever the map does to its table, the batch's own state keeps its meaning. *)
LEMMA SameBatch ==
    ASSUME AInv, TypeOK', UNCHANGED <<batch, phase, resume, idx, cur_count,
               emplace_hash_vals, emplace_positions, emplace_collisions, batch_collisions,
               batch_round, retry_idx, retry_count, served, dropped>>,
           rows' = rows, num_chunks' = num_chunks \/ phase = "direct"
    PROVE  BatchTypeOK' /\ Ranges' /\ Named' /\ Injective' /\ Parts' /\ ServedRight'
<1>1. /\ NumRows' = NumRows /\ InArrays' = InArrays /\ LastAt' = LastAt
      /\ WaitingAt' = WaitingAt /\ UnvisitedAt' = UnvisitedAt /\ RetryAt' = RetryAt
      /\ \A i : RowOf(i)' = RowOf(i)
      /\ \A q : H(q)' = H(q)
  BY DEF NumRows, InArrays, LastAt, InFirstPass, WaitingAt, UnvisitedAt, PassEnd, RetryAt,
     RowOf, H
<1>2. /\ Served' = Served /\ Waiting' = Waiting /\ Unvisited' = Unvisited
      /\ ToRetry' = ToRetry
  BY <1>1 DEF Served, Waiting, Unvisited, InFirstPass, ToRetry
<1>3. BatchTypeOK'
  BY <1>1 DEF AInv, BatchTypeOK
<1>4. Ranges'
  BY <1>1 DEF AInv, Ranges
<1>5. Named'
  BY <1>1 DEF AInv, Named
<1>6. Injective'
  BY <1>1 DEF AInv, Injective
<1>7. Parts'
  BY <1>1, <1>2 DEF AInv, Parts, Partition
<1>8. ServedRight'
  BY <1>1, <1>2 DEF AInv, ServedRight
<1> QED
  BY <1>3, <1>4, <1>5, <1>6, <1>7, <1>8

LEMMA ExpandInBatchKept ==
    ASSUME AInv, ExpandInBatch
    PROVE  BKept
<1>1. phase = "expand" /\ ExpandStep /\ UNCHANGED emplaceVars /\ UNCHANGED batchVars
  BY DEF ExpandInBatch
<1>2. TypeOK' /\ RowsInv' /\ (IInv => IInv')
  BY <1>1, NextType, NextRowsInv, NextIInv DEF AInv, BatchTypeOK, Next, Step
<1>3. /\ num_chunks' = num_chunks /\ rows' = rows
      /\ UNCHANGED <<batch, phase, resume, idx, cur_count,
               emplace_hash_vals, emplace_positions, emplace_collisions, batch_collisions,
               batch_round, retry_idx, retry_count, served, dropped>>
  BY <1>1 DEF ExpandStep, RehashPlace, RehashCollide, RehashRound, RehashDone, emplaceVars,
     batchVars, arrays, retryVars, tableVars
<1>4. BatchTypeOK' /\ Ranges' /\ Named' /\ Injective' /\ Parts' /\ ServedRight'
  BY <1>2, <1>3, SameBatch
<1>5. Control'
  BY <1>1, <1>3 DEF AInv, Control, ExpandStep, RehashPlace, RehashCollide, RehashRound, RehashDone
<1>6. OnPaths'
  BY <1>1, <1>3 DEF OnPaths, RetryAt
<1> QED
  BY <1>2, <1>4, <1>5, <1>6 DEF BKept, AInv, PathsInv

(* A place whose position is reset starts at home in the table as it is. *)
LEMMA ResetFacts ==
    ASSUME BatchTypeOK, InArrays, NEW first \in Nat, NEW last \in Nat,
           emplace_positions' = ResetPositions(first, last),
           emplace_hash_vals \in [DOMAIN batch -> Nat]
    PROVE  /\ emplace_positions' \in [DOMAIN batch -> 0 .. num_chunks - 1]
           /\ \A i \in DOMAIN batch : i \in first .. last =>
                 emplace_positions'[i] = ChunkPos(num_chunks, emplace_hash_vals[i])
<1>1. emplace_positions \in [DOMAIN batch -> 0 .. num_chunks - 1] /\ num_chunks \in Nat \ {0}
  BY BatchTypes DEF BatchTypeOK, InArrays
<1>2. \A i \in DOMAIN batch : ChunkPos(num_chunks, emplace_hash_vals[i]) \in 0 .. num_chunks - 1
  BY <1>1, ModRange DEF ChunkPos
<1> QED
  BY <1>1, <1>2 DEF ResetPositions

(* What the two interrupted phases know of the pass they interrupt. *)
LEMMA RetryFacts ==
    ASSUME AInv, phase \in {"expand", "retry"}
    PROVE  /\ InArrays /\ TypeOK /\ RowsInv /\ BatchTypeOK
           /\ UnvisitedAt = idx + 1 .. LastAt
           /\ idx \in Nat \ {0} /\ idx <= LastAt /\ LastAt \in 0 .. NumRows /\ NumRows \in Nat
           /\ DOMAIN batch = 1 .. NumRows /\ batch \in Seq(Keys)
           /\ batch_collisions \in Nat /\ batch_collisions <= idx /\ batch_round = 1
           /\ emplace_hash_vals \in [DOMAIN batch -> Nat]
           /\ \A q : RowOf(q) = IF resume = "first" THEN q ELSE emplace_collisions[q]
           /\ UnvisitedAt \subseteq DOMAIN batch /\ WaitingAt \subseteq DOMAIN batch
<1>1. InArrays /\ TypeOK /\ RowsInv /\ BatchTypeOK
  BY DEF InArrays, AInv, BatchTypeOK
<1>2. UnvisitedAt = idx + 1 .. LastAt
  BY DEF UnvisitedAt, LastAt, InFirstPass
<1>3. /\ idx \in Nat \ {0} /\ LastAt \in 0 .. NumRows /\ NumRows \in Nat
      /\ DOMAIN batch = 1 .. NumRows /\ batch \in Seq(Keys) /\ batch_collisions \in Nat
  BY <1>1, BatchTypes
<1>4. idx <= LastAt /\ batch_collisions <= idx /\ batch_round = 1
  BY DEF AInv, Ranges
<1>5. emplace_hash_vals \in [DOMAIN batch -> Nat]
  BY <1>1 DEF AInv, Named
<1>6. \A q : RowOf(q) = IF resume = "first" THEN q ELSE emplace_collisions[q]
  BY DEF RowOf, InFirstPass
<1>7. UnvisitedAt \subseteq DOMAIN batch /\ WaitingAt \subseteq DOMAIN batch
  BY <1>2, <1>3, <1>4 DEF WaitingAt
<1> QED
  BY <1>1, <1>2, <1>3, <1>4, <1>5, <1>6, <1>7

(* The waiting rows become the rows to retry, each at its new home. *)
LEMMA RetryStartKept ==
    ASSUME AInv, RetryStart
    PROVE  BKept
<1>1. /\ phase = "expand" /\ pc = "idle" /\ phase' = "retry"
      /\ emplace_positions' = ResetPositions(1, batch_collisions)
      /\ retry_count' = batch_collisions /\ retry_idx' = 1 /\ batch_collisions' = 0
  BY DEF RetryStart
<1>2. /\ UNCHANGED vars
      /\ UNCHANGED <<batch, resume, idx, cur_count, emplace_hash_vals, emplace_collisions,
                     batch_round, served, dropped>>
  BY DEF RetryStart
<1>3. UNCHANGED <<num_chunks, chunks, rows, pc>>
  BY <1>2 DEF vars, tableVars, rehashVars, emplaceVars
<1>4. InArrays' /\ TypeOK' /\ RowsInv' /\ (IInv => IInv')
  BY <1>1, <1>2, RetryFacts, SameVars DEF InArrays
<1>5. /\ InArrays /\ BatchTypeOK /\ TypeOK
      /\ UnvisitedAt = idx + 1 .. LastAt
      /\ idx \in Nat \ {0} /\ idx <= LastAt /\ LastAt \in 0 .. NumRows /\ NumRows \in Nat
      /\ DOMAIN batch = 1 .. NumRows /\ batch \in Seq(Keys)
      /\ batch_collisions \in Nat /\ batch_collisions <= idx /\ batch_round = 1
      /\ emplace_hash_vals \in [DOMAIN batch -> Nat] /\ WaitingAt \subseteq DOMAIN batch
  BY <1>1, RetryFacts
<1>6. /\ NumRows' = NumRows /\ LastAt' = LastAt /\ UnvisitedAt' = UnvisitedAt
      /\ RetryAt = {} /\ WaitingAt' = {} /\ RetryAt' = WaitingAt
      /\ \A i : RowOf(i)' = RowOf(i)
      /\ \A q : H(q)' = H(q)
  BY <1>1, <1>2 DEF NumRows, LastAt, InFirstPass, UnvisitedAt, RetryAt, WaitingAt, RowOf, H
<1>7. /\ ToRetry = {} /\ Waiting' = {} /\ ToRetry' = Waiting
      /\ Unvisited' = Unvisited /\ Served' = Served
  BY <1>1, <1>2, <1>6 DEF ToRetry, Waiting, Unvisited, InFirstPass, Served
<1>8. /\ emplace_positions' \in [DOMAIN batch -> 0 .. num_chunks - 1]
      /\ \A i \in WaitingAt :
            emplace_positions'[i] = ChunkPos(num_chunks, emplace_hash_vals[i])
  BY <1>1, <1>5, ResetFacts DEF WaitingAt
<1>9. BatchTypeOK'
  <2>1. batch_collisions' \in 0 .. NumRows' /\ retry_count' \in Nat
        /\ retry_idx' \in 1 .. retry_count' + 1
    BY <1>1, <1>5, <1>6
  <2> QED
    BY <1>1, <1>2, <1>3, <1>4, <1>5, <1>6, <1>8, <2>1 DEF BatchTypeOK
<1>10. Control'
  BY <1>1, <1>3 DEF Control
<1>11. Ranges'
  BY <1>1, <1>2, <1>5, <1>6 DEF Ranges
<1>12. Named'
  BY <1>2, <1>4, <1>5, <1>6 DEF AInv, Named
<1>13. Injective'
  BY <1>2, <1>4, <1>5, <1>6 DEF AInv, Injective
<1>14. Parts'
  <2>1. Partition(Served, Waiting, Unvisited, ToRetry, dropped)
    BY <1>5 DEF AInv, Parts
  <2>2. Partition(Served, Waiting, Unvisited, ToRetry, dropped)'
    BY <1>2, <1>7, <2>1 DEF Partition
  <2> QED
    BY <1>1, <2>2 DEF Parts
<1>15. OnPaths'
  <2>1. \A i \in WaitingAt : emplace_collisions[i] \in DOMAIN batch
                             /\ emplace_hash_vals[i] = H(emplace_collisions[i])
    BY <1>5 DEF AInv, Named
  <2>2. \A q \in DOMAIN batch : H(q) \in Nat
    BY <1>5, HashType
  <2>3. num_chunks \in Nat \ {0}
    BY <1>5 DEF TypeOK
  <2>4. \A i \in WaitingAt : Scanned(chunks, num_chunks, H(emplace_collisions[i]),
                                     emplace_positions'[i], 0)
    BY <1>8, <2>1, <2>2, <2>3, ScannedHome
  <2> QED
    BY <1>1, <1>2, <1>3, <1>6, <2>4 DEF OnPaths, H
<1>16. ServedRight'
  BY <1>2, <1>3 DEF AInv, ServedRight, Served, H
<1> QED
  BY <1>4, <1>9, <1>10, <1>11, <1>12, <1>13, <1>14, <1>15, <1>16 DEF BKept, AInv, PathsInv

(* The retry is over: the rows still to visit start at their new homes. *)
LEMMA RetryEndKept ==
    ASSUME AInv, RetryEnd
    PROVE  BKept
<1>1. /\ phase = "retry" /\ retry_idx > retry_count
      /\ emplace_positions' =
           ResetPositions(idx + 1, IF resume = "first" THEN NumRows ELSE cur_count)
      /\ phase' = resume /\ resume' = "first" /\ idx' = idx + 1
      /\ retry_idx' = 1 /\ retry_count' = 0
  BY DEF RetryEnd
<1>2. /\ UNCHANGED vars
      /\ UNCHANGED <<batch, cur_count, emplace_hash_vals, emplace_collisions,
                     batch_collisions, batch_round, served, dropped>>
  BY DEF RetryEnd
<1>3. UNCHANGED <<num_chunks, chunks, rows, pc>>
  BY <1>2 DEF vars, tableVars, rehashVars, emplaceVars
<1>4. /\ InArrays /\ BatchTypeOK /\ TypeOK
      /\ UnvisitedAt = idx + 1 .. LastAt
      /\ idx \in Nat \ {0} /\ idx <= LastAt /\ LastAt \in 0 .. NumRows /\ NumRows \in Nat
      /\ DOMAIN batch = 1 .. NumRows /\ batch \in Seq(Keys)
      /\ batch_collisions \in Nat /\ batch_round = 1
      /\ emplace_hash_vals \in [DOMAIN batch -> Nat] /\ UnvisitedAt \subseteq DOMAIN batch
  BY <1>1, RetryFacts
<1>5. /\ phase' \in {"first", "collide"} /\ InArrays' /\ pc = "idle" /\ TypeOK' /\ RowsInv'
      /\ IInv => IInv'
  <2>1. phase' \in {"first", "collide"} /\ InArrays'
    BY <1>1, <1>4 DEF BatchTypeOK, InArrays
  <2>2. pc = "idle"
    BY <1>1 DEF AInv, Control
  <2> QED
    BY <1>2, <1>4, <2>1, <2>2, SameVars DEF AInv
<1>6. batch_collisions = 0
  BY <1>1 DEF AInv, Ranges
<1>7. /\ InFirstPass' = InFirstPass /\ NumRows' = NumRows /\ LastAt' = LastAt
      /\ PassEnd' = LastAt
      /\ LastAt = IF resume = "first" THEN NumRows ELSE cur_count
  BY <1>1, <1>2, <1>5 DEF InFirstPass, NumRows, LastAt, PassEnd
<1>8. /\ UnvisitedAt' = UnvisitedAt /\ WaitingAt = {} /\ WaitingAt' = {}
      /\ RetryAt = {} /\ RetryAt' = {}
      /\ \A i : RowOf(i)' = RowOf(i)
      /\ \A q : H(q)' = H(q)
  <2>1. UnvisitedAt' = UnvisitedAt
    BY <1>1, <1>4, <1>5, <1>7 DEF UnvisitedAt
  <2>2. WaitingAt = {} /\ WaitingAt' = {}
    BY <1>2, <1>6 DEF WaitingAt
  <2>3. RetryAt = {} /\ RetryAt' = {}
    BY <1>1, <1>4, <1>5, BatchTypes DEF RetryAt
  <2> QED
    BY <1>2, <1>7, <2>1, <2>2, <2>3 DEF RowOf, H
<1>9. /\ Waiting' = Waiting /\ ToRetry' = ToRetry /\ Unvisited' = Unvisited /\ Served' = Served
  BY <1>2, <1>7, <1>8 DEF Waiting, ToRetry, Unvisited, Served
<1>10. /\ emplace_positions' \in [DOMAIN batch -> 0 .. num_chunks - 1]
       /\ \A i \in UnvisitedAt :
             emplace_positions'[i] = ChunkPos(num_chunks, emplace_hash_vals[i])
  <2>1. emplace_positions' = ResetPositions(idx + 1, LastAt)
    BY <1>1, <1>7
  <2>2. idx + 1 \in Nat /\ LastAt \in Nat
    BY <1>4
  <2>3. /\ emplace_positions' \in [DOMAIN batch -> 0 .. num_chunks - 1]
        /\ \A i \in DOMAIN batch : i \in idx + 1 .. LastAt =>
             emplace_positions'[i] = ChunkPos(num_chunks, emplace_hash_vals[i])
    BY <1>4, <2>1, <2>2, ResetFacts
  <2> QED
    BY <1>4, <2>3
<1>11. BatchTypeOK'
  <2>1. idx' \in 1 .. NumRows' + 1 /\ retry_idx' \in 1 .. retry_count' + 1
    BY <1>1, <1>4, <1>7
  <2> QED
    BY <1>1, <1>2, <1>3, <1>4, <1>5, <1>7, <1>10, <2>1 DEF BatchTypeOK
<1>12. Control'
  BY <1>3, <1>5 DEF Control
<1>13. Ranges'
  <2>1. idx' <= LastAt' + 1 /\ batch_collisions' < idx'
    BY <1>1, <1>2, <1>4, <1>6, <1>7
  <2> QED
    BY <1>5, <2>1 DEF Ranges
<1>14. Named'
  BY <1>2, <1>4, <1>5, <1>8 DEF AInv, Named
<1>15. Injective'
  BY <1>2, <1>4, <1>5, <1>8 DEF AInv, Injective
<1>16. Parts'
  <2>1. Partition(Served, Waiting, Unvisited, ToRetry, dropped)
    BY <1>4 DEF AInv, Parts
  <2>2. Partition(Served, Waiting, Unvisited, ToRetry, dropped)'
    BY <1>2, <1>9, <2>1 DEF Partition
  <2> QED
    BY <1>5, <2>2 DEF Parts
<1>17. OnPaths'
  <2>1. \A i \in UnvisitedAt : RowOf(i) \in DOMAIN batch /\ emplace_hash_vals[i] = H(RowOf(i))
    BY <1>4 DEF AInv, Named
  <2>2. \A q \in DOMAIN batch : H(q) \in Nat
    BY <1>4, HashType
  <2>3. num_chunks \in Nat \ {0}
    BY <1>4 DEF TypeOK
  <2>4. \A i \in UnvisitedAt : Scanned(chunks, num_chunks, H(RowOf(i)), emplace_positions'[i], 0)
    BY <1>10, <2>1, <2>2, <2>3, ScannedHome
  <2>5. batch_round' - 1 = 0
    BY <1>2, <1>4
  <2>6. \A i \in UnvisitedAt' : Scanned(chunks', num_chunks', H(RowOf(i))',
                                        emplace_positions'[i], batch_round' - 1)
    BY <1>2, <1>3, <1>8, <2>4, <2>5 DEF H
  <2> QED
    BY <1>8, <2>6 DEF OnPaths
<1>18. ServedRight'
  BY <1>2, <1>3 DEF AInv, ServedRight, Served, H
<1> QED
  BY <1>5, <1>11, <1>12, <1>13, <1>14, <1>15, <1>16, <1>17, <1>18 DEF BKept, AInv, PathsInv

(* The place the retry is at, and the places left after it. *)
LEMMA RetryPlace ==
    ASSUME AInv, phase = "retry", retry_idx <= retry_count, retry_idx' = retry_idx + 1,
           UNCHANGED <<batch, phase, resume, idx, cur_count, emplace_hash_vals,
                       emplace_positions, emplace_collisions, batch_collisions, batch_round,
                       retry_count>>
    PROVE  /\ retry_idx \in RetryAt /\ retry_idx \in DOMAIN batch
           /\ emplace_collisions[retry_idx] \in DOMAIN batch
           /\ emplace_positions[retry_idx] \in 0 .. num_chunks - 1
           /\ OnPaths => Scanned(chunks, num_chunks, H(emplace_collisions[retry_idx]),
                                 emplace_positions[retry_idx], 0)
           /\ RetryAt' = RetryAt \ {retry_idx}
           /\ ToRetry' = ToRetry \ {emplace_collisions[retry_idx]}
           /\ emplace_collisions[retry_idx] \in ToRetry
           /\ UnvisitedAt' = UnvisitedAt /\ WaitingAt = {} /\ WaitingAt' = {}
           /\ NumRows' = NumRows /\ LastAt' = LastAt /\ retry_idx' \in 1 .. retry_count' + 1
           /\ Waiting' = Waiting /\ Unvisited' = Unvisited
           /\ \A i : RowOf(i)' = RowOf(i)
           /\ \A q : H(q)' = H(q)
           /\ InArrays' /\ Control /\ pc = "idle"
           /\ Ranges' /\ Named' /\ Injective'
<1>1. /\ InArrays /\ InArrays' /\ BatchTypeOK /\ idx <= LastAt /\ LastAt \in 0 .. NumRows
      /\ NumRows \in Nat /\ DOMAIN batch = 1 .. NumRows /\ idx \in Nat \ {0}
  BY RetryFacts DEF InArrays
<1>2. batch_collisions = 0 /\ retry_count <= idx /\ batch_round = 1
  BY DEF AInv, Ranges
<1>3. retry_count \in Nat /\ retry_idx \in 1 .. retry_count + 1
  BY <1>1, BatchTypes
<1>4. /\ retry_idx \in RetryAt /\ retry_idx \in DOMAIN batch /\ retry_idx \in Nat
      /\ retry_idx' \in 1 .. retry_count' + 1
      /\ RetryAt' = RetryAt \ {retry_idx}
  BY <1>1, <1>2, <1>3 DEF RetryAt
<1>5. /\ WaitingAt = {} /\ WaitingAt' = {} /\ UnvisitedAt' = UnvisitedAt
      /\ NumRows' = NumRows /\ LastAt' = LastAt
      /\ \A i : RowOf(i)' = RowOf(i)
      /\ \A q : H(q)' = H(q)
  BY <1>2 DEF WaitingAt, UnvisitedAt, NumRows, LastAt, InFirstPass, RowOf, H
<1>6. emplace_collisions[retry_idx] \in DOMAIN batch
  BY <1>1, <1>4 DEF AInv, Named
<1>7. emplace_positions[retry_idx] \in 0 .. num_chunks - 1
  BY <1>1, <1>4 DEF BatchTypeOK
<1>8. OnPaths => Scanned(chunks, num_chunks, H(emplace_collisions[retry_idx]),
                         emplace_positions[retry_idx], 0)
  BY <1>4 DEF OnPaths
<1>9. /\ ToRetry' = ToRetry \ {emplace_collisions[retry_idx]}
      /\ emplace_collisions[retry_idx] \in ToRetry
  <2>1. \A i, j \in RetryAt : emplace_collisions[i] = emplace_collisions[j] => i = j
    BY <1>1 DEF AInv, Injective
  <2> QED
    BY <1>4, <2>1 DEF ToRetry
<1>10. Waiting' = Waiting /\ Unvisited' = Unvisited
  BY <1>5 DEF Waiting, Unvisited, InFirstPass
<1>11. Control /\ pc = "idle"
  BY DEF AInv, Control
<1>12. Ranges'
  BY <1>1, <1>2, <1>5 DEF Ranges
<1>13. Named'
  BY <1>1, <1>4, <1>5 DEF AInv, Named
<1>14. Injective'
  BY <1>1, <1>4, <1>5 DEF AInv, Injective
<1> QED
  BY <1>1, <1>4, <1>5, <1>6, <1>7, <1>8, <1>9, <1>10, <1>11, <1>12, <1>13, <1>14

LEMMA RetryServeKept ==
    ASSUME AInv, RetryServe
    PROVE  BKept
<1> DEFINE r == emplace_collisions[retry_idx]
<1>1. /\ phase = "retry" /\ retry_idx <= retry_count /\ retry_idx' = retry_idx + 1
      /\ TryEmplaceAtPos(H(r), emplace_positions[retry_idx], r)
  BY DEF RetryServe, H
<1>2. UNCHANGED <<rehashVars, pc, row, pos, collision_batch, result, batch, phase, resume,
                  idx, cur_count, emplace_hash_vals, emplace_positions, emplace_collisions,
                  batch_collisions, batch_round, retry_count, dropped>>
  BY DEF RetryServe, arrays
<1>3. /\ r \in DOMAIN batch /\ emplace_positions[retry_idx] \in 0 .. num_chunks - 1
      /\ OnPaths => Scanned(chunks, num_chunks, H(r), emplace_positions[retry_idx], 0)
      /\ RetryAt' \subseteq RetryAt /\ ToRetry' = ToRetry \ {r} /\ r \in ToRetry
      /\ UnvisitedAt' = UnvisitedAt /\ WaitingAt = {} /\ WaitingAt' = {}
      /\ NumRows' = NumRows /\ retry_idx' \in 1 .. retry_count' + 1
      /\ Waiting' = Waiting /\ Unvisited' = Unvisited
      /\ \A q : H(q)' = H(q)
      /\ InArrays' /\ pc = "idle" /\ Ranges' /\ Named' /\ Injective'
  BY <1>1, <1>2, RetryPlace
<1>4. InArrays /\ TypeOK /\ RowsInv /\ BatchTypeOK
  BY <1>1, RetryFacts
<1>5. batch \in Seq(Keys) /\ served \in [DOMAIN batch -> 0 .. Len(rows)] /\ num_chunks \in Nat \ {0}
  BY <1>4, BatchTypes
<1> HIDE DEF r
<1>6. ServeEffect(r) /\ (PathsInv => IInv')
  BY <1>1, <1>2, <1>3, <1>4, <1>5, ServeFacts DEF PathsInv
<1>7. Served' = Served \cup {r}
  BY <1>2, <1>3, <1>5, <1>6 DEF Served, ServeEffect
<1>8. BatchTypeOK'
  BY <1>1, <1>2, <1>3, <1>4, <1>6 DEF BatchTypeOK, ServeEffect, InArrays
<1>9. RowsInv' /\ Control'
  BY <1>1, <1>2, <1>6 DEF ServeEffect, Control
<1>10. Parts'
  <2>1. Partition(Served, Waiting, Unvisited, ToRetry, dropped)
    BY <1>4 DEF AInv, Parts
  <2>2. Partition(Served, Waiting, Unvisited, ToRetry, dropped)'
    <3>1. /\ (Served \cup {r}) \cup (ToRetry \ {r}) = Served \cup ToRetry
          /\ (Served \cup {r}) \cap (ToRetry \ {r}) = {}
      BY <1>3, <2>1 DEF Partition
    <3>2. /\ (Served \cup {r}) \cap Waiting = {} /\ (Served \cup {r}) \cap Unvisited = {}
          /\ (Served \cup {r}) \cap dropped = {} /\ (ToRetry \ {r}) \cap dropped = {}
          /\ Waiting \cap (ToRetry \ {r}) = {} /\ Unvisited \cap (ToRetry \ {r}) = {}
      BY <1>3, <2>1 DEF Partition
    <3>3. (Served \cup {r}) \cup Waiting \cup Unvisited \cup (ToRetry \ {r}) \cup dropped
             = DOMAIN batch
      BY <2>1, <3>1 DEF Partition
    <3>4. batch' = batch /\ dropped' = dropped
      BY <1>2
    <3> QED
      BY <1>3, <1>7, <2>1, <3>1, <3>2, <3>3, <3>4 DEF Partition
  <2> QED
    BY <1>1, <1>2, <2>2 DEF Parts
<1>11. ASSUME PathsInv PROVE OnPaths'
  <2>1. \A i \in RetryAt : emplace_collisions[i] \in DOMAIN batch
    BY <1>4 DEF AInv, Named
  <2>2. \A q \in DOMAIN batch : H(q) \in Nat
    BY <1>5, HashType
  <2>3. /\ \A i \in 0 .. num_chunks - 1 : IsFull(chunks[i]) => chunks'[i] = chunks[i]
        /\ num_chunks' = num_chunks
    BY <1>6 DEF ServeEffect
  <2>4. \A i \in RetryAt : Scanned(chunks, num_chunks, H(emplace_collisions[i]),
                                   emplace_positions[i], 0)
    BY <1>11 DEF PathsInv, OnPaths
  <2>5. \A i \in RetryAt : Scanned(chunks', num_chunks, H(emplace_collisions[i]),
                                   emplace_positions[i], 0)
    BY <1>5, <2>1, <2>2, <2>3, <2>4, ScannedKept
  <2>6. \A i \in RetryAt' : Scanned(chunks', num_chunks', H(emplace_collisions[i])',
                                    emplace_positions'[i], 0)
    BY <1>2, <1>3, <2>3, <2>5 DEF H
  <2> QED
    BY <1>1, <1>2, <2>6 DEF OnPaths
<1>12. ServedRight'
  <2>1. \A q \in Served : served[q] \in DOMAIN rows /\ HashOf[rows[served[q]]] = H(q) /\ q \in DOMAIN batch
    BY DEF AInv, ServedRight, Served
  <2> QED
    BY <1>3, <1>6, <1>7, <2>1 DEF ServedRight, ServeEffect
<1> QED
  BY <1>3, <1>6, <1>8, <1>9, <1>10, <1>11, <1>12 DEF BKept, AInv, PathsInv

(* The one row the code forgets stays counted among the dropped. *)
LEMMA RetryDropKept ==
    ASSUME AInv, RetryDrop
    PROVE  BKept
<1> DEFINE r == emplace_collisions[retry_idx]
<1>1. /\ phase = "retry" /\ retry_idx <= retry_count /\ retry_idx' = retry_idx + 1
      /\ dropped' = dropped \cup {r}
  BY DEF RetryDrop
<1>2. /\ UNCHANGED vars
      /\ UNCHANGED <<batch, phase, resume, idx, cur_count, emplace_hash_vals,
                     emplace_positions, emplace_collisions, batch_collisions, batch_round,
                     retry_count, served>>
  BY DEF RetryDrop, arrays
<1>3. UNCHANGED <<num_chunks, chunks, rows, pc>>
  BY <1>2 DEF vars, tableVars, rehashVars, emplaceVars
<1>4. /\ r \in DOMAIN batch
      /\ RetryAt' \subseteq RetryAt /\ ToRetry' = ToRetry \ {r} /\ r \in ToRetry
      /\ UnvisitedAt' = UnvisitedAt /\ WaitingAt = {} /\ WaitingAt' = {}
      /\ NumRows' = NumRows /\ retry_idx' \in 1 .. retry_count' + 1
      /\ Waiting' = Waiting /\ Unvisited' = Unvisited
      /\ \A q : H(q)' = H(q)
      /\ InArrays' /\ pc = "idle" /\ Ranges' /\ Named' /\ Injective'
  BY <1>1, <1>2, RetryPlace
<1>5. InArrays /\ TypeOK /\ RowsInv /\ BatchTypeOK
  BY <1>1, RetryFacts
<1>6. TypeOK' /\ RowsInv' /\ (IInv => IInv')
  BY <1>2, <1>5, SameVars
<1> HIDE DEF r
<1>7. BatchTypeOK'
  BY <1>1, <1>2, <1>3, <1>4, <1>5, <1>6 DEF BatchTypeOK
<1>8. Control'
  BY <1>1, <1>2, <1>3, <1>4 DEF Control
<1>9. Parts'
  <2>1. Partition(Served, Waiting, Unvisited, ToRetry, dropped)
    BY <1>5 DEF AInv, Parts
  <2>2. Served' = Served
    BY <1>2 DEF Served
  <2>3. Partition(Served, Waiting, Unvisited, ToRetry, dropped)'
    <3>1. /\ (dropped \cup {r}) \cup (ToRetry \ {r}) = dropped \cup ToRetry
          /\ (ToRetry \ {r}) \cap (dropped \cup {r}) = {}
      BY <1>4, <2>1 DEF Partition
    <3>2. /\ Served \cap (dropped \cup {r}) = {} /\ Served \cap (ToRetry \ {r}) = {}
          /\ Waiting \cap (ToRetry \ {r}) = {} /\ Waiting \cap (dropped \cup {r}) = {}
          /\ Unvisited \cap (ToRetry \ {r}) = {} /\ Unvisited \cap (dropped \cup {r}) = {}
      BY <1>4, <2>1 DEF Partition
    <3>3. Served \cup Waiting \cup Unvisited \cup (ToRetry \ {r}) \cup (dropped \cup {r})
             = DOMAIN batch
      BY <2>1, <3>1 DEF Partition
    <3>4. batch' = batch
      BY <1>2
    <3> QED
      BY <1>1, <1>4, <2>1, <2>2, <3>1, <3>2, <3>3, <3>4 DEF Partition
  <2> QED
    BY <1>1, <1>2, <2>3 DEF Parts
<1>10. ASSUME PathsInv PROVE OnPaths'
  <2>1. \A i \in RetryAt : Scanned(chunks, num_chunks, H(emplace_collisions[i]),
                                   emplace_positions[i], 0)
    BY <1>10 DEF PathsInv, OnPaths
  <2>2. \A i \in RetryAt' : Scanned(chunks', num_chunks', H(emplace_collisions[i])',
                                    emplace_positions'[i], 0)
    BY <1>2, <1>3, <1>4, <2>1 DEF H
  <2> QED
    BY <1>1, <1>2, <2>2 DEF OnPaths
<1>11. ServedRight'
  BY <1>2, <1>3 DEF AInv, ServedRight, Served, H
<1> QED
  BY <1>4, <1>6, <1>7, <1>8, <1>9, <1>10, <1>11 DEF BKept, AInv, PathsInv

-----------------------------------------------------------------------------
(* The call and the return. *)

LEMMA CallKept ==
    ASSUME BatchTypeOK, RowsInv, Control, Ranges, NEW B \in Seq(Keys), EmplaceBatch(B)
    PROVE  BKept
<1>1. /\ phase = "none" /\ pc = "idle" /\ batch' = B /\ dropped' = {}
      /\ served' = [i \in DOMAIN B |-> 0] /\ UNCHANGED vars
      /\ UNCHANGED <<resume, idx, cur_count, batch_collisions, batch_round,
                     retry_idx, retry_count>>
  BY DEF EmplaceBatch, retryVars
<1>2. UNCHANGED <<num_chunks, chunks, rows, row, after, pc>>
  BY <1>1 DEF vars, tableVars, rehashVars, emplaceVars
<1>3. /\ B \in Seq(Keys) /\ Len(B) \in Nat /\ DOMAIN B = 1 .. Len(B) /\ NumRows' = Len(B)
  BY <1>1 DEF NumRows
<1>4. /\ idx = 1 /\ cur_count = 0 /\ batch_collisions = 0 /\ batch_round = 1
  BY <1>1 DEF Ranges
<1>5. /\ TypeOK /\ TypeOK' /\ RowsInv' /\ (IInv => IInv')
      /\ resume \in {"first", "collide"} /\ retry_count \in Nat
      /\ retry_idx \in 1 .. retry_count + 1 /\ Len(rows) \in Nat /\ num_chunks \in Nat \ {0}
  BY <1>1, BatchTypes, SameVars DEF BatchTypeOK
<1>6. \A q \in DOMAIN B : H(q)' = HashOf[B[q]] /\ HashOf[B[q]] \in Nat
  BY <1>1, <1>3 DEF H
<1>7. \/ phase' = "direct"
      \/ /\ phase' = "first"
         /\ emplace_hash_vals' = [i \in DOMAIN B |-> HashOf[B[i]]]
         /\ emplace_positions' = [i \in DOMAIN B |-> ChunkPos(num_chunks, HashOf[B[i]])]
         /\ emplace_collisions' = [i \in DOMAIN B |-> 0]
  BY DEF EmplaceBatch
<1>8. Served' = {} /\ served' \in [DOMAIN B -> 0 .. Len(rows)]
  BY <1>1, <1>5 DEF Served
<1>9. /\ WaitingAt' = {} /\ RetryAt' = {} /\ Waiting' = {} /\ ToRetry' = {}
  BY <1>1, <1>4, <1>7 DEF WaitingAt, RetryAt, Waiting, ToRetry
<1>10. ASSUME phase' = "first"
       PROVE  /\ UnvisitedAt' = DOMAIN B /\ Unvisited' = DOMAIN B
              /\ \A i : RowOf(i)' = i
              /\ LastAt' = Len(B) /\ InArrays'
  BY <1>1, <1>3, <1>4, <1>10
     DEF UnvisitedAt, PassEnd, Unvisited, InFirstPass, RowOf, LastAt, InArrays
<1>11. BatchTypeOK'
  <2>1. /\ idx' \in 1 .. NumRows' + 1 /\ cur_count' \in 0 .. NumRows'
        /\ batch_collisions' \in 0 .. NumRows' /\ batch_round' \in Nat \ {0}
    BY <1>1, <1>3, <1>4
  <2>2. ASSUME phase' = "first"
        PROVE  /\ DOMAIN emplace_hash_vals' = DOMAIN B
               /\ emplace_positions' \in [DOMAIN B -> 0 .. num_chunks - 1]
               /\ emplace_collisions' \in [DOMAIN B -> 0 .. NumRows']
    <3>1. \A i \in DOMAIN B : ChunkPos(num_chunks, HashOf[B[i]]) \in 0 .. num_chunks - 1
      BY <1>5, <1>6, ModRange DEF ChunkPos
    <3> QED
      BY <1>3, <1>7, <2>2, <3>1
  <2> QED
    BY <1>1, <1>2, <1>3, <1>5, <1>7, <1>8, <2>1, <2>2 DEF BatchTypeOK
<1>12. Control'
  BY <1>1, <1>2, <1>7 DEF Control
<1>13. Ranges'
  BY <1>1, <1>3, <1>4, <1>7, <1>10 DEF Ranges
<1>14. Named'
  <2>1. CASE phase' = "direct"
    BY <2>1 DEF Named, InArrays
  <2>2. CASE phase' = "first"
    <3>1. emplace_hash_vals' \in [DOMAIN batch' -> Nat]
      BY <1>1, <1>6, <1>7, <2>2
    <3>2. \A i \in UnvisitedAt' :
             RowOf(i)' \in DOMAIN batch' /\ emplace_hash_vals'[i] = H(RowOf(i))'
      BY <1>1, <1>7, <1>10, <2>2 DEF H
    <3> QED
      BY <1>9, <3>1, <3>2 DEF Named
  <2> QED
    BY <1>7, <2>1, <2>2
<1>15. Injective'
  <2>1. CASE phase' = "direct"
    BY <2>1 DEF Injective, InArrays
  <2>2. CASE phase' = "first"
    BY <1>9, <1>10, <2>2 DEF Injective
  <2> QED
    BY <1>7, <2>1, <2>2
<1>16. Parts'
  <2>1. CASE phase' = "direct"
    BY <1>1, <1>4, <1>8, <2>1 DEF Parts, InArrays
  <2>2. CASE phase' = "first"
    BY <1>1, <1>8, <1>9, <1>10, <2>2 DEF Parts, Partition
  <2> QED
    BY <1>7, <2>1, <2>2
<1>17. OnPaths'
  <2>1. CASE phase' = "direct"
    BY <1>9, <2>1 DEF OnPaths
  <2>2. CASE phase' = "first"
    <3>1. \A i \in DOMAIN B : Scanned(chunks, num_chunks, HashOf[B[i]],
                                      ChunkPos(num_chunks, HashOf[B[i]]), 0)
      BY <1>5, <1>6, ScannedHome
    <3>2. \A i \in UnvisitedAt' : Scanned(chunks', num_chunks', H(RowOf(i))',
                                          emplace_positions'[i], batch_round' - 1)
      BY <1>1, <1>2, <1>4, <1>7, <1>10, <2>2, <3>1 DEF H
    <3> QED
      BY <1>9, <3>2 DEF OnPaths
  <2> QED
    BY <1>7, <2>1, <2>2
<1>18. ServedRight'
  BY <1>8 DEF ServedRight
<1> QED
  BY <1>5, <1>11, <1>12, <1>13, <1>14, <1>15, <1>16, <1>17, <1>18 DEF BKept, AInv, PathsInv

(* A call returns when every row is served or dropped. *)
LEMMA ReturnKept ==
    ASSUME AInv, Return, pc = "idle",
           Served \cup dropped = DOMAIN batch, Served \cap dropped = {}
    PROVE  BKept
<1>1. /\ phase' = "none" /\ resume' = "first" /\ idx' = 1 /\ cur_count' = 0
      /\ batch_collisions' = 0 /\ batch_round' = 1 /\ retry_idx' = 1 /\ retry_count' = 0
      /\ UNCHANGED vars /\ UNCHANGED <<batch, served, dropped>>
  BY DEF Return
<1>2. UNCHANGED <<num_chunks, chunks, rows, pc>>
  BY <1>1 DEF vars, tableVars, rehashVars, emplaceVars
<1>3. TypeOK' /\ RowsInv' /\ (IInv => IInv')
  BY <1>1, SameVars DEF AInv, BatchTypeOK
<1>4. NumRows' = NumRows /\ NumRows \in Nat /\ Served' = Served /\ batch \in Seq(Keys)
  BY <1>1, BatchTypes DEF AInv, NumRows, Served
<1>5. BatchTypeOK'
  BY <1>1, <1>2, <1>3, <1>4 DEF AInv, BatchTypeOK
<1>6. Control' /\ Ranges' /\ Named' /\ Injective'
  BY <1>1, <1>2 DEF Control, Ranges, Named, Injective, InArrays
<1>7. Parts'
  BY <1>1, <1>4 DEF Parts, InArrays
<1>8. OnPaths'
  BY <1>1 DEF OnPaths, RetryAt
<1>9. ServedRight'
  BY <1>1, <1>2, <1>4 DEF AInv, ServedRight, H
<1> QED
  BY <1>3, <1>5, <1>6, <1>7, <1>8, <1>9 DEF BKept, AInv, PathsInv

LEMMA BatchReturnKept ==
    ASSUME AInv, BatchReturn
    PROVE  BKept
<1>1. InPass /\ idx > PassEnd /\ batch_collisions = 0 /\ Return
  BY DEF BatchReturn
<1>2. phase \in {"first", "collide"} /\ pc = "idle" /\ InArrays
  BY <1>1 DEF InPass, InArrays
<1>3. idx \in Nat /\ LastAt \in 0 .. NumRows /\ NumRows \in Nat
  BY BatchTypes DEF AInv
<1>4. PassEnd = LastAt
  BY <1>2 DEF PassEnd, LastAt, InFirstPass
<1>5. UnvisitedAt = {} /\ WaitingAt = {} /\ RetryAt = {}
  BY <1>1, <1>2, <1>3, <1>4 DEF UnvisitedAt, WaitingAt, RetryAt
<1>6. Unvisited = {} /\ Waiting = {} /\ ToRetry = {}
  BY <1>5 DEF Unvisited, Waiting, ToRetry
<1>7. Served \cup dropped = DOMAIN batch /\ Served \cap dropped = {}
  BY <1>2, <1>6 DEF AInv, Parts, Partition
<1> QED
  BY <1>1, <1>2, <1>7, ReturnKept

LEMMA DirectReturnKept ==
    ASSUME AInv, DirectReturn
    PROVE  BKept
<1>1. phase = "direct" /\ pc = "idle" /\ idx > NumRows /\ Return
  BY DEF DirectReturn
<1>2. idx \in 1 .. NumRows + 1 /\ NumRows \in Nat /\ DOMAIN batch = 1 .. NumRows
  BY BatchTypes DEF AInv, BatchTypeOK
<1>3. Served = 1 .. idx - 1 /\ dropped = {}
  BY <1>1 DEF AInv, Parts
<1>4. Served \cup dropped = DOMAIN batch /\ Served \cap dropped = {}
  BY <1>1, <1>2, <1>3
<1> QED
  BY <1>1, <1>4, ReturnKept

-----------------------------------------------------------------------------
(* The fallback, row by row. *)

LEMMA DirectCallKept ==
    ASSUME AInv, DirectCall
    PROVE  BKept
<1>1. phase = "direct" /\ pc = "idle" /\ idx <= NumRows /\ Emplace(batch[idx]) /\ UNCHANGED batchVars
  BY DEF DirectCall
<1>2. idx \in DOMAIN batch /\ batch \in Seq(Keys)
  BY <1>1, BatchTypes DEF AInv
<1>3. batch[idx] \in Keys
  BY <1>2
<1>4. TypeOK' /\ RowsInv' /\ (IInv => IInv')
  BY <1>1, <1>3, NextType, NextRowsInv, NextIInv DEF AInv, BatchTypeOK, Next
<1>5. /\ rows' = rows /\ row' = batch[idx]
      /\ UNCHANGED <<batch, phase, resume, idx, cur_count,
               emplace_hash_vals, emplace_positions, emplace_collisions, batch_collisions,
               batch_round, retry_idx, retry_count, served, dropped>>
  BY <1>1 DEF Emplace, batchVars, arrays, retryVars
<1>6. BatchTypeOK' /\ Ranges' /\ Named' /\ Injective' /\ Parts' /\ ServedRight'
  BY <1>1, <1>4, <1>5, SameBatch
<1>7. pc' = "rehash" => after' = "locate"
  BY <1>1 DEF Emplace, StartExpand
<1>8. Control'
  BY <1>1, <1>5, <1>7 DEF Control, NumRows
<1>9. OnPaths'
  BY <1>1, <1>5 DEF OnPaths, RetryAt
<1> QED
  BY <1>4, <1>6, <1>8, <1>9 DEF BKept, AInv, PathsInv

(* What a step of emplace leaves its caller to know. *)
LEMMA StepFacts ==
    ASSUME TypeOK, RowsInv, Step
    PROVE  /\ pc # "idle" /\ row' = row
           /\ pc' = "rehash" => pc = "rehash" /\ after' = after
           /\ ~(pc = "probe" /\ pc' = "idle") => rows' = rows
           /\ pc = "probe" /\ pc' = "idle" =>
                /\ result'.value \in DOMAIN rows' /\ rows'[result'.value] = row
                /\ result'.value \in 1 .. Len(rows') /\ Len(rows) <= Len(rows')
                /\ \A i \in DOMAIN rows : i \in DOMAIN rows' /\ rows'[i] = rows[i]
<1>1. /\ rows \in Seq(Keys) /\ row \in Keys /\ Len(rows) \in Nat /\ DOMAIN rows = 1 .. Len(rows)
      /\ HashOf[row] \in Nat
  BY DEF TypeOK
<1>2. CASE ExpandStep /\ UNCHANGED emplaceVars
  <2>1. pc = "rehash" /\ row' = row /\ rows' = rows
    BY <1>2 DEF ExpandStep, RehashPlace, RehashCollide, RehashRound, RehashDone, emplaceVars
  <2>2. after # "rehash"
    BY DEF TypeOK
  <2>3. pc' = "rehash" => after' = after
    BY <1>2, <2>1, <2>2 DEF ExpandStep, RehashPlace, RehashCollide, RehashRound, RehashDone
  <2> QED
    BY <2>1, <2>3
<1>3. CASE Locate
  BY <1>3 DEF Locate
<1>4. CASE ProbeNext
  BY <1>4 DEF ProbeNext, NextUnless
<1>5. CASE ProbeFound
  <2>1. PICK s \in KeyMatches(chunks[pos], row) :
            result' = [value |-> chunks[pos][s].value, is_new |-> FALSE]
    BY <1>5 DEF ProbeFound, FoundIn, IsLowest
  <2> DEFINE v == chunks[pos][s].value
  <2>2. pc = "probe" /\ pc' = "idle" /\ row' = row /\ rows' = rows
    BY <1>5 DEF ProbeFound, FoundIn
  <2>3. s \in HashMatches(chunks[pos], HashOf[row]) /\ rows[v] = row
    BY DEF KeyMatches
  <2>4. pos \in 0 .. num_chunks - 1
    BY <2>2 DEF TypeOK
  <2>5. v \in DOMAIN rows
    BY <1>1, <2>3, <2>4, HitRight DEF RowsInv
  <2>6. result'.value = v
    BY <2>1
  <2> HIDE DEF v
  <2> QED
    BY <1>1, <2>2, <2>3, <2>5, <2>6
<1>6. CASE ProbeInsert
  <2>1. /\ pc = "probe" /\ pc' = "idle" /\ row' = row /\ rows' = Append(rows, row)
        /\ result' = [value |-> Len(rows) + 1, is_new |-> TRUE]
    BY <1>6 DEF ProbeInsert, InsertUnless
  <2>2. /\ Len(rows') = Len(rows) + 1 /\ DOMAIN rows' = 1 .. Len(rows) + 1
        /\ rows'[Len(rows) + 1] = row
        /\ \A i \in DOMAIN rows : i \in DOMAIN rows' /\ rows'[i] = rows[i]
    BY <1>1, <2>1
  <2>3. result'.value = Len(rows) + 1
    BY <2>1
  <2> QED
    BY <1>1, <2>1, <2>2, <2>3
<1> QED
  BY <1>2, <1>3, <1>4, <1>5, <1>6 DEF Step, EmplaceStep

LEMMA DirectStepKept ==
    ASSUME AInv, DirectStep
    PROVE  BKept
<1>1. /\ phase = "direct" /\ Step
      /\ UNCHANGED <<batch, phase, resume, cur_count, emplace_hash_vals, emplace_positions,
                     emplace_collisions, batch_collisions, batch_round, retry_idx,
                     retry_count, dropped>>
  BY DEF DirectStep, arrays, retryVars
<1>2. /\ TypeOK /\ RowsInv /\ BatchTypeOK
      /\ TypeOK' /\ RowsInv' /\ (IInv => IInv')
  BY <1>1, NextType, NextRowsInv, NextIInv DEF AInv, BatchTypeOK, Next
<1>3. /\ pc # "idle" /\ row' = row /\ (pc' = "rehash" => pc = "rehash" /\ after' = after)
  BY <1>1, <1>2, StepFacts
<1>4. /\ idx <= NumRows /\ row = batch[idx] /\ (pc = "rehash" => after = "locate")
  BY <1>1, <1>3 DEF AInv, Control
<1>5. OnPaths'
  BY <1>1 DEF OnPaths, RetryAt
<1>6. CASE ~(pc = "probe" /\ pc' = "idle")
  <2>1. rows' = rows /\ idx' = idx /\ served' = served
    BY <1>1, <1>2, <1>6, StepFacts DEF DirectStep
  <2>2. BatchTypeOK' /\ Ranges' /\ Named' /\ Injective' /\ Parts' /\ ServedRight'
    BY <1>1, <1>2, <2>1, SameBatch
  <2>3. Control'
    BY <1>1, <1>3, <1>4, <2>1 DEF Control, NumRows
  <2> QED
    BY <1>2, <1>5, <2>2, <2>3 DEF BKept, AInv, PathsInv
<1>7. CASE pc = "probe" /\ pc' = "idle"
  <2> DEFINE v == result'.value
  <2>1. /\ v \in DOMAIN rows' /\ rows'[v] = row /\ v \in 1 .. Len(rows')
        /\ Len(rows) <= Len(rows')
        /\ \A i \in DOMAIN rows : i \in DOMAIN rows' /\ rows'[i] = rows[i]
    BY <1>1, <1>2, <1>7, StepFacts
  <2>2. served' = [served EXCEPT ![idx] = v] /\ idx' = idx + 1
    BY <1>7 DEF DirectStep
  <2> HIDE DEF v
  <2>3. /\ idx \in Nat \ {0} /\ NumRows \in Nat /\ DOMAIN batch = 1 .. NumRows
        /\ NumRows' = NumRows /\ idx \in DOMAIN batch /\ Len(rows) \in Nat /\ Len(rows') \in Nat
        /\ served \in [DOMAIN batch -> 0 .. Len(rows)]
    <3>1. /\ idx \in Nat \ {0} /\ NumRows \in Nat /\ DOMAIN batch = 1 .. NumRows
          /\ Len(rows) \in Nat /\ served \in [DOMAIN batch -> 0 .. Len(rows)]
      BY <1>2, BatchTypes
    <3>2. NumRows' = NumRows /\ Len(rows') \in Nat
      BY <1>1, <1>2 DEF NumRows, TypeOK
    <3> QED
      BY <1>4, <3>1, <3>2
  <2>4. /\ served' \in [DOMAIN batch -> 0 .. Len(rows')] /\ served'[idx] = v /\ v # 0
        /\ \A q \in DOMAIN batch \ {idx} : served'[q] = served[q]
    BY <2>1, <2>2, <2>3
  <2>5. Served' = Served \cup {idx} /\ Served = 1 .. idx - 1 /\ dropped = {}
    <3>1. Served = 1 .. idx - 1 /\ dropped = {}
      BY <1>1 DEF AInv, Parts
    <3> QED
      BY <1>1, <2>3, <2>4, <3>1 DEF Served
  <2>6. BatchTypeOK'
    <3>1. idx' \in 1 .. NumRows' + 1
      BY <1>4, <2>2, <2>3
    <3> QED
      BY <1>1, <1>2, <2>3, <2>4, <3>1 DEF BatchTypeOK
  <2>7. Control' /\ Ranges' /\ Named' /\ Injective'
    BY <1>1, <1>7 DEF AInv, Control, Ranges, Named, Injective, InArrays
  <2>8. Parts'
    <3>1. Served' = 1 .. idx' - 1
      BY <2>2, <2>3, <2>5
    <3> QED
      BY <1>1, <2>5, <3>1 DEF Parts, InArrays
  <2>9. ServedRight'
    <3>1. \A q \in Served : served[q] \in DOMAIN rows /\ HashOf[rows[served[q]]] = H(q) /\ q \in DOMAIN batch
      BY DEF AInv, ServedRight, Served
    <3>2. \A q : H(q)' = H(q)
      BY <1>1 DEF H
    <3>3. idx \notin Served
      BY <2>3, <2>5
    <3>4. HashOf[rows'[served'[idx]]] = H(idx) /\ served'[idx] \in DOMAIN rows'
      BY <1>4, <2>1, <2>4 DEF H
    <3>5. \A q \in Served : served'[q] \in DOMAIN rows' /\ HashOf[rows'[served'[q]]] = H(q)
      BY <2>1, <2>4, <3>1, <3>3
    <3> QED
      BY <2>5, <3>2, <3>4, <3>5 DEF ServedRight
  <2> QED
    BY <1>2, <1>5, <2>6, <2>7, <2>8, <2>9 DEF BKept, AInv, PathsInv
<1> QED
  BY <1>6, <1>7

-----------------------------------------------------------------------------
(* The theorems. *)

LEMMA InitBInv == BatchInit => BInv
<1> SUFFICES ASSUME BatchInit PROVE BInv
  OBVIOUS
<1>1. /\ Init /\ batch = <<>> /\ phase = "none" /\ resume = "first" /\ idx = 1 /\ cur_count = 0
      /\ batch_collisions = 0 /\ batch_round = 1 /\ retry_idx = 1 /\ retry_count = 0
      /\ served = <<>> /\ dropped = {}
  BY DEF BatchInit
<1>2. TypeOK /\ IInv /\ pc = "idle"
  BY <1>1, InitType, InitIInv DEF Init
<1>3. batch \in Seq(Keys) /\ NumRows = 0 /\ DOMAIN batch = {} /\ Len(rows) \in Nat
  BY <1>1, <1>2 DEF NumRows, TypeOK
<1>4. Served = {} /\ served \in [DOMAIN batch -> 0 .. Len(rows)]
  BY <1>1, <1>3 DEF Served
<1>5. BatchTypeOK
  BY <1>1, <1>2, <1>3, <1>4 DEF BatchTypeOK
<1>6. Control /\ Ranges /\ Named /\ Injective /\ OnPaths
  BY <1>1, <1>2 DEF Control, Ranges, Named, Injective, InArrays, OnPaths, RetryAt
<1>7. Parts /\ ServedRight
  BY <1>1, <1>3, <1>4 DEF Parts, InArrays, ServedRight
<1>8. RowsInv
  BY <1>2 DEF IInv, RehashRight, RowsInv
<1> QED
  BY <1>2, <1>5, <1>6, <1>7, <1>8 DEF BInv, AInv, PathsInv

(* A step inside a call. *)
LEMMA BatchStepKept ==
    ASSUME AInv, BatchStep
    PROVE  BKept
<1>1. CASE DirectCall
  BY <1>1, DirectCallKept
<1>2. CASE DirectStep
  BY <1>2, DirectStepKept
<1>3. CASE DirectReturn
  BY <1>3, DirectReturnKept
<1>4. CASE PassServe
  BY <1>4, PassServeKept
<1>5. CASE PassCollide
  BY <1>5, PassCollideKept
<1>6. CASE PassExpand
  BY <1>6, PassExpandKept
<1>7. CASE ExpandInBatch
  BY <1>7, ExpandInBatchKept
<1>8. CASE RetryStart
  BY <1>8, RetryStartKept
<1>9. CASE RetryServe
  BY <1>9, RetryServeKept
<1>10. CASE RetryDrop
  BY <1>10, RetryDropKept
<1>11. CASE RetryEnd
  BY <1>11, RetryEndKept
<1>12. CASE NextRound
  BY <1>12, NextRoundKept
<1>13. CASE BatchReturn
  BY <1>13, BatchReturnKept
<1> QED
  BY <1>1, <1>2, <1>3, <1>4, <1>5, <1>6, <1>7, <1>8, <1>9, <1>10, <1>11, <1>12, <1>13
     DEF BatchStep

LEMMA SameAllVars ==
    ASSUME AInv, UNCHANGED allVars
    PROVE  BKept
<1>1. /\ UNCHANGED vars /\ UNCHANGED <<num_chunks, chunks, rows, row, after, pc>>
      /\ UNCHANGED <<batch, phase, resume, idx, cur_count, emplace_hash_vals,
                     emplace_positions, emplace_collisions, batch_collisions, batch_round,
                     retry_idx, retry_count, served, dropped>>
  BY DEF allVars, vars, tableVars, rehashVars, emplaceVars, batchVars, arrays, retryVars
<1>2. TypeOK' /\ RowsInv' /\ (IInv => IInv')
  BY <1>1, SameVars DEF AInv, BatchTypeOK
<1>3. BatchTypeOK' /\ Ranges' /\ Named' /\ Injective' /\ Parts' /\ ServedRight'
  BY <1>1, <1>2, SameBatch
<1>4. Control'
  BY <1>1 DEF AInv, Control, NumRows
<1>5. ASSUME OnPaths PROVE OnPaths'
  <2>1. /\ WaitingAt' = WaitingAt /\ UnvisitedAt' = UnvisitedAt /\ RetryAt' = RetryAt
        /\ \A i : RowOf(i)' = RowOf(i)
        /\ \A q : H(q)' = H(q)
    BY <1>1 DEF WaitingAt, UnvisitedAt, PassEnd, NumRows, RetryAt, RowOf, InFirstPass, H
  <2> QED
    BY <1>1, <1>5, <2>1 DEF OnPaths
<1> QED
  BY <1>2, <1>3, <1>4, <1>5 DEF BKept, AInv, PathsInv

LEMMA NextBInv == BInv /\ [BatchNext]_allVars => BInv'
<1> SUFFICES ASSUME BInv, [BatchNext]_allVars PROVE BInv'
  OBVIOUS
<1>1. ASSUME NEW B \in Batches, EmplaceBatch(B) PROVE BKept
  <2>1. B \in Seq(Keys)
    BY BatchAssumption
  <2> QED
    BY <1>1, <2>1, CallKept DEF BInv, AInv
<1>2. CASE BatchStep
  BY <1>2, BatchStepKept DEF BInv, BKept
<1>3. CASE UNCHANGED allVars
  BY <1>3, SameAllVars DEF BInv, BKept
<1> QED
  BY <1>1, <1>2, <1>3 DEF BatchNext, BInv, BKept

LEMMA BInvCorrect == BatchSpec => []BInv
<1>1. BatchInit => BInv
  BY InitBInv
<1>2. BInv /\ [BatchNext]_allVars => BInv'
  BY NextBInv
<1> QED
  BY <1>1, <1>2, PTL DEF BatchSpec

(***************************************************************************)
(* Every place the passes read lies inside the batch's arrays, and every    *)
(* position in them is a chunk of the table of that moment, also after the  *)
(* table has been doubled between two rows of a pass.                       *)
(***************************************************************************)
THEOREM BatchTypeCorrect == BatchSpec => []BatchTypeOK
<1>1. BInv => BatchTypeOK
  BY DEF BInv, AInv, PathsInv
<1> QED
  BY <1>1, BInvCorrect, PTL

(***************************************************************************)
(* In a batch a row is only given a group of its own hash, whatever the     *)
(* rows before it have done to the table and to the arrays.                 *)
(***************************************************************************)
THEOREM BatchServesOwn == BatchSpec => []ServedOwn
<1>1. BInv => ServedOwn
  BY DEF BInv, AInv, PathsInv, ServedRight, ServedOwn, H
<1> QED
  BY <1>1, BInvCorrect, PTL

(* Every waiting or unvisited row lies on its own path. *)
LEMMA BInvOnPath == BInv => WaitingOnPath
<1> SUFFICES ASSUME BInv, phase \in {"first", "collide"}
             PROVE  /\ \A i \in WaitingAt :
                          LET h == HashOf[batch[emplace_collisions[i]]] IN
                          /\ emplace_positions[i] = Probe(num_chunks, h, batch_round)
                          /\ FullBefore(chunks, num_chunks, h, batch_round)
                    /\ \A i \in UnvisitedAt :
                          /\ emplace_positions[i] = Probe(num_chunks, HashAt(i), batch_round - 1)
                          /\ FullBefore(chunks, num_chunks, HashAt(i), batch_round - 1)
  BY DEF WaitingOnPath
<1>1. \A i \in WaitingAt :
         LET h == HashOf[batch[emplace_collisions[i]]] IN
         /\ emplace_positions[i] = Probe(num_chunks, h, batch_round)
         /\ FullBefore(chunks, num_chunks, h, batch_round)
  BY DEF BInv, AInv, PathsInv, OnPaths, Scanned, OnPath, H
<1>2. ASSUME NEW i \in UnvisitedAt
      PROVE  /\ emplace_positions[i] = Probe(num_chunks, HashAt(i), batch_round - 1)
             /\ FullBefore(chunks, num_chunks, HashAt(i), batch_round - 1)
  <2>1. InArrays
    BY DEF InArrays
  <2>2. emplace_hash_vals[i] = H(RowOf(i))
    BY <2>1 DEF BInv, AInv, PathsInv, Named
  <2>3. HashAt(i) = H(RowOf(i))
    BY <2>2 DEF HashAt, RowOf, InFirstPass, H
  <2>4. Scanned(chunks, num_chunks, H(RowOf(i)), emplace_positions[i], batch_round - 1)
    BY DEF BInv, AInv, PathsInv, OnPaths
  <2> QED
    BY <2>3, <2>4 DEF Scanned, OnPath
<1> QED
  BY <1>1, <1>2

(***************************************************************************)
(* The positions a batch keeps for its waiting and unvisited rows are those *)
(* of their own probe sequences, at the shared collision counter.           *)
(***************************************************************************)
THEOREM BatchOnPath == BatchSpec => []WaitingOnPath
<1> QED
  BY BInvOnPath, BInvCorrect, PTL

(***************************************************************************)
(* A batch leaves the map as the row-by-row path would: every row stored    *)
(* has one slot, and no two rows have one key.                              *)
(***************************************************************************)
THEOREM BatchOneGroup == BatchSpec => []OneGroupPerKey
<1>1. BInv => OneGroupPerKey
  BY IInvOneGroup DEF BInv, AInv, PathsInv, BatchTypeOK
<1> QED
  BY <1>1, BInvCorrect, PTL

(* Every row of the batch is in exactly one place. *)
LEMMA BInvAccounted == BInv => RowsAccounted
<1> SUFFICES ASSUME BInv PROVE RowsAccounted
  OBVIOUS
<1>1. phase = "none" => Served \cup dropped = DOMAIN batch /\ Served \cap dropped = {}
  BY DEF BInv, AInv, PathsInv, Parts
<1>2. ASSUME InArrays
      PROVE  LET parts == <<Served, Waiting, Unvisited, ToRetry, dropped>> IN
             /\ UNION {parts[i] : i \in DOMAIN parts} = DOMAIN batch
             /\ \A i, j \in DOMAIN parts : i # j => parts[i] \cap parts[j] = {}
  <2>1. Partition(Served, Waiting, Unvisited, ToRetry, dropped)
    BY <1>2 DEF BInv, AInv, PathsInv, Parts
  <2> DEFINE parts == <<Served, Waiting, Unvisited, ToRetry, dropped>>
  <2>2. DOMAIN parts = {1, 2, 3, 4, 5}
    OBVIOUS
  <2>3. /\ parts[1] = Served /\ parts[2] = Waiting /\ parts[3] = Unvisited
        /\ parts[4] = ToRetry /\ parts[5] = dropped
    OBVIOUS
  <2> HIDE DEF parts
  <2>4. UNION {parts[i] : i \in DOMAIN parts}
           = Served \cup Waiting \cup Unvisited \cup ToRetry \cup dropped
    BY <2>2, <2>3
  <2>5. \A i, j \in {1, 2, 3, 4, 5} : i # j => parts[i] \cap parts[j] = {}
    BY <2>1, <2>3 DEF Partition
  <2>6. UNION {parts[i] : i \in DOMAIN parts} = DOMAIN batch
    BY <2>1, <2>4 DEF Partition
  <2> QED
    BY <2>2, <2>5, <2>6 DEF parts
<1>3. ASSUME InArrays
      PROVE  /\ Cardinality(Waiting) = batch_collisions
             /\ Cardinality(Unvisited) = Cardinality(UnvisitedAt)
  <2>1. /\ NumRows \in Nat /\ DOMAIN batch = 1 .. NumRows /\ batch_collisions \in 0 .. NumRows
        /\ idx \in Nat \ {0} /\ LastAt \in 0 .. NumRows
    BY BatchTypes DEF BInv, AInv, PathsInv
  <2>2. /\ \A i, j \in WaitingAt : emplace_collisions[i] = emplace_collisions[j] => i = j
        /\ \A i, j \in UnvisitedAt : RowOf(i) = RowOf(j) => i = j
    BY <1>3 DEF BInv, AInv, PathsInv, Injective
  <2>3. WaitingAt \subseteq 1 .. NumRows /\ Cardinality(WaitingAt) = batch_collisions
    BY <2>1, FS_Interval DEF WaitingAt
  <2>4. UnvisitedAt \subseteq 1 .. NumRows
    <3>1. UnvisitedAt \subseteq idx .. LastAt
      <4>1. CASE phase \in {"first", "collide"}
        BY <2>1, <4>1 DEF UnvisitedAt, PassEnd, LastAt, InFirstPass
      <4>2. CASE phase \in {"expand", "retry"}
        BY <2>1, <4>2 DEF UnvisitedAt, LastAt, InFirstPass
      <4> QED
        BY <1>3, <4>1, <4>2 DEF InArrays
    <3> QED
      BY <2>1, <3>1
  <2>5. Cardinality(Waiting) = Cardinality(WaitingAt)
    <3> DEFINE W == WaitingAt
               T == Waiting
               n == NumRows
    <3>1. n \in Nat /\ W \in SUBSET (1 .. n)
      BY <2>1, <2>3
    <3>2. \A i, j \in W : emplace_collisions[i] = emplace_collisions[j] => i = j
      BY <2>2
    <3>3. T = {emplace_collisions[i] : i \in W}
      BY DEF Waiting
    <3> HIDE DEF W, T, n
    <3>4. Cardinality(T) = Cardinality(W)
      BY <3>1, <3>2, <3>3, NamedOnce
    <3> QED
      BY <3>4 DEF W, T
  <2>6. Cardinality(Unvisited) = Cardinality(UnvisitedAt)
    <3>1. CASE InFirstPass
      BY <3>1 DEF Unvisited
    <3>2. CASE ~InFirstPass
      <4>1. \A i, j \in UnvisitedAt : emplace_collisions[i] = emplace_collisions[j] => i = j
        BY <2>2, <3>2 DEF RowOf
      <4>2. Unvisited = {emplace_collisions[i] : i \in UnvisitedAt}
        BY <3>2 DEF Unvisited
      <4> DEFINE U == UnvisitedAt
                 T == Unvisited
                 n == NumRows
      <4>3. n \in Nat /\ U \in SUBSET (1 .. n)
        BY <2>1, <2>4
      <4>4. \A i, j \in U : emplace_collisions[i] = emplace_collisions[j] => i = j
        BY <4>1
      <4>5. T = {emplace_collisions[i] : i \in U}
        BY <4>2
      <4> HIDE DEF U, T, n
      <4>6. Cardinality(T) = Cardinality(U)
        BY <4>3, <4>4, <4>5, NamedOnce
      <4> QED
        BY <4>6 DEF U, T
    <3> QED
      BY <3>1, <3>2
  <2> QED
    BY <2>3, <2>5, <2>6
<1> QED
  BY <1>1, <1>2, <1>3 DEF RowsAccounted, InArrays

(***************************************************************************)
(* Between the passes no row is lost or counted twice; when the call        *)
(* returns, each one has been served or is one the retry has dropped.       *)
(***************************************************************************)
THEOREM BatchRowsAccounted == BatchSpec => []RowsAccounted
<1> QED
  BY BInvAccounted, BInvCorrect, PTL

(* All of it follows from the invariant, for any specification it holds of. *)
LEMMA BInvPromises ==
    BInv => BatchTypeOK /\ RowsAccounted /\ ServedOwn /\ WaitingOnPath /\ OneGroupPerKey
<1>1. BInv => BatchTypeOK
  BY DEF BInv, AInv, PathsInv
<1>2. BInv => ServedOwn
  BY DEF BInv, AInv, PathsInv, ServedRight, ServedOwn, H
<1>3. BInv => OneGroupPerKey
  BY IInvOneGroup DEF BInv, AInv, PathsInv, BatchTypeOK
<1> QED
  BY <1>1, <1>2, <1>3, BInvOnPath, BInvAccounted

-----------------------------------------------------------------------------
(* A step of the batch insertion, as its callbacks see it. *)

(* Row r is given a group: one there was, or a new one of its own. *)
GroupGiven(r) ==
    /\ served[r] = 0 /\ served'[r] # 0
    /\ \A q \in DOMAIN batch \ {r} : served'[q] = served[q]
    /\ rows' = rows \/ (rows' = Append(rows, batch[r]) /\ served'[r] = Len(rows) + 1)

NoGroupGiven == served' = served /\ rows' = rows

LEMMA TryGives ==
    ASSUME TypeOK, RowsInv, pc = "idle",
           UNCHANGED <<rehashVars, pc, row, pos, collision_batch, result>>,
           batch \in Seq(Keys), NEW r \in DOMAIN batch,
           served \in [DOMAIN batch -> 0 .. Len(rows)], r \notin Served,
           NEW p \in 0 .. num_chunks - 1,
           TryEmplaceAtPos(H(r), p, r)
    PROVE  GroupGiven(r)
<1>1. ServeEffect(r)
  BY ServeFacts
<1>2. rows' = rows \/ (rows' = Append(rows, batch[r]) /\ served'[r] = Len(rows) + 1)
  BY DEF TryEmplaceAtPos
<1>3. served[r] = 0
  BY DEF Served
<1> QED
  BY <1>1, <1>2, <1>3 DEF ServeEffect, GroupGiven

LEMMA PassGives ==
    ASSUME AInv, PassServe
    PROVE  \E r \in DOMAIN batch : GroupGiven(r)
<1> DEFINE r == RowOf(idx)
<1>1. InPass /\ idx <= PassEnd /\ BatchTypeOK /\ RowsInv /\ TypeOK
  BY DEF PassServe, AInv, BatchTypeOK
<1>2. UNCHANGED <<rehashVars, pc, row, pos, collision_batch, result>>
  BY DEF PassServe
<1>3. InArrays /\ pc = "idle"
  BY <1>1 DEF InPass, InArrays
<1>4. /\ r \in DOMAIN batch /\ idx \in UnvisitedAt
      /\ emplace_positions[idx] \in 0 .. num_chunks - 1
      /\ TryEmplaceAtPos(H(r), emplace_positions[idx], r)
  BY <1>1, PassFacts DEF PassServe
<1>5. r \notin Served
  BY <1>3, <1>4, RowSets DEF AInv, Parts, Partition
<1>6. batch \in Seq(Keys) /\ served \in [DOMAIN batch -> 0 .. Len(rows)]
  BY <1>1, BatchTypes
<1> HIDE DEF r
<1> QED
  BY <1>1, <1>2, <1>3, <1>4, <1>5, <1>6, TryGives

LEMMA RetryGives ==
    ASSUME AInv, RetryServe
    PROVE  \E r \in DOMAIN batch : GroupGiven(r)
<1> DEFINE r == emplace_collisions[retry_idx]
<1>1. /\ phase = "retry" /\ retry_idx <= retry_count /\ retry_idx' = retry_idx + 1
      /\ TryEmplaceAtPos(H(r), emplace_positions[retry_idx], r)
  BY DEF RetryServe, H
<1>2. UNCHANGED <<rehashVars, pc, row, pos, collision_batch, result, batch, phase, resume,
                  idx, cur_count, emplace_hash_vals, emplace_positions, emplace_collisions,
                  batch_collisions, batch_round, retry_count>>
  BY DEF RetryServe, arrays
<1>3. /\ r \in DOMAIN batch /\ emplace_positions[retry_idx] \in 0 .. num_chunks - 1
      /\ r \in ToRetry /\ pc = "idle"
  BY <1>1, <1>2, RetryPlace
<1>4. InArrays /\ TypeOK /\ RowsInv /\ BatchTypeOK
  BY <1>1, RetryFacts
<1>5. batch \in Seq(Keys) /\ served \in [DOMAIN batch -> 0 .. Len(rows)]
  BY <1>4, BatchTypes
<1>6. r \notin Served
  BY <1>3, <1>4 DEF AInv, Parts, Partition
<1> HIDE DEF r
<1> QED
  BY <1>1, <1>2, <1>3, <1>4, <1>5, <1>6, TryGives

(* In the fallback the step that ends a lookup is the one that inserts. *)
LEMMA DirectGives ==
    ASSUME AInv, DirectStep
    PROVE  NoGroupGiven \/ \E r \in DOMAIN batch : GroupGiven(r)
<1>1. /\ phase = "direct" /\ Step /\ TypeOK /\ RowsInv /\ BatchTypeOK
  BY DEF DirectStep, AInv, BatchTypeOK
<1>2. pc # "idle" /\ idx <= NumRows /\ row = batch[idx]
  BY <1>1, StepFacts DEF AInv, Control
<1>3. CASE ~(pc = "probe" /\ pc' = "idle")
  BY <1>1, <1>3, StepFacts DEF DirectStep, NoGroupGiven
<1>4. CASE pc = "probe" /\ pc' = "idle"
  <2> DEFINE v == result'.value
  <2>1. v \in 1 .. Len(rows') /\ served' = [served EXCEPT ![idx] = v]
    BY <1>1, <1>4, StepFacts DEF DirectStep
  <2> HIDE DEF v
  <2>2. /\ idx \in DOMAIN batch /\ served \in [DOMAIN batch -> 0 .. Len(rows)]
        /\ idx \in Nat
    BY <1>1, <1>2, BatchTypes
  <2>3. idx \notin Served
    BY <1>1, <2>2 DEF AInv, Parts
  <2>4. served[idx] = 0 /\ served'[idx] = v /\ v # 0
    BY <2>1, <2>2, <2>3 DEF Served
  <2>5. \A q \in DOMAIN batch \ {idx} : served'[q] = served[q]
    BY <2>1, <2>2
  <2>6. rows' = rows \/ (rows' = Append(rows, row) /\ v = Len(rows) + 1)
    <3>1. pc # "rehash" /\ pc # "locate"
      BY <1>4
    <3>2. ProbeFound \/ ProbeInsert \/ ProbeNext
      BY <1>1, <3>1 DEF Step, EmplaceStep, ExpandStep, RehashPlace, RehashCollide, RehashRound,
         RehashDone, Locate
    <3> QED
      BY <3>2 DEF ProbeFound, FoundIn, ProbeInsert, InsertUnless, ProbeNext, NextUnless, v
  <2> QED
    BY <1>2, <2>2, <2>4, <2>5, <2>6 DEF GroupGiven
<1> QED
  BY <1>3, <1>4

(* A step serves no row, or one that had no group yet. *)
LEMMA StepGives ==
    ASSUME AInv, BatchStep
    PROVE  /\ batch' = batch /\ calls' = calls
           /\ NoGroupGiven \/ \E r \in DOMAIN batch : GroupGiven(r)
<1> USE DEF vars, emplaceVars, batchVars
<1>1. CASE DirectCall
  BY <1>1 DEF DirectCall, Emplace, NoGroupGiven
<1>2. CASE DirectStep
  BY <1>2, DirectGives DEF DirectStep
<1>3. CASE DirectReturn
  BY <1>3 DEF DirectReturn, Return, NoGroupGiven
<1>4. CASE PassServe
  BY <1>4, PassGives DEF PassServe
<1>5. CASE PassCollide
  BY <1>5 DEF PassCollide, NoGroupGiven
<1>6. CASE PassExpand
  BY <1>6 DEF PassExpand, NoGroupGiven
<1>7. CASE ExpandInBatch
  BY <1>7 DEF ExpandInBatch, NoGroupGiven
<1>8. CASE RetryStart
  BY <1>8 DEF RetryStart, NoGroupGiven
<1>9. CASE RetryServe
  BY <1>9, RetryGives DEF RetryServe
<1>10. CASE RetryDrop
  BY <1>10 DEF RetryDrop, NoGroupGiven
<1>11. CASE RetryEnd
  BY <1>11 DEF RetryEnd, NoGroupGiven
<1>12. CASE NextRound
  BY <1>12 DEF NextRound, NoGroupGiven
<1>13. CASE BatchReturn
  BY <1>13 DEF BatchReturn, Return, NoGroupGiven
<1> QED
  BY <1>1, <1>2, <1>3, <1>4, <1>5, <1>6, <1>7, <1>8, <1>9, <1>10, <1>11, <1>12, <1>13
     DEF BatchStep

-----------------------------------------------------------------------------
(* The tables the drivers make have room for their keys. *)

LEMMA QuotientBounds ==
    ASSUME NEW a \in Nat, NEW b \in Nat \ {0}
    PROVE  a \div b \in Nat /\ b * (a \div b) <= a /\ a < b * (a \div b) + b
OBVIOUS

(* The quotient is rounded up to whole chunks. *)
LEMMA ChunksHoldSlots ==
    ASSUME NEW slots \in Nat
    PROVE  ChunksFor(slots) \in Nat /\ slots <= Capacity(ChunksFor(slots))
<1> DEFINE a == slots + SLOTS_PER_CHUNK - 1
           q == a \div SLOTS_PER_CHUNK
<1>1. a \in Nat /\ SLOTS_PER_CHUNK \in Nat \ {0} /\ a = slots + SLOTS_PER_CHUNK - 1
  BY TableAssumption
<1> HIDE DEF a
<1>2. q \in Nat /\ a < SLOTS_PER_CHUNK * q + SLOTS_PER_CHUNK
  BY <1>1, QuotientBounds
<1>3. ChunksFor(slots) = q
  BY DEF ChunksFor, a
<1> HIDE DEF q
<1>4. SLOTS_PER_CHUNK * q = q * SLOTS_PER_CHUNK /\ q * SLOTS_PER_CHUNK \in Nat
  BY <1>1, <1>2
<1> QED
  BY <1>1, <1>2, <1>3, <1>4 DEF Capacity

(* A table with room has room for fewer rows, and so has a larger one. *)
LEMMA FewerRows ==
    ASSUME NEW n \in Nat, NEW d \in Nat, NEW sz \in 0 .. d, ~ShouldExpand(n, d)
    PROVE  ~ShouldExpand(n, sz)
<1>1. /\ LOAD_DEN \in Nat /\ LOAD_NUM \in Nat /\ LOAD_SLACK \in Nat /\ SLOTS_PER_CHUNK \in Nat
  BY LoadAssumption, TableAssumption
<1> DEFINE l == LOAD_DEN * sz
           m == LOAD_DEN * d
           r == LOAD_NUM * Capacity(n)
<1>2. Capacity(n) \in Nat
  BY <1>1 DEF Capacity
<1>3. l <= m /\ l \in Nat /\ m \in Nat
  BY <1>1, Z3
<1>4. r \in Nat
  BY <1>1, <1>2
<1>5. ~(m + LOAD_SLACK >= r)
  BY DEF ShouldExpand
<1> HIDE DEF l, m, r
<1>6. ~(l + LOAD_SLACK >= r)
  BY <1>1, <1>3, <1>4, <1>5
<1> QED
  BY <1>6 DEF ShouldExpand, l, r

LEMMA LargerTable ==
    ASSUME NEW n \in Nat, NEW m \in Nat, n <= m, NEW sz \in Nat, ~ShouldExpand(n, sz)
    PROVE  ~ShouldExpand(m, sz)
<1>1. /\ LOAD_DEN \in Nat /\ LOAD_NUM \in Nat /\ LOAD_SLACK \in Nat /\ SLOTS_PER_CHUNK \in Nat
  BY LoadAssumption, TableAssumption
<1>2. n * SLOTS_PER_CHUNK <= m * SLOTS_PER_CHUNK
      /\ n * SLOTS_PER_CHUNK \in Nat /\ m * SLOTS_PER_CHUNK \in Nat
  BY <1>1, Z3
<1> DEFINE c == n * SLOTS_PER_CHUNK
           e == m * SLOTS_PER_CHUNK
           l == LOAD_DEN * sz + LOAD_SLACK
<1>3. c \in Nat /\ e \in Nat /\ c <= e /\ l \in Nat
  BY <1>1, <1>2
<1>4. ~(l >= LOAD_NUM * c)
  BY DEF ShouldExpand, Capacity
<1> HIDE DEF c, e, l
<1>5. LOAD_NUM * c <= LOAD_NUM * e /\ LOAD_NUM * c \in Nat /\ LOAD_NUM * e \in Nat
  BY <1>1, <1>3, Z3
<1>6. ~(l >= LOAD_NUM * e)
  BY <1>3, <1>4, <1>5
<1> QED
  BY <1>6 DEF ShouldExpand, Capacity, c, e, l

(***************************************************************************)
(* The slots made for d keys, in whole chunks, hold all d below the         *)
(* threshold.  That d - 1 are below it would not do: a row whose key is     *)
(* stored already may still meet a full chunk on its way, and the load is   *)
(* tested there.                                                            *)
(***************************************************************************)
HasRoomFor(d) == ~ShouldExpand(ChunksFor(MinSlots(d)), d)
RoomForKeys == \A d \in Nat : HasRoomFor(d)

(* The drivers make chunks of 8 slots, tables for a load of 0.85.  *)
CodeSizes ==
    /\ SLOTS_PER_CHUNK = 8 /\ FILL_NUM = 17 /\ FILL_DEN = 20
    /\ LOAD_NUM = 9 /\ LOAD_DEN = 10

LEMMA ChunksMade ==
    ASSUME CodeSizes, NEW d \in Nat
    PROVE  LET c == ChunksFor(MinSlots(d)) IN
           /\ c \in Nat \ {0} /\ d * 20 <= 136 * c + 16
           /\ LOAD_DEN * d = 10 * d /\ LOAD_NUM * Capacity(c) = 72 * c
<1> USE DEF CodeSizes
<1> DEFINE q == (d * 20) \div 17
           m == IF q > 8 THEN q ELSE 8
           c == (m + 8 - 1) \div 8
<1>1. q \in Nat /\ d * 20 < 17 * q + 17
  BY QuotientBounds
<1>2. m = MinSlots(d)
  BY DEF MinSlots, MaxSlots
<1>3. c = ChunksFor(m)
  BY DEF ChunksFor
<1> HIDE DEF q
<1>4. m \in Nat /\ q <= m /\ 8 <= m
  BY <1>1
<1> HIDE DEF m
<1>5. m + 8 - 1 \in Nat
  BY <1>4
<1>6. c \in Nat /\ m + 8 - 1 < 8 * c + 8
  BY <1>5, QuotientBounds
<1> HIDE DEF c
<1>7. q <= 8 * c /\ c # 0
  BY <1>1, <1>4, <1>6
<1>8. d * 20 <= 136 * c + 16
  BY <1>1, <1>6, <1>7
<1>9. LOAD_NUM * Capacity(c) = 72 * c /\ LOAD_DEN * d = 10 * d
  BY <1>6 DEF Capacity
<1> QED
  BY <1>2, <1>3, <1>6, <1>7, <1>8, <1>9

(***************************************************************************)
(* The constants of the Rust drivers: such tables grow at 0.9.  One chunk   *)
(* and two chunks are the narrow cases.                                     *)
(***************************************************************************)
THEOREM CodeHasRoom ==
    ASSUME CodeSizes, LOAD_SLACK = 0
    PROVE  RoomForKeys
<1>1. ASSUME NEW d \in Nat PROVE HasRoomFor(d)
  <2> DEFINE c == ChunksFor(MinSlots(d))
  <2>1. /\ c \in Nat \ {0} /\ d * 20 <= 136 * c + 16
        /\ LOAD_DEN * d = 10 * d /\ LOAD_NUM * Capacity(c) = 72 * c
    BY ChunksMade
  <2> HIDE DEF c
  <2>2. 10 * d < 72 * c
    BY <2>1
  <2> QED
    BY <2>1, <2>2 DEF HasRoomFor, ShouldExpand, c
<1> QED
  BY <1>1 DEF RoomForKeys

(***************************************************************************)
(* The C++ table rounds its threshold down, and so grows a row earlier.     *)
(* From 29 keys on there is room for all of them nevertheless; tables made  *)
(* for 7, 14 and 28 keys are at the threshold when they hold them.          *)
(***************************************************************************)
THEOREM CppCodeHasRoom ==
    ASSUME CodeSizes, LOAD_SLACK = 9, NEW d \in Nat
    PROVE  /\ d >= 29 => HasRoomFor(d)
           /\ d \in {7, 14, 28} => ~HasRoomFor(d)
<1> DEFINE c == ChunksFor(MinSlots(d))
<1>1. /\ c \in Nat \ {0} /\ d * 20 <= 136 * c + 16
      /\ LOAD_DEN * d = 10 * d /\ LOAD_NUM * Capacity(c) = 72 * c
  BY ChunksMade
<1>2. d = 7 => c = 1
  BY DEF CodeSizes, ChunksFor, MinSlots, MaxSlots
<1>3. d = 14 => c = 2
  BY DEF CodeSizes, ChunksFor, MinSlots, MaxSlots
<1>4. d = 28 => c = 4
  BY DEF CodeSizes, ChunksFor, MinSlots, MaxSlots
<1> HIDE DEF c
<1>5. d >= 29 => 10 * d + 9 < 72 * c
  BY <1>1
<1>6. d \in {7, 14, 28} => 10 * d + 9 >= 72 * c
  BY <1>2, <1>3, <1>4
<1> QED
  BY <1>1, <1>5, <1>6 DEF HasRoomFor, ShouldExpand, c

LEMMA ChunksForMore ==
    ASSUME NEW a \in Nat, NEW b \in Nat, a <= b
    PROVE  ChunksFor(a) <= ChunksFor(b)
<1> DEFINE S == SLOTS_PER_CHUNK
           x == a + S - 1
           y == b + S - 1
           q == x \div S
           r == y \div S
<1>1. S \in Nat \ {0} /\ x \in Nat /\ y \in Nat /\ x <= y
  BY TableAssumption
<1> HIDE DEF S, x, y
<1>2. q \in Nat /\ S * q <= x /\ r \in Nat /\ y < S * r + S
  BY <1>1, QuotientBounds
<1>3. ChunksFor(a) = q /\ ChunksFor(b) = r
  BY DEF ChunksFor, x, y, S
<1> HIDE DEF q, r
<1>4. ASSUME r + 1 <= q PROVE FALSE
  <2>1. S * (r + 1) <= S * q /\ S * (r + 1) = S * r + S
    BY <1>1, <1>2, <1>4, Z3
  <2>2. S * q \in Nat /\ S * r \in Nat
    BY <1>1, <1>2
  <2> QED
    BY <1>1, <1>2, <2>1, <2>2
<1> QED
  BY <1>2, <1>3, <1>4

(***************************************************************************)
(* A table with at least the slots the fill load asks for d keys is below   *)
(* the load threshold with any number of rows up to d.                      *)
(***************************************************************************)
LEMMA SlotsHoldKeys ==
    ASSUME NEW d \in Nat, HasRoomFor(d), NEW slots \in Nat \ {0},
           (d * FILL_DEN) \div FILL_NUM <= slots, ChunksFor(slots) <= MOST_CHUNKS,
           NEW sz \in 0 .. d
    PROVE  ~ShouldExpand(WithCapacity(NextPowerOfTwo(ChunksFor(slots))), sz)
<1> DEFINE f == (d * FILL_DEN) \div FILL_NUM
           S == SLOTS_PER_CHUNK
           m == MinSlots(d)
           r == ChunksFor(m)
           p == NextPowerOfTwo(ChunksFor(slots))
           n == WithCapacity(p)
<1>1. f \in Nat /\ S \in Nat \ {0} /\ m = (IF f > S THEN f ELSE S)
  <2>1. d * FILL_DEN \in Nat /\ FILL_NUM \in Nat \ {0}
    BY WorkloadAssumption
  <2>2. f \in Nat
    BY <2>1, QuotientBounds
  <2> QED
    BY <2>2, TableAssumption DEF MinSlots, MaxSlots
<1>2. f <= slots
  OBVIOUS
<1>3. ~ShouldExpand(r, d)
  BY DEF HasRoomFor
<1> HIDE DEF f, m
<1>4. r <= ChunksFor(slots) /\ r \in Nat /\ ChunksFor(slots) \in Nat
  <2>1. r \in Nat /\ ChunksFor(slots) \in Nat
    BY <1>1, ChunksHoldSlots
  <2>2. CASE m = f
    BY <1>1, <1>2, <2>1, <2>2, ChunksForMore
  <2>3. CASE m = S
    <3>1. (S + S - 1) \div S = 1
      <4> HIDE DEF S
      <4>1. S + S - 1 \in Nat
        BY <1>1
      <4>2. /\ (S + S - 1) \div S \in Nat /\ S * ((S + S - 1) \div S) <= S + S - 1
            /\ S + S - 1 < S * ((S + S - 1) \div S) + S
        BY <1>1, <4>1, QuotientBounds
      <4> DEFINE q == (S + S - 1) \div S
      <4>3. q \in Nat /\ S * q <= S + S - 1 /\ S + S - 1 < S * q + S
        BY <4>2
      <4> HIDE DEF q
      <4>4. q # 0
        BY <1>1, <4>3
      <4>5. ASSUME 2 <= q PROVE FALSE
        <5>1. S * 2 <= S * q
          BY <1>1, <4>3, <4>5, Z3
        <5> QED
          BY <1>1, <4>3, <5>1
      <4>6. q = 1
        BY <4>3, <4>4, <4>5
      <4> QED
        BY <4>6 DEF q
    <3>2. r = 1
      BY <2>3, <3>1 DEF ChunksFor
    <3>3. slots <= Capacity(ChunksFor(slots))
      BY ChunksHoldSlots
    <3>4. ChunksFor(slots) # 0
      BY <1>1, <3>3 DEF Capacity
    <3> QED
      BY <2>1, <3>2, <3>4
  <2> QED
    BY <1>1, <2>2, <2>3
<1>5. p \in Nat /\ ChunksFor(slots) <= p /\ p <= MOST_CHUNKS
  BY <1>4, NextPowerFacts
<1>6. n \in Nat /\ p <= n
  BY <1>5, NextPowerFacts DEF WithCapacity
<1> HIDE DEF r, p, n
<1>7. r <= n
  BY <1>4, <1>5, <1>6
<1>8. ~ShouldExpand(r, sz)
  BY <1>3, <1>4, FewerRows
<1> QED
  BY <1>4, <1>6, <1>7, <1>8, LargerTable DEF n, p

(***************************************************************************)
(* A table that main makes for d distinct keys is below the load threshold  *)
(* with any number of rows up to d: no row of the driver grows it.          *)
(***************************************************************************)
THEOREM TableHoldsKeys ==
    ASSUME NEW d \in Nat, HasRoomFor(d), ChunksFor(MinSlots(d)) <= MOST_CHUNKS,
           NEW sz \in 0 .. d
    PROVE  ~ShouldExpand(WithCapacity(MainChunks(d)), sz)
<1> DEFINE m == MinSlots(d)
           f == (d * FILL_DEN) \div FILL_NUM
<1>1. m \in Nat \ {0} /\ f <= m
  <2>1. d * FILL_DEN \in Nat /\ FILL_NUM \in Nat \ {0}
    BY WorkloadAssumption
  <2>2. f \in Nat
    BY <2>1, QuotientBounds
  <2>3. m = (IF f > SLOTS_PER_CHUNK THEN f ELSE SLOTS_PER_CHUNK)
    BY DEF MinSlots, MaxSlots
  <2> HIDE DEF f, m
  <2> QED
    BY <2>2, <2>3, TableAssumption
<1> HIDE DEF m
<1> QED
  BY <1>1, SlotsHoldKeys DEF MainChunks, m

-----------------------------------------------------------------------------
(***************************************************************************)
(* The slices of the rows leave no row out and have no empty one: row i is  *)
(* in exactly the slice of its number.                                      *)
(***************************************************************************)
THEOREM SlicesCover ==
    ASSUME NEW N \in Nat, NEW i \in 1 .. N
    PROVE  \E b \in 0 .. NumBatches(N) - 1 :
              /\ b * BATCH_SIZE + 1 <= i /\ i <= b * BATCH_SIZE + BATCH_SIZE
              /\ \A c \in 0 .. NumBatches(N) - 1 :
                    c * BATCH_SIZE + 1 <= i /\ i <= c * BATCH_SIZE + BATCH_SIZE => c = b
<1> DEFINE B == BATCH_SIZE
           b == (i - 1) \div B
           nb == (N + B - 1) \div B
<1>1. B \in Nat \ {0} /\ i - 1 \in Nat /\ N + B - 1 \in Nat
  BY WorkloadAssumption
<1>2. b \in Nat /\ B * b <= i - 1 /\ i - 1 < B * b + B
  BY <1>1, QuotientBounds
<1>3. nb \in Nat /\ N + B - 1 < B * nb + B
  BY <1>1, QuotientBounds
<1>4. nb = NumBatches(N)
  BY DEF NumBatches
<1> HIDE DEF b, nb, B
<1>5. b < nb
  <2>1. b >= nb => B * b >= B * nb
    BY <1>1, <1>2, <1>3, Z3
  <2>2. B * b \in Nat /\ B * nb \in Nat
    BY <1>1, <1>2, <1>3
  <2> QED
    BY <1>1, <1>2, <1>3, <2>1, <2>2
<1>6. b * B + 1 <= i /\ i <= b * B + B
  <2>1. b * B = B * b /\ B * b \in Nat
    BY <1>1, <1>2
  <2> QED
    BY <1>1, <1>2, <2>1
<1>7. ASSUME NEW c \in Nat, c * B + 1 <= i, i <= c * B + B
      PROVE  c = b
  <2>1. c * B \in Nat /\ b * B \in Nat
    BY <1>1, <1>2
  <2>2. c + 1 <= b => c * B + B <= b * B
    BY <1>1, <1>2, Z3
  <2>3. b + 1 <= c => b * B + B <= c * B
    BY <1>1, <1>2, Z3
  <2> QED
    BY <1>1, <1>2, <1>6, <1>7, <2>1, <2>2, <2>3
<1>8. b \in 0 .. nb - 1
  BY <1>2, <1>3, <1>5
<1> QED
  BY <1>4, <1>6, <1>7, <1>8 DEF B

LEMMA NumBatchesFacts ==
    ASSUME NEW n \in Nat
    PROVE  NumBatches(n) \in Nat /\ n <= NumBatches(n) * BATCH_SIZE
<1> DEFINE S == BATCH_SIZE
           a == n + S - 1
           b == a \div S
<1>1. S \in Nat \ {0} /\ a \in Nat
  BY WorkloadAssumption
<1>2. a = n + S - 1
  OBVIOUS
<1> HIDE DEF a, S
<1>3. b \in Nat /\ a < S * b + S
  BY <1>1, QuotientBounds
<1>4. NumBatches(n) = b
  BY <1>2 DEF NumBatches, S
<1> HIDE DEF b
<1>5. S * b = b * S /\ S * b \in Nat
  BY <1>1, <1>3
<1>6. n <= b * S
  BY <1>1, <1>2, <1>3, <1>5
<1> QED
  BY <1>3, <1>4, <1>6 DEF S

(* B is slice number b of q, a sequence over K, and starts behind place s. *)
SliceIs(K, q, b, s, B) ==
    /\ s \in Nat /\ B \in Seq(K) /\ Len(B) \in Nat \ {0}
    /\ Len(B) <= BATCH_SIZE /\ s + Len(B) <= Len(q)
    /\ b + 1 < NumBatches(Len(q)) => Len(B) = BATCH_SIZE
    /\ b + 1 = NumBatches(Len(q)) => s + Len(B) = Len(q)
    /\ \A i \in 1 .. Len(B) : s + i \in 1 .. Len(q) /\ B[i] = q[s + i]

(* A slice has at most BATCH_SIZE rows, those that follow its start. *)
LEMMA SliceLies ==
    ASSUME NEW K, NEW q \in Seq(K), NEW b \in Nat, b < NumBatches(Len(q))
    PROVE  SliceIs(K, q, b, b * BATCH_SIZE, BatchOf(q, b))
<1> DEFINE S == BATCH_SIZE
           n == Len(q)
           nb == (n + S - 1) \div S
           s == b * S
           e == IF s + S < n THEN s + S ELSE n
           B == BatchOf(q, b)
<1>1. S \in Nat \ {0} /\ n \in Nat /\ n + S - 1 \in Nat /\ nb = NumBatches(n)
  BY WorkloadAssumption DEF NumBatches
<1> HIDE DEF S, n
<1>2. nb \in Nat /\ S * nb <= n + S - 1 /\ n + S - 1 < S * nb + S
  BY <1>1, QuotientBounds
<1> HIDE DEF nb
<1>3. b + 1 <= nb
  BY <1>1, <1>2 DEF n
<1>4. s \in Nat /\ S * (b + 1) = s + S /\ S * (b + 1) <= S * nb
  <2>1. s \in Nat /\ S * (b + 1) = s + S
    BY <1>1
  <2>2. S * (b + 1) <= S * nb
    <3>1. \A x, y \in Nat : x <= y => S * x <= S * y
      BY <1>1, Z3
    <3>2. b + 1 \in Nat /\ nb \in Nat
      BY <1>2
    <3> QED
      BY <1>3, <3>1, <3>2
  <2> QED
    BY <2>1, <2>2
<1>5. s < n
  BY <1>1, <1>2, <1>4
<1>6. b + 1 < nb => s + S < n
  <2>1. b + 2 <= nb => S * (b + 2) <= S * nb
    <3>1. \A x, y \in Nat : x <= y => S * x <= S * y
      BY <1>1, Z3
    <3> QED
      BY <1>2, <3>1
  <2>2. S * (b + 2) = s + S + S
    <3>1. S * (b + 2) = S * (b + 1) + S
      BY <1>1
    <3> QED
      BY <1>4, <3>1
  <2> QED
    BY <1>1, <1>2, <1>4, <2>1, <2>2
<1>7. b + 1 = nb => s + S >= n
  BY <1>1, <1>2, <1>4
<1>8. B = SubSeq(q, s + 1, e)
  BY DEF BatchOf, n, S
<1> HIDE DEF s, B
<1>9. e \in Nat /\ s < e /\ e <= n /\ e - s <= S
  BY <1>1, <1>4, <1>5
<1>10. B \in Seq(K) /\ Len(B) = e - s /\ \A i \in 1 .. e - s : B[i] = q[s + i]
  <2> HIDE DEF e
  <2>1. SubSeq(q, s + 1, e) = [i \in 1 .. e - s |-> q[s + i]]
    <3>1. SubSeq(q, s + 1, e) = [i \in 1 .. (1 + e - (s + 1)) |-> q[i + (s + 1) - 1]]
      BY <1>4, <1>9
    <3>2. 1 + e - (s + 1) = e - s /\ \A i \in 1 .. e - s : i + (s + 1) - 1 = s + i
      BY <1>4, <1>9
    <3> QED
      BY <3>1, <3>2
  <2>2. \A i \in 1 .. e - s : s + i \in 1 .. n
    BY <1>1, <1>4, <1>9
  <2>3. \A i \in 1 .. n : q[i] \in K
    BY DEF n
  <2> DEFINE m == e - s
             p == [i \in 1 .. m |-> q[s + i]]
  <2>4. m \in Nat /\ p \in [1 .. m -> K] /\ B = p
    <3>1. m \in Nat
      BY <1>4, <1>9
    <3>2. \A i \in 1 .. m : q[s + i] \in K
      BY <2>2, <2>3
    <3>3. B = p
      BY <1>8, <2>1
    <3> QED
      BY <3>1, <3>2, <3>3
  <2>5. \A i \in 1 .. m : p[i] = q[s + i]
    OBVIOUS
  <2> HIDE DEF m, p
  <2>6. p \in Seq(K) /\ Len(p) = m
    BY <2>4
  <2> QED
    BY <2>4, <2>5, <2>6 DEF m
<1>11. \A i \in 1 .. Len(B) : s + i \in 1 .. n
  BY <1>1, <1>4, <1>9, <1>10
<1>12. Len(B) \in Nat \ {0} /\ Len(B) <= S /\ s + Len(B) <= n
  BY <1>1, <1>4, <1>9, <1>10
<1>13. (b + 1 < nb => Len(B) = S) /\ (b + 1 = nb => s + Len(B) = n)
  BY <1>1, <1>4, <1>6, <1>7, <1>9, <1>10
<1> QED
  BY <1>1, <1>4, <1>10, <1>11, <1>12, <1>13 DEF SliceIs, s, S, n, B

LEMMA SliceFacts ==
    ASSUME NEW K, NEW q \in Seq(K), NEW b \in Nat, b < NumBatches(Len(q))
    PROVE  LET s == b * BATCH_SIZE
               B == BatchOf(q, b) IN
           /\ s \in Nat /\ B \in Seq(K) /\ Len(B) \in Nat \ {0}
           /\ Len(B) <= BATCH_SIZE /\ s + Len(B) <= Len(q)
           /\ b + 1 < NumBatches(Len(q)) => Len(B) = BATCH_SIZE
           /\ b + 1 = NumBatches(Len(q)) => s + Len(B) = Len(q)
           /\ \A i \in 1 .. Len(B) : s + i \in 1 .. Len(q) /\ B[i] = q[s + i]
<1>1. SliceIs(K, q, b, b * BATCH_SIZE, BatchOf(q, b))
  BY SliceLies
<1> QED
  BY <1>1 DEF SliceIs

-----------------------------------------------------------------------------
(***************************************************************************)
(* A driver's table: large enough for all of the driver's keys, it is never *)
(* expanded, whatever rows come in whatever order.                          *)
(***************************************************************************)

HoldsAll(K, n) == IsFiniteSet(K) /\ \A sz \in 0 .. Cardinality(K) : ~ShouldExpand(n, sz)

(* A table with room for the keys K, which has been given no others. *)
KeptFor(K) ==
    /\ HoldsAll(K, num_chunks)
    /\ \A i \in DOMAIN rows : rows[i] \in K
    /\ size = Len(rows)
    /\ phase \notin {"expand", "retry"} /\ pc # "rehash" /\ dropped = {}

(* Different rows have different keys, so there are no more of them than keys. *)
LEMMA FewRows ==
    ASSUME rows \in Seq(Keys), KeysDistinct, NEW K, IsFiniteSet(K),
           \A i \in DOMAIN rows : rows[i] \in K
    PROVE  /\ Len(rows) \in 0 .. Cardinality(K)
           /\ Cardinality({rows[i] : i \in DOMAIN rows}) = Len(rows)
<1> DEFINE n == Len(rows)
           T == {rows[i] : i \in 1 .. n}
<1>1. n \in Nat /\ DOMAIN rows = 1 .. n
  OBVIOUS
<1>2. \A i, j \in 1 .. n : rows[i] = rows[j] => i = j
  BY <1>1 DEF KeysDistinct
<1>3. T \subseteq K /\ T = {rows[i] : i \in 1 .. n} /\ T = {rows[i] : i \in DOMAIN rows}
  BY <1>1
<1> HIDE DEF n, T
<1>4. 1 .. n \in SUBSET (1 .. n)
  OBVIOUS
<1>5. Cardinality(T) = Cardinality(1 .. n) /\ IsFiniteSet(T)
  BY <1>1, <1>2, <1>3, <1>4, NamedOnce
<1>6. Cardinality(1 .. n) = n
  BY <1>1, FS_Interval
<1>7. Cardinality(T) <= Cardinality(K) /\ Cardinality(K) \in Nat
  BY <1>3, FS_Subset, FS_CardinalityType
<1>8. Len(rows) \in 0 .. Cardinality(K)
  BY <1>1, <1>5, <1>6, <1>7 DEF n
<1> QED
  BY <1>3, <1>5, <1>6, <1>8 DEF n

(* In such a table the load is never reached. *)
LEMMA NeverLoaded ==
    ASSUME TypeOK, KeysDistinct, NEW K, KeptFor(K)
    PROVE  ~ShouldExpand(num_chunks, size)
BY FewRows DEF KeptFor, HoldsAll, TypeOK

(* A step that stores no row, or the row of the batch that it is for. *)
Stores ==
    /\ num_chunks' = num_chunks /\ dropped' = dropped
    /\ phase' \notin {"expand", "retry"} /\ pc' # "rehash"
    /\ \/ rows' = rows /\ size' = size
       \/ \E r \in DOMAIN batch : rows' = Append(rows, batch[r]) /\ size' = size + 1

LEMMA TryStores ==
    ASSUME NEW h, NEW p, NEW r \in DOMAIN batch, TryEmplaceAtPos(h, p, r)
    PROVE  /\ num_chunks' = num_chunks
           /\ \/ rows' = rows /\ size' = size
              \/ rows' = Append(rows, batch[r]) /\ size' = size + 1
BY DEF TryEmplaceAtPos, tableVars

LEMMA DirectStores ==
    ASSUME AInv, pc # "rehash", DirectStep, dropped = {}
    PROVE  Stores
<1>1. /\ phase = "direct" /\ Step /\ phase' = phase /\ dropped' = dropped
  BY DEF DirectStep
<1>2. TypeOK /\ RowsInv /\ BatchTypeOK
  BY DEF AInv, BatchTypeOK
<1>3. pc # "idle" /\ idx <= NumRows /\ row = batch[idx]
  BY <1>1, <1>2, StepFacts DEF AInv, Control
<1>4. idx \in DOMAIN batch
  BY <1>2, <1>3, BatchTypes
<1>5. Locate \/ ProbeFound \/ ProbeInsert \/ ProbeNext
  BY <1>1 DEF Step, EmplaceStep, ExpandStep, RehashPlace, RehashCollide, RehashRound, RehashDone
<1>6. CASE Locate \/ ProbeFound \/ ProbeNext
  BY <1>1, <1>6
     DEF Stores, Locate, ProbeFound, FoundIn, ProbeNext, NextUnless, tableVars, rehashVars
<1>7. CASE ProbeInsert
  BY <1>1, <1>3, <1>4, <1>7 DEF Stores, ProbeInsert, InsertUnless, rehashVars
<1> QED
  BY <1>5, <1>6, <1>7

(* No step of a call expands a table that is below its load. *)
LEMMA StepStores ==
    ASSUME AInv, BatchStep, ~ShouldExpand(num_chunks, size),
           phase \notin {"expand", "retry"}, pc # "rehash", dropped = {}
    PROVE  Stores
<1> USE DEF vars, emplaceVars, tableVars, rehashVars
<1>1. CASE DirectCall
  BY <1>1 DEF DirectCall, Emplace, Stores, batchVars
<1>2. CASE DirectStep
  BY <1>2, DirectStores
<1>3. CASE DirectReturn
  BY <1>3 DEF DirectReturn, Return, Stores
<1>4. CASE PassServe
  <2>1. /\ InPass /\ idx <= PassEnd
        /\ TryEmplaceAtPos(HashAt(idx), emplace_positions[idx], RowAt(idx))
        /\ phase' = phase /\ pc' = pc /\ dropped' = dropped
    BY <1>4 DEF PassServe
  <2>2. RowAt(idx) \in DOMAIN batch
    BY <2>1, PassFacts
  <2> QED
    BY <2>1, <2>2, TryStores DEF Stores
<1>5. CASE PassCollide
  BY <1>5 DEF PassCollide, Stores
<1>6. CASE PassExpand
  BY <1>6 DEF PassExpand
<1>7. CASE ExpandInBatch \/ RetryStart \/ RetryServe \/ RetryDrop \/ RetryEnd
  BY <1>7 DEF ExpandInBatch, RetryStart, RetryServe, RetryDrop, RetryEnd
<1>8. CASE NextRound
  BY <1>8 DEF NextRound, Stores
<1>9. CASE BatchReturn
  BY <1>9 DEF BatchReturn, Return, Stores
<1> QED
  BY <1>1, <1>2, <1>3, <1>4, <1>5, <1>6, <1>7, <1>8, <1>9 DEF BatchStep

LEMMA KeptForStores ==
    ASSUME rows \in Seq(Keys), batch \in Seq(Keys), Stores, NEW K, KeptFor(K),
           \A r \in DOMAIN batch : batch[r] \in K
    PROVE  KeptFor(K)' /\ num_chunks' = num_chunks
<1>3. Len(rows) \in Nat /\ size = Len(rows)
  BY DEF KeptFor
<1>4. (\A i \in DOMAIN rows' : rows'[i] \in K) /\ size' = Len(rows')
  <2>1. CASE rows' = rows /\ size' = size
    BY <1>3, <2>1 DEF KeptFor
  <2>2. ASSUME NEW r \in DOMAIN batch, rows' = Append(rows, batch[r]), size' = size + 1
        PROVE  (\A i \in DOMAIN rows' : rows'[i] \in K) /\ size' = Len(rows')
    <3>1. /\ Len(rows') = Len(rows) + 1 /\ DOMAIN rows' = 1 .. Len(rows) + 1
          /\ rows'[Len(rows) + 1] = batch[r]
          /\ \A i \in 1 .. Len(rows) : rows'[i] = rows[i]
      BY <1>3, <2>2
    <3>2. \A i \in 1 .. Len(rows) : rows[i] \in K
      BY <1>3 DEF KeptFor
    <3>3. \A i \in 1 .. Len(rows) + 1 : i = Len(rows) + 1 \/ i \in 1 .. Len(rows)
      BY <1>3
    <3> QED
      BY <1>3, <2>2, <3>1, <3>2, <3>3
  <2> QED
    BY <2>1, <2>2 DEF Stores
<1> QED
  BY <1>4 DEF KeptFor, Stores

LEMMA KeptForStep ==
    ASSUME AInv, PathsInv, BatchStep, NEW K, KeptFor(K), \A r \in DOMAIN batch : batch[r] \in K
    PROVE  KeptFor(K)' /\ num_chunks' = num_chunks
<1>1. TypeOK /\ KeysDistinct
  BY DEF AInv, BatchTypeOK, PathsInv, IInv
<1>2. Stores
  BY <1>1, NeverLoaded, StepStores DEF KeptFor
<1>3. rows \in Seq(Keys) /\ batch \in Seq(Keys)
  BY <1>1 DEF TypeOK, AInv, BatchTypeOK
<1> QED
  BY <1>2, <1>3, KeptForStores

(* Two sequences one after the other. *)
LEMMA JoinedRows ==
    ASSUME NEW S, NEW a \in Seq(S), NEW b \in Seq(S)
    PROVE  LET c == a \o b IN
           /\ c \in Seq(S) /\ DOMAIN c = 1 .. Len(a) + Len(b)
           /\ \A i \in 1 .. Len(a) : c[i] = a[i]
           /\ \A i \in 1 .. Len(a) + Len(b) : i > Len(a) => c[i] = b[i - Len(a)]
<1> DEFINE c == a \o b
<1>1. Len(a) \in Nat /\ Len(b) \in Nat /\ Len(c) = Len(a) + Len(b) /\ c \in Seq(S)
  OBVIOUS
<1>2. DOMAIN c = 1 .. Len(a) + Len(b)
  BY <1>1
<1>3. \A i \in 1 .. Len(a) : c[i] = a[i]
  BY <1>1
<1>4. \A i \in 1 .. Len(a) + Len(b) : i > Len(a) => c[i] = b[i - Len(a)]
  BY <1>1
<1> QED
  BY <1>1, <1>2, <1>3, <1>4

(***************************************************************************)
(* What gen_data produces has no more keys than main took it to have: the   *)
(* keys of the table, and one more for each probe that is no hit.           *)
(***************************************************************************)
LEMMA GenDataKeys ==
    ASSUME NEW keys, NEW B \in Seq(keys), NEW num_hits \in 0 .. NUM_PROBE_ROWS,
           NEW D, D \in GenData(B, num_hits, keys)
    PROVE  LET K == {D[i] : i \in DOMAIN D} IN
           /\ D \in Seq(keys) /\ K \subseteq keys /\ IsFiniteSet(K)
           /\ Cardinality(K) <= DistinctKeys(Len(B), num_hits)
           /\ DistinctKeys(Len(B), num_hits) \in Nat
<1> DEFINE N == NUM_PROBE_ROWS
           m == Len(B)
           of_table == {B[i] : i \in DOMAIN B}
           Missed(p) == {i \in DOMAIN p : p[i] \notin of_table}
<1>1. N \in Nat /\ m \in Nat /\ DOMAIN B = 1 .. m /\ N - num_hits \in Nat
  BY WorkloadAssumption
<1>2. PICK p \in [1 .. N -> keys] :
         D = B \o p /\ Cardinality(Missed(p)) = N - num_hits
  BY DEF GenData
<1> HIDE DEF of_table, Missed
<1> DEFINE misses == Missed(p)
           others == {p[i] : i \in misses}
           K == {D[i] : i \in DOMAIN D}
<1>3. p \in Seq(keys) /\ Len(p) = N /\ DOMAIN p = 1 .. N
  BY <1>1, <1>2
<1>4. D \in Seq(keys) /\ DOMAIN D = 1 .. m + N
      /\ (\A i \in 1 .. m : D[i] = B[i]) /\ (\A i \in 1 .. m + N : i > m => D[i] = p[i - m])
  <2> HIDE DEF N, misses, others, K
  <2>1. D = B \o p /\ Len(p) = N
    BY <1>2, <1>3
  <2> QED
    BY <1>3, <2>1, JoinedRows DEF m
<1>5. K \subseteq of_table \cup others
  <2> SUFFICES ASSUME NEW i \in DOMAIN D PROVE D[i] \in of_table \cup others
    OBVIOUS
  <2>m. \A j \in 1 .. N : j \in misses \/ p[j] \in of_table
    BY <1>3 DEF Missed
  <2> HIDE DEF N, m
  <2>1. CASE i \in 1 .. m
    BY <1>1, <1>4, <2>1 DEF of_table
  <2>2. CASE i \notin 1 .. m
    <3>1. i - m \in 1 .. N /\ D[i] = p[i - m]
      BY <1>1, <1>4, <2>2
    <3> QED
      BY <2>m, <3>1
  <2> QED
    BY <2>1, <2>2
<1>6. IsFiniteSet(of_table) /\ Cardinality(of_table) <= m
  <2>1. IsFiniteSet(1 .. m) /\ Cardinality(1 .. m) = m
    <3> HIDE DEF m
    <3> QED
      BY <1>1, FS_Interval
  <2> DEFINE f == [i \in 1 .. m |-> B[i]]
  <2>2. f \in Surjection(1 .. m, of_table)
    BY <1>1 DEF Surjection, of_table
  <2> HIDE DEF f, of_table
  <2> QED
    BY <2>1, <2>2, FS_Surjection
<1>7. IsFiniteSet(misses) /\ IsFiniteSet(others) /\ Cardinality(others) <= N - num_hits
  <2>1. IsFiniteSet(1 .. N)
    BY <1>1, FS_Interval
  <2>2. IsFiniteSet(misses)
    BY <1>3, <2>1, FS_Subset DEF Missed
  <2> DEFINE f == [i \in misses |-> p[i]]
  <2>3. f \in Surjection(misses, others)
    BY DEF Surjection
  <2> HIDE DEF f, others
  <2>4. IsFiniteSet(others) /\ Cardinality(others) <= Cardinality(misses)
    BY <2>2, <2>3, FS_Surjection
  <2> QED
    BY <1>2, <2>2, <2>4
<1>10. K \subseteq keys
  <2>1. \A i \in DOMAIN D : D[i] \in keys
    <3> HIDE DEF K, others, misses, m, N
    <3>1. D \in Seq(keys)
      BY <1>4
    <3> QED
      BY <3>1
  <2> QED
    BY <2>1
<1> HIDE DEF others, misses, K, N, m
<1>8. /\ IsFiniteSet(of_table \cup others)
      /\ Cardinality(of_table \cup others) <= m + (N - num_hits)
  <2>1. /\ IsFiniteSet(of_table \cup others)
        /\ Cardinality(of_table \cup others)
             = Cardinality(of_table) + Cardinality(others) - Cardinality(of_table \cap others)
    BY <1>6, <1>7, FS_Union
  <2>2. IsFiniteSet(of_table \cap others)
    BY <1>6, FS_Intersection
  <2> QED
    BY <1>1, <1>6, <1>7, <2>1, <2>2, FS_CardinalityType
<1>9. IsFiniteSet(K) /\ Cardinality(K) <= m + (N - num_hits)
  BY <1>1, <1>5, <1>8, FS_Subset, FS_CardinalityType
<1> QED
  BY <1>1, <1>4, <1>9, <1>10 DEF DistinctKeys, K, N, m
=============================================================================

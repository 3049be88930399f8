# A verification project for taper-microbench

`taper-microbench` holds two implementations, Rust (`rust/`) and C++ (`cpp/`),
of the same group-by engine: a chunked open-addressing hash table ("Taper"), a
row container fed by a bump allocator, and a pipeline that groups batches of
decoded columns and adds up one aggregate per group. This directory holds TLA+
models of it, TLC configurations that check them, and TLAPS proofs.

## 1. Inventory

Everything is single-threaded. What makes the code hard is not concurrency but
*in-place batch processing*: positions, hashes and row numbers are computed for
a whole batch, and then used while the table grows under them, while the arrays
that hold them are being compacted, and while earlier rows of the same batch
change what later rows should find.

| Component | State | Operations | Hard part | What makes it correct |
|---|---|---|---|---|
| `rust/src/taper_hashmap.rs` | chunks, `num_chunks`, `mask`, `size` | `emplace`, `emplace_batch`, `emplace_batch_full`, `emplace_batch_simd`, `expand` | growth in the middle of a batch; shared collision counter; in-place compaction; probing must end | one group per key, nothing lost in a rehash, every slot findable, every row served, calls return |
| `rust/src/bitmask.rs` | a 64-bit word | `match_tag`, `match_empty`, iterator | borrow between bytes (false matches) | yields every match, never an empty slot |
| `rust/src/chunk.rs` | tags, keys, 6-byte row pointers | `new`, `try_emplace`, `tags_u64`, `set_ptr`/`get_ptr` | slots that share a tag; empty slots keep filler keys and values | a chunk is a set of hashes; only the tag says that a slot is in use |
| `rust/src/column_marshaller.rs` | map, rows, `groups`, `update_indices`, `merged_cache` | `emplace_table_with_decode` (presize, batch, compare, re-emplace, accumulate), varchar format | two-stage grouping: hash first, keys later; buffers reused between calls; map replaced by presizing | every input value is added to its own key's group exactly once |
| `rust/src/batch_compare.rs` | index list | swap partition per column | indices are swapped while being read, columns continue behind them | a permutation, split into unequal and equal rows |
| `rust/src/row_container.rs` | arena chunks, row blocks, counters | `new_row`, `arena_alloc`, `agg_i64_checksum` | one bump allocator for rows and varchar bytes; growth rules | allocations disjoint and inside a chunk; checksum visits each row once |
| `cpp/include/taper_hashtable.h` | as the Rust table, `expandThreshold_` | `EmplaceBatch`, `Emplace`, `EmplaceBatchDirectly`, `ExpandCapacity` | the load is tested only at a full chunk | as the Rust table |
| `cpp/include/column_marshaller.h` | as the Rust pipeline | `EmplaceTableWithDecode` | no presizing; checksum over the table | as the Rust pipeline |
| `cpp/include/row_container.h`, `simple_arena_allocator.h` | arena, counters | `NewRow`, `Allocate` (`Reset` and `AllocateContinue` have no caller) | as the Rust container | as the Rust container |
| `rust/src/bin`, `cpp/src` | the rows, the table made for them, sums | `gen_data`, the size of the table, slices of at most 410 rows, one loop per case | the table's size is computed without looking at the rows; a last slice that is not full | every row is passed once; the table made never grows over its groups; what is reported is right |

How they interact: the pipeline calls the map with callbacks (`key_cmp`,
`on_init`, `on_update`). `on_init` takes a new row from the row container and
writes its address into the slot; `on_update` tells the pipeline which row
serves an input row. The map never looks into rows; the row container never
knows of the map. The hazards this raises are listed, line by line, in
`PROJECT.json`.

## 2. Modules and how they correspond to the code

```
TaperTable                chunks, tags, positions, probe sequence (operators)
  TaperExpand             the table's state and expand()
    TaperHashMap          emplace(), one row per call   --implements--> GroupTable
      EmplaceBatchFull    emplace_batch_full(), with its row-by-row fallback
        MapWorkload       the callers of the map: anyone, or a driver
        SerializeHandler  the Rust pipeline (uses BatchCompare)
          PipelineWorkload      its callers: anyone, or run_workload
          CppSerializeHandler   the C++ pipeline
            CppPipelineWorkload   its callers: anyone, or the C++ RunWorkload
        CppHashTable      the C++ table                 (used by CppSerializeHandler)
      EmplaceBatchSimd    emplace_batch_simd()
  WorkloadData            gen_data, table sizes, slices (operators; used by both workloads)
BitMask                   the SWAR words behind TaperTable's lookups
  ChunkSlots              one chunk and try_emplace, on those words
BatchCompare              the swap partition (operators)
  BatchCompareLoop        the comparison, list by list and column by column
Arena, VarcharFormat      the bump allocator, the varchar bytes (operators)
  RowContainer            rows, varchar blocks and the checksum's walk
    RowCases              its users: on_init, or a driver's loop
MC*                       the instances TLC checks

MemoryWords               packed words and overlapping reads (operators)
Sums                      f[1] + ... + f[n]

DataFacts                 lemmas: induction, the swap partition, counting, sums
  BatchCompareLoop_proofs     theorems about BatchCompareLoop
  RowContainer_proofs         theorems about RowContainer, RowCases and MemoryWords
TaperHashMap_proofs       theorems about TaperTable's operators and TaperHashMap
  EmplaceBatchSimd_proofs     theorems about EmplaceBatchSimd
  EmplaceBatchFull_proofs     theorems about EmplaceBatchFull and the drivers' tables
    MapWorkload_proofs        what the drivers of the map alone report
    Pipeline_proofs           theorems about both pipelines and their callers
```

`PROJECT.json` maps every definition to its lines. In short:

- **TaperTable.** A chunk is a function from slots to records `tag, key, value`.
  `key` is the whole hash, as in the code; `value` is the number of the row the
  48-bit pointer names. An allocation fills keys and values with the empty tag
  as `memset` does, so a model that looked at anything but the tag would find
  filler. `MatchTag` contains the false match the borrow of the SWAR
  subtraction lets through (`Neighbour`); `BitMask` checks that the words of
  `bitmask.rs` say the same as this slot-by-slot reading.
  `Probe(n, h, k)` is the closed form of the probe sequence `pos + 1, + 2, ...`.
- **TaperExpand.** `expand` is stepped through entry by entry: `StartExpand` is
  the call up to the first round, `RehashPlace` and `RehashCollide` the two
  outcomes for an entry, `RehashRound` the loop's end, `RehashDone` the return.
  `after` says where the caller goes on.
- **TaperHashMap.** `Emplace` is the call with its load test, `Locate` the
  computation of tag and position, the three `Probe...` actions one turn of the
  loop. `rows` stands for what the callback `on_init` creates.
- **EmplaceBatchFull.** `emplace_hash_vals`, `emplace_positions` and
  `emplace_collisions` are the arrays that the function compacts in place.
  `PassServe`, `PassCollide`, `PassExpand` are the outcomes for a row in the
  first pass and in the collision rounds, which run the same code;
  `ExpandInBatch`, `RetryStart`, `RetryServe`, `RetryDrop`, `RetryEnd` are the
  expansion in the middle of a pass and `try_emplace_rehashed_collisions`.
  `served` and `dropped` record what the callbacks were told; they are read by
  properties only.
- **EmplaceBatchSimd.** One action for the top of a round, then one for each row
  of a stage: `LookupHit` and `LookupMiss` in stage 1, `CompareMatch` and
  `CompareDiffer` for the comparison of all candidates, `PlaceNew` and
  `PlaceLater` in stage 3. Three lists, `candidates`, `no_match_rows` and
  `collision_buf`, carry the rows from one stage to the next.
- **SerializeHandler.** `EmplaceTableWithDecode` is the call up to step 1 (the
  map may be replaced), `BatchCallback` a step of the batch insertion with what
  its callbacks do, `StartCompare`, `CompareColumn`, `CompareDone` step 4, the
  `Reemplace...` actions step 5, `Accumulate` the aggregation of the equal rows.
  Keys are tuples with a value for each of `Columns`; `input_total` is a history
  variable. Sums over rows and groups are `SumTo` of `Sums`. No batch is so long that
  the presizing asks for more than `MOST_CHUNKS` chunks.
  Sums wrap at `AGG_WRAP` (2^64): the drivers are built in release mode, where
  `+=` wraps. The C++ instance takes values whose signed sums fit, negative ones among
  them, since overflow is undefined there.
- **WorkloadData, MapWorkload, PipelineWorkload, CppPipelineWorkload.** The callers. `driver` says
  who calls: `"any"` is a caller with arbitrary batches and table, the others
  are the drivers of `rust/src/bin`, each an action per loop (`RunHashmapOnly`,
  `RunHashmapPlusSerialize`, `RunWorkload`, ...). `GenData` is the set of row
  sequences `gen_data` can produce: the distinct keys first, then probes, of
  which `num_hits` are for keys already there. `MinSlots`, `MainChunks`,
  `MicroChunks` and `FunctionsChunks` are the four ways the drivers size a table;
  `NumBatches` and `BatchOf` the slices. How keys are spelled and hashed is left
  out; the drivers' 64-bit hashes are taken to differ where their keys do, their keys
  and probes to ask for no more than `MOST_CHUNKS` chunks (`DriverAssumption`). A
  driver called with `num_keys = 0` panics (`% 0`) and is no state of the model.
- **ChunkSlots.** `try_emplace` match by match: `KeyEquals`, `KeyDiffers` are one
  turn of the loop over the tag matches, `TakeSlot` and `ChunkFull` what happens
  after it. Other initial states hold any word of tags, for the iterator alone.
- **CppHashTable, CppSerializeHandler.** What the two languages share is shared
  here too. What differs is written out: the load is tested at a full chunk
  only, a small table takes a batch through `EmplaceBatchDirectly`, the table
  is never replaced, `groups_` is corrected by the second stage, the checksum
  walks the table's slots.
- **RowContainer.** `StoreRow` is `on_init`: `new_row` and then the varchar block
  from the same arena. `mem` maps addresses of entries to entries; an allocation
  that overlapped would wipe out what lies there, so `KeysReadBack` does not
  presuppose what `RegionsApart` states. `VarcharFormat` lays the strings of a row out
  one behind the other, each `RoomFor` its length.
- **RowCases.** The drivers' loops over rows, varchar blocks and aggregates, a
  fill and, where there is one, a second loop that compares, stores or adds.
  `aggs` is the memory of the aggregates, by address of the row.
- **BatchCompareLoop.** Lists, columns, and any of one, two or four lanes: the
  vector code compares all lanes first (`VisitLanes`) and swaps afterwards, lane by
  lane (`MoveLane`). `ComparePass` is a whole scalar loop, as the pipeline uses it.

## 3. What each run checks

| Run | Shows |
|---|---|
| `TaperHashMap` | Single-row insertion from one chunk through every expansion. `Reachable`: a used slot lies on the probe path of its hash behind full chunks only, within the first `num_chunks` tries, half-way through a rehash too. `TriesBounded`: neither a search nor a rehash tries a chunk twice. `OneGroupPerKey`, `SizeExact`, `OwnGroup`, `UsedSlotsKept`, `EmplaceReturns`, and `FindsOrCreates`: the map implements `GroupTable`. |
| `EmplaceBatchFull_growing` | Batches that expand the table in every phase, and the drivers that run the map alone. `RowsAccounted`: compaction over the arrays being read mixes up no row. `WaitingOnPath`: the shared collision counter and the reset positions agree with each row's own probe path. `RowsCounted`: the number such a driver reports accounts for every row it was to pass, and its new slots are the distinct hashes. `ServedOwn`, `OneGroupPerKey`, `BatchReturns`. |
| `EmplaceBatchFull_dropped` | `NoRowForgotten` is violated, with the code's own constants (8 slots, 9/10, tags of 7 bits): see finding 1. |
| `EmplaceBatchSimd_distinct` | Batches of distinct hashes, and two calls for two keys of one hash: `ActiveOnPath`, `EveryRowServed` with its own group, `NoGroupTwice`, `SimdReturns`. |
| `EmplaceBatchSimd_repeated` | A violation: see finding 2. |
| `BitMask` | All words of four four-bit lanes and all queries, and a chunk filled by `try_emplace` with hashes that share tags. `IteratorRight`: the iterator yields what `TaperTable` reads slot by slot. `TryEmplaceRight`: the chunk is a set of hashes, turns one away only when it is full of others, and says "new" exactly when the hash was not there. |
| `BatchCompare` | All lists of up to six rows over two columns in one, two and four lanes: a permutation (`RowsKept`) with the differing rows in front (`FrontDiffers`). |
| `SerializeHandler` | Two calls of every three rows over five two-column keys with shared hashes, and `run_workload` over every result of `gen_data` in slices. `ValuesConserved` at every step, wrapped sums included; `CandidatesSorted`; `TableKept`: a driver's table is never made anew over its groups; `ResultRight`: the number of groups reported is the number of distinct keys, without the second stage's help; `HandlerReturns`. |
| `SerializeHandler_merged`, `_presized` | Violations: findings 3 and 4. |
| `CppSerializeHandler` | The same callers on the C++ handler, from a table that `EmplaceBatchDirectly` fills to its last slot: `ValuesConserved`; `GroupsRight`: `groups_` names the only group of each row's key; `ChecksumRight`: the walk over the slots accounts for every value; `CppRoomToProbe`: the table may be full to the last slot and a probe still ends; `ResultRight`; `CppHandlerReturns`: so do the calls, from such a table too. |
| `RowContainer` | Three rows with every combination of nulls and boundary lengths in four layouts, and the drivers' loops: `RegionsApart`, `KeysReadBack`, and `ResultsRight`: an aggregate stays its row's own and the checksum finds it, whatever was stored later; a comparison finds every string that was serialized. |

### Bounds, and why they are enough

- *Chunks of two slots* (`SLOTS_PER_CHUNK = 2`) make a chunk overflow with three
  keys and expand at two or three; five to six keys take a table from one chunk
  to eight. Hashes are chosen so that homes coincide before and after doubling,
  tags coincide or are neighbours (the borrow), two keys share a hash, one hash
  equals the filler, and one home is the last chunk, where probes wrap.
- *The load factor* is 3/4 where 9/10 of two slots would leave no state between
  "not yet" and "full"; `EmplaceBatchFull_dropped` runs with the code's 9/10.
  The 0.85 the drivers size their tables with becomes 3/5 beside it, which
  leaves, as in the code, a margin below the threshold. `LOAD_SLACK` is the rounding of the C++ threshold.
- *`MaxCalls`* is 2, so that a call meets what an earlier one left: buffers, a grown
  table, groups. *`NUM_PROBE_ROWS`* 3 and 4 with up to five
  keys and slices of 4 and 3 give drivers one to three slices, the last one full
  or not, from none to all of the probes hits. *`BatchLength`* is 4 for the map, 3 for the pipelines: one row
  served, one waiting and one that makes the table grow.
- *Aggregates* are distinct powers of two, some of them negative modulo
  `AGG_WRAP` = 1024: a sum determines its summands, and sums wrap.
- *Repeated keys for `emplace_batch_simd`*: batches with the same key twice, and a
  key `twin` whose hash is another key's. In the run with distinct hashes `twin`
  comes alone, so that a candidate with another key does occur; two calls are too
  few for it to be missed, which takes a third.
- *String lengths* stand on both sides of 255 and 65535, where the width of the
  stored length changes; *`MaxRows`* 3 with blocks of two rows takes a second
  block; the chunk sizes make allocations start chunks by either growth rule.

### Fairness

Weak fairness is assumed of the program's own steps (`Step`, `BatchStep`,
`SimdStep`, `HandlerStep`, `CppHandlerStep`, `DriverStep`, `PipelineStep`): a
single-threaded program that is in a call goes on executing, and a driver goes
on to its next slice. Nothing is assumed of the other callers, which need never
call again. Most passing runs bound the calls and stop between them, so
they do not check for deadlock; `TaperHashMap`, where calls are unbounded, does.

## 4. What is proved

All of it for every value of the constants that the modules' assumptions allow:
chunk sizes, tag and load parameters, sets of keys and hash functions, batches of
any length, any number of calls (`MaxCalls` is a bound of the runs; the proofs
take any natural number). Tables are asked for with at most `MOST_CHUNKS` (2^20) chunks,
as far as the model's `NextPowerOfTwo` searches, and grow from there without bound.

### The table: `TaperHashMap_proofs`

- `TypeCorrect`: `Spec => []TypeOK`; every position used is a chunk.
- `OneGroup`, `OwnGroupOnly`, `SlotsKept`: `OneGroupPerKey`, `OwnGroup`, `UsedSlotsKept`.
- `SizeIsExact`: `SizeExact`. Half way through a rehash the counter, the slots of
  the new table and the pending entries add up to the rows.
- `ReachableAlways`, `TriesEnd`: `Reachable`, `TriesBounded`; what is stored is found,
  and the loops without a bound of their own end, within `num_chunks` tries. The
  number of chunks is a power of two (`OddFree`), and so triangular numbers
  take every value modulo it.
- `RoomAhead`: no probe starts in a full table, and a rehash fills at most half of
  the new one (`RoomToProbe`, which no run checks by itself: `TriesBounded` is what it is for).
- `Implements`: `Spec => FindsOrCreates`, the refinement of `GroupTable`; a probe
  step or a rehash step is a stutter, the end of a call is `GroupTable`'s call.
- `MatchInUse`: what the tag lookup names is a slot in use, the false matches
  included, since a neighbour of a tag is never the empty tag (`TagAssumption`:
  the number of tags is even).

`OneGroupPerKey` is not inductive. That an insertion, which stops at the first
chunk with room, finds no group of its key *anywhere* follows only from where
used slots can be. The inductive invariant `IInv` therefore adds

- `Placed`: each used slot is on the path of its hash behind full chunks;
- `TagsRight`, `RowsRight`: a slot's tag and key are those of its row;
- `NoneLost`, `NoneTwice`, `KeysDistinct`: rows and slots correspond;
- `RehashRight`: a pending entry waits where its number of tries leads;
- `ScanRight`: the chunks a probe has passed are full and hold no match.

`ScanComplete` draws the conclusion: at a chunk with room, without a match
there, no slot holds the key, since `Placed` puts it in a chunk the scan has
passed. One lemma per action shows that `IInv` is preserved. The arithmetic comes
first in the module: the closed form `Probe` takes the step the code takes
(`ProbeStep`), from facts about remainders and triangular numbers. `CountInv` and
`TriesInv` are the invariants of the counter and of the numbers of tries.

### Batches: `EmplaceBatchFull_proofs`

- `BatchTypeCorrect`, `BatchRowsAccounted`, `BatchOnPath`, `BatchServesOwn`,
  `BatchOneGroup`: the run's invariants `BatchTypeOK`, `RowsAccounted`,
  `WaitingOnPath`, `ServedOwn`, `OneGroupPerKey`.

The invariant is `BInv == AInv /\ PathsInv`. `AInv` says what the arrays hold:

- `Control`, `Ranges`: which phase reads which part of which array;
- `Named`, `Injective`, `Parts`: every row of the batch is in exactly one of
  visited-and-served, waiting at the front, not visited yet, or dropped, also
  while a pass writes its survivors over the front of the arrays it reads;
- `ServedRight`: a served row's group has its hash.

`PathsInv` is the table's `IInv`, where the map's own call is at rest or rehashing,
and `OnPaths`: the position stored for a waiting row is what its own hash's probe
sequence gives for the number of tries the shared counter stands for. The
difficult step is a collision whose expansion resets the positions of the
rows waiting: `OnPaths` holds again because the counter is reset with them.

The two are kept apart because only the first survives the pipeline's presizing
(finding 4): each action is shown to keep `AInv`, and `PathsInv` if it held.
`BInvPromises` draws the five properties from `BInv` alone, for any caller.

### Tables with room: `EmplaceBatchFull_proofs`, `MapWorkload_proofs`

`HasRoomFor(d)` is the condition under which the way the drivers size their tables
fits the way the table grows: the slots made for `d` keys, in whole chunks, hold
*all* `d` below the threshold. `RoomForKeys` says so of every `d`.
That `d - 1` are below it would not do: a row whose key is stored already may still
meet a full chunk on its way, and the load is tested there.

- `CodeHasRoom`: the Rust drivers' constants satisfy it (chunks of 8, 0.85, 0.9);
  one and two chunks are the narrow cases. So do the runs' (chunks of 2, 3/5, 3/4).
- `CppCodeHasRoom`: the C++ threshold is rounded down (`LOAD_SLACK` 9), and so there is room
  for any `d >= 29`, but tables made for 7, 14 or 28 keys are at the threshold when they
  hold them.
- `TableHoldsKeys`: under `HasRoomFor(d)`, a table made as `main` makes it for `d`
  distinct keys never reaches its threshold with up to `d` rows.
- `SlicesCover`: the slices hold every row once.
- `ReportsCounted`: under `RoomForKeys`, `WorkSpec => []RowsCounted`: for each driver that
  runs the map alone, slots and hits together are the rows it passed, and there is one
  slot per hash. The invariant has three parts: `CInv`, that every caller's step is one
  of the map's, so that `BInv` holds (`CallersServed`); `KeptFor(K)`, that the table
  holds rows of `K`, the driver's keys, only, has never been expanded and has
  dropped none, which is kept since distinct rows with keys in `K` are no more than
  the table has room for; and `ReportInv`, the count: the rows before the batch under way
  and those served of it, and a group for each row before it.

### `emplace_batch_simd`: `EmplaceBatchSimd_proofs`

- `SimdTypeCorrect`, `SimdOnPath`, `SimdRowsServed`: `SimdTypeOK`, `ActiveOnPath`,
  `EveryRowServed`, for batches that repeat keys and hashes as well: what finding 2
  costs is second groups, never a row without a group or with another key's;
- `SimdOneGroup`: `NoGroupTwice` and `OneGroupPerKey`, if no batch has a key twice
  and no two keys of the batches share a hash (`DistinctHashes`).

There are two invariants. `SInv` holds for any batch: each row is in one of the four
lists, once, or served (`Apart`, `Covered`); a row in a list is on its path (`OnPaths`);
candidates are groups with the row's hash. Of the table it needs only that slots
name stored rows, since `KeysDistinct`, and with it `IInv`, fails when a batch repeats
a key. `DInv` adds, where batches do not, that a row's hash is in none of the chunks it
was tried at (`Unseen`), and, once looked up, not in its own either (`NotHere`), although
the other rows of its batch are placed in between: their slots have other hashes.

### The comparison: `DataFacts`, `BatchCompareLoop_proofs`

- `RowsAreKept`, `FrontIsUnequal`: `RowsKept` and `FrontDiffers`, for lists and columns of
  any number and one, two or four lanes. The invariant `LInv` says that the list is a
  permutation, that the front's rows differ in a column up to this one, and that
  what the loop has passed behind the front differs in none. A vector step compares all
  lanes before it moves any; that is the same as moving one after the other
  since a swap brings to lane `i` only an entry that was passed and found equal.

`DataFacts` holds what several proofs need: the scalar pass as a whole
(`ComparePass`, by induction along the list), sums (`SumTo`: a term changed, added,
none), and counting with a one-to-one naming.

### Rows and strings: `RowContainer_proofs`

- `RegionsStayApart`, `KeysAreRead`: `RegionsApart` and `KeysReadBack`: for any layout,
  lengths and growth, what is allocated shares no byte, and what is written is
  read back. `ContainerInv`: rows and blocks are where the counters say
  (`RowsTyped`, `RowsPlaced`), all regions taken so far lie below the bump pointer and
  apart (`ArenaOK`, `FamilyOK(Taken)`), and memory holds each row's entries
  (`HeldIn(mem)`), which a later allocation, being apart, leaves as they are.
- `ResultsAreRight`: `ResultsRight`. `CaseInv` adds how far the loops are (`LoopsOK`) and
  either that the aggregates' sum is the sum of what was added (`AggsOK`) or that the
  comparisons so far have matched (`ComparisonsMatch`).
- About `MemoryWords`, which defines what lies below the other modules'
  abstractions: six bytes keep a row address below 2^48 (`RowPtrKept`), a packed
  column descriptor gives back its three fields (`RowColumnKept`), null bits of any number of columns are apart and
  inside their bytes (`NullBitsApart`), and the overlapping reads of `InlineMemEqual`
  cover exactly the strings (`InlineMemEqualCorrect`).

`StringsAssumption` says what a string is to the model: no null, and with
length 0 only the empty one.

### The Rust pipeline: `Pipeline_proofs`

For any caller, any batches and any shared hashes:

- `HandlerTypeCorrect`, `SortedAlways`: `HandlerTypeOK`, `CandidatesSorted`;
- `ValuesKept`: `WorkSpec /\ [](dropped = {}) => []ValuesConserved`. The condition is
  finding 1: a row that the retry forgets is in no group, and its value is lost.
  Findings 3 and 4 are *not* excluded: second groups of a key do not lose values.

and for the driver `run_workload`, under `RoomForKeys`:

- `TablesKept`: `TableKept`, its table is made anew at most while it is empty;
- `ReportsRight`: `ResultRight`, as many groups as keys, none from the second stage;
- `DriversCount`: `ValuesConserved` without any condition.

`HInv` has the map's part `MapPart` (`AInv`, but without `Control` in the second
stage, where the handler itself drives `emplace`), the loops' positions (`Cursors`), the
contents of the lists (`Lists`, `Sorting`, `CandidatesSorted`) and one aggregate per row
(`Aggregates`). It says nothing of where slots are: a table that was replaced over its
rows has lost them. `ValuesConserved` is shown step by step: each callback moves a row
from "on its way" to "added" and its value with it, wrapped sums included. `DInv`, for
the driver, brings back `PathsInv` and has a group for each row of the slices done
(`SlicesInv`, `SlicesDone`), `KeptFor` of the driver's keys, and slots for a whole slice from the first
on, so that later presizings change nothing: with hashes that differ where keys do, no
candidate ever differs (`NoneDiffers`), and the second stage has nothing to do.

### The C++ pipeline: `Pipeline_proofs`

For any caller, any batches and any shared hashes:

- `CppHandlerTypeCorrect`: `HandlerTypeOK`;
- `CppRoomAhead`: `CppRoomToProbe`. The load is tested late, at a full chunk, and the direct
  insertion into a small table does not test it at all; yet what is full to the last slot is over
  the threshold as well, and the chunk a probe meets there is full, so that it grows;
- `CppValuesKept`, `CppChecksumRight`: `ValuesConserved` and `ChecksumRight`, if no retry drops a
  row (finding 1). What was passed in is added up key by key, for finitely many keys;
- `CppGroupsRight`: `GroupsRight`, if no retry drops a row and at most one column is a varchar
  (`~UseMerged`). With two, finding 3 gives keys second groups here too, and there is no
  "only group" of a key to be named.

and for the C++ driver:

- `CppReportsRight`: `ResultRight` if no retry drops a row, for a table of any size and through
  its expansions, and however keys are compared: its second stage has nothing to look up;
- `CppDriversReport`, `CppDriversCount`: where the table made has room for the driver's keys
  (`DriversHaveRoom`: `HasRoomFor` of each number of keys that may come; with the code's
  constants, from 29 keys on), nothing is dropped because nothing expands, and `ResultRight`,
  `TableKept`, `ValuesConserved`, `GroupsRight` and `ChecksumRight` hold without those conditions.

`CppInv` is the Rust handler's `StagesInv` with what differs. The second stage writes the
groups it finds over the candidates, so `CandidatesSorted` cannot hold until it ends:
`CppSorted` says it of the rows still to be visited, and `GroupsTold` that every row that is
through has a group of its key. `TableInv` is the part of the table's invariant that survives second
groups: one slot for each row (`NoneLost`, `NoneTwice`) and the count (`Counted`), half way
through a rehash too. It has no `Placed` and no `KeysDistinct`; `CppGroupsRight` brings them back,
with `PathsInv`, where they hold. The checksum goes over slots and
`ValuesConserved` over the groups of a key; by `NoneLost` and `NoneTwice` the slots are
a one-to-one naming of the rows, and the sum over the rows is the sum, over the keys,
of the sums of their groups.

### What stays with TLC

- *Liveness* (`EmplaceReturns`, `BatchReturns`, `SimdReturns`, `HandlerReturns`,
  `CppHandlerReturns`): temporal
  proofs under fairness, and `ENABLED`, are out of the prover's reach. `TriesEnd` is
  the safety half of `EmplaceReturns`.
- `IteratorRight` and `TryEmplaceRight`, about the words of `BitMask`: the module for bitwise
  operations is recursive, and the prover takes no recursive operator.

Recursive functions are no obstacle: sums, passes and layouts are written as
functions on the naturals. The library's induction theorems take an operator, which
the provers cannot instantiate; `NatInd` of `DataFacts` takes a set instead (a set of
naturals with 0 that is closed under adding one is `Nat`) and is proved from the
well-foundedness of `<`.

## 5. Findings

Each is what a run with `expect: violation` shows.

1. `taper_hashmap.rs:368`: after an expansion in a batch the waiting rows are
   tried once, at home, and the result is ignored. The comment calls it
   "guaranteed to succeed post-expand"; with more rows for one home chunk than
   it has slots, rows are dropped. `micro_functions_bench` sizes its table without a
   margin (`micro_functions_bench.rs:165`), so its probe case does expand in the
   middle of its only batch; the other drivers never expand a table.
2. `taper_hashmap.rs:557`: two rows of one `emplace_batch_simd` batch with the
   same new key both miss in the lookup stage and each creates a group. Two keys of
   one hash fail in a similar way: only the first slot with the hash is compared,
   and a row whose group is in another slot gets a new one. The instance has
   both kinds of batch, and each alone violates the property. The run with
   distinct hashes states the condition under which the function is right.
3. `column_marshaller.rs:311`: with two or more varchar key columns only the first
   one's slot holds a pointer, the key comparison of step 5 wants one in each,
   and a row that shares its hash with another key gets a new group each time.
4. `column_marshaller.rs:384`: a batch with more rows than the map has slots
   replaces the map but not the rows, and known keys get second groups.

The pipeline's passing runs are instances in which none of these happens: one
varchar column, a map with room for a batch, no more rows at a home than the
doubled table takes there. `ValuesConserved` would fail where rows are dropped.
The drivers, as they are, meet neither 3 nor 4 (`ResultRight`, `TableKept`):
hashes of different keys differ, so that no row is ever left for step 5, and a
map smaller than a batch is replaced while it is empty. The instance has one
varchar column; the number of them matters in step 5 only.

## 6. What is not modelled

- Prefetches, memory alignment, `Drop`: no effect on contents.
- `SimpleArenaAllocator::Reset`, `AllocateContinue` and the byte totals of the C++
  arena: used nowhere in the repository.
- Overflow of a C++ aggregate, which is undefined behaviour: the values there
  are small.
- C++ `EmplaceBatch`'s filter: constantly false at its use.
- Of the drivers: command lines, timing, random numbers, and the cases that only
  compute positions, prefetch, or load words and add them up
  (`emplace_breakdown_bench` and `step_by_step_bench` consist mostly of these).
  `bench_accumulate` also adds up every intermediate aggregate; what is modelled
  is the aggregates themselves.
- The free functions `get_unequals_num_with_decode` and `build_merged_varchar_cache`:
  the pipeline runs its own copies of both, and those are what `SerializeHandler` models.
  The C++ loops over the map or the container alone repeat the Rust ones.
- The contents of strings beyond what tells two of one length apart.

## 7. Plan

In order of importance; done parts are described above.

1. Done: the table, its expansion, single-row and batch insertion, `TypeCorrect`,
   `OneGroup`, `OwnGroupOnly`, `SlotsKept`.
2. Done: the two pipelines, the comparison, the row container.
3. Done: the drivers' workloads, their slices and table sizes, composed with the
   map, both pipelines and the row container; a chunk's own `try_emplace`; wrapped sums.
4. Done, proofs: all invariants and action properties of the passing runs of the map,
   its batches, the drivers' tables, the comparison, the row container and both
   pipelines, and the refinement of `GroupTable` (section 4).
5. Open: `BitMask`'s words, and liveness, which TLC alone checks (section 4); and the C++
   arena's `Reset` and byte totals, should the repository come to use them.

---------------------------- MODULE TaperHashMap ----------------------------
(***************************************************************************)
(* TaperHashMap::emplace of rust/src/taper_hashmap.rs, one row per call,    *)
(* with the callbacks its users give it: key_cmp compares the row's key     *)
(* with the row a slot points to, on_init stores a new row and writes its   *)
(* number to the slot, on_update receives the slot.                         *)
(***************************************************************************)
EXTENDS TaperExpand

CONSTANTS
    Keys,      \* the group-by keys of the input
    HashOf,    \* [Keys -> Nat]; different keys may have the same hash
    Requests   \* the arguments of with_capacity

ASSUME HashAssumption == HashOf \in [Keys -> Nat]
ASSUME CapacityAssumption == Requests \subseteq 0 .. MOST_CHUNKS

VARIABLES
    rows,             \* the rows on_init has stored, as their keys
    row,              \* the key of the row being processed
    pos,              \* emplace's chunk position
    collision_batch,  \* emplace's collision counter
    result            \* what the last on_update was given

emplaceVars == <<rows, row, pos, collision_batch, result>>
vars == <<tableVars, rehashVars, pc, emplaceVars>>

NoResult == [value |-> 0, is_new |-> FALSE]

Init ==
    /\ \E r \in Requests : ExpandInit(WithCapacity(r))
    /\ pc = "idle"
    /\ rows = <<>>
    /\ row \in Keys
    /\ pos = 0 /\ collision_batch = 1
    /\ result = NoResult

(* Mutant: equal hashes pass for equal keys. *)
KeyMatches_hash_only(chunk, k) == HashMatches(chunk, HashOf[k])

(* key_cmp after the tag and hash match; the first hit in slot order wins. *)
KeyMatches(chunk, k) == {s \in HashMatches(chunk, HashOf[k]) : rows[chunk[s].value] = k}

(***************************************************************************)
(* A call of emplace for a row with key k.  The load is tested before the   *)
(* lookup, so a call that finds its key may grow the table as well.         *)
(***************************************************************************)
Emplace(k) ==
    /\ pc = "idle"
    /\ row' = k
    /\ \/ /\ ShouldExpand(num_chunks, size)
          /\ StartExpand("locate")
       \/ /\ ~ShouldExpand(num_chunks, size)
          /\ pc' = "locate"
          /\ UNCHANGED <<tableVars, rehashVars>>
    /\ UNCHANGED <<rows, pos, collision_batch, result>>

Locate ==
    /\ pc = "locate"
    /\ pos' = ChunkPos(num_chunks, HashOf[row])
    /\ collision_batch' = 1
    /\ pc' = "probe"
    /\ UNCHANGED <<tableVars, rehashVars, rows, row, result>>

(***************************************************************************)
(* One try of emplace, where M are the slots of the chunk at pos that       *)
(* key_cmp accepts.                                                         *)
(***************************************************************************)
FoundIn(M) ==
    /\ pc = "probe"
    /\ \E s \in Slots :
         /\ IsLowest(s, M)
         /\ result' = [value |-> chunks[pos][s].value, is_new |-> FALSE]
    /\ pc' = "idle"
    /\ UNCHANGED <<tableVars, rehashVars, rows, row, pos, collision_batch>>

InsertUnless(M) ==
    /\ pc = "probe"
    /\ M = {}
    /\ \E s \in Slots :
         /\ IsLowest(s, MatchEmpty(chunks[pos]))
         /\ chunks' = Fill(chunks, pos, s, HashOf[row], Len(rows) + 1)
    /\ rows' = Append(rows, row)
    /\ result' = [value |-> Len(rows) + 1, is_new |-> TRUE]
    /\ size' = size + 1
    /\ pc' = "idle"
    /\ UNCHANGED <<num_chunks, rehashVars, row, pos, collision_batch>>

(* Mutant: every try starts over at the home position. *)
NextUnless_restart(M) ==
    /\ pc = "probe"
    /\ M = {}
    /\ IsFull(chunks[pos])
    /\ pos' = ChunkPos(num_chunks, HashOf[row])
    /\ collision_batch' = 1
    /\ UNCHANGED <<tableVars, rehashVars, pc, rows, row, result>>

NextUnless(M) ==
    /\ pc = "probe"
    /\ M = {}
    /\ IsFull(chunks[pos])
    /\ pos' = RehashPos(num_chunks, collision_batch, pos)
    /\ collision_batch' = collision_batch + 1
    /\ UNCHANGED <<tableVars, rehashVars, pc, rows, row, result>>

ProbeFound == FoundIn(KeyMatches(chunks[pos], row))
ProbeInsert == InsertUnless(KeyMatches(chunks[pos], row))
ProbeNext == NextUnless(KeyMatches(chunks[pos], row))

EmplaceStep == Locate \/ ProbeFound \/ ProbeInsert \/ ProbeNext

(* The steps of the map itself, as opposed to the calls made to it. *)
Step == (ExpandStep /\ UNCHANGED emplaceVars) \/ EmplaceStep

Next == (\E k \in Keys : Emplace(k)) \/ Step

Spec == Init /\ [][Next]_vars
FairSpec == Spec /\ WF_vars(Step)
-----------------------------------------------------------------------------
(* Properties. *)

(* The table has one chunk per position, and every local has its range. *)
TypeOK ==
    /\ num_chunks \in Nat \ {0}
    /\ chunks \in [0 .. num_chunks - 1 -> [Slots -> Slot]]
    /\ size \in Nat
    /\ todo \cup collided \subseteq DOMAIN entries
    /\ entries \in [DOMAIN entries -> Slot]
    /\ positions \in [DOMAIN entries -> 0 .. num_chunks - 1]
    /\ rehash_batch \in Nat \ {0}
    /\ pc \in {"idle", "locate", "probe", "rehash"}
    /\ after \in {"idle", "locate"}
    /\ rows \in Seq(Keys)
    /\ row \in Keys
    /\ pos \in Nat /\ (pc = "probe" => pos < num_chunks)
    /\ collision_batch \in Nat \ {0}
    /\ result \in [value : Nat, is_new : BOOLEAN]

(***************************************************************************)
(* A used slot lies on the probe sequence of its hash, and only full chunks *)
(* come before it: emplace, which stops at the first chunk with room, can   *)
(* find it.  Holds between the calls and half way through a rehash.         *)
(***************************************************************************)
Reachable ==
    \A l \in Occupied(chunks) :
        \E k \in 0 .. num_chunks - 1 :
            /\ l[1] = Probe(num_chunks, At(chunks, l).key, k)
            /\ FullBefore(chunks, num_chunks, At(chunks, l).key, k)

(***************************************************************************)
(* The table holds every row that was stored and holds it once, also while  *)
(* expand has taken the old chunks apart, and no two rows have one key.     *)
(***************************************************************************)
OneGroupPerKey ==
    /\ {e.value : e \in Held} = 1 .. Len(rows)
    /\ \A l, m \in Occupied(chunks) :
          At(chunks, l).value = At(chunks, m).value => l = m
    /\ \A l, m \in Pending : entries[l].value = entries[m].value => l = m
    /\ \A l \in Occupied(chunks), m \in Pending : At(chunks, l).value # entries[m].value
    /\ \A i, j \in DOMAIN rows : rows[i] = rows[j] => i = j

(***************************************************************************)
(* size is the number of slots in use, also during a rehash, where every    *)
(* entry read from the old chunks is either counted again or still pending. *)
(***************************************************************************)
SizeExact ==
    /\ size = Cardinality(Occupied(chunks))
    /\ size + Cardinality(Pending) = Len(rows)

(***************************************************************************)
(* The load bound that ends every probe: emplace starts its search in a     *)
(* table with an empty slot, and expand leaves one half empty.              *)
(***************************************************************************)
RoomToProbe ==
    /\ pc \in {"locate", "probe"} => size < Capacity(num_chunks)
    /\ pc = "rehash" => 2 * (size + Cardinality(Pending)) <= Capacity(num_chunks)

(***************************************************************************)
(* Neither a search nor the rounds of a rehash try a chunk twice: the probe *)
(* sequence reaches every chunk before it repeats one, so that the loops,   *)
(* which have no bound of their own, find room by the last chunk.           *)
(***************************************************************************)
TriesBounded ==
    /\ pc = "probe" => collision_batch <= num_chunks
    /\ pc = "rehash" => rehash_batch <= num_chunks

(***************************************************************************)
(* The callbacks of a call get the group of the call's own key: a match of  *)
(* tag and hash alone is not taken for a match of keys.                     *)
(***************************************************************************)
OwnGroup ==
    pc = "idle" /\ result # NoResult => rows[result.value] = row

(* No step of an insertion or of a rehash overwrites a slot in use. *)
UsedSlotsKept ==
    [][num_chunks' = num_chunks =>
         \A l \in Occupied(chunks) : At(chunks', l) = At(chunks, l)]_vars

(* Seen from its callers the map is a table of groups. *)
Groups == INSTANCE GroupTable WITH
    groups <- {[key |-> rows[e.value], id |-> e.value] : e \in Held},
    request <- row,
    busy <- (pc # "idle"),
    reply <- result
FindsOrCreates == Groups!Spec

(***************************************************************************)
(* A call returns: the probe sequence reaches a chunk with room and every   *)
(* round of a rehash places something sooner or later.                      *)
(***************************************************************************)
EmplaceReturns == pc # "idle" ~> pc = "idle"
=============================================================================

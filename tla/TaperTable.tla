----------------------------- MODULE TaperTable -----------------------------
(***************************************************************************)
(* The data of the chunked open-addressing table of                        *)
(* rust/src/taper_hashmap.rs, rust/src/chunk.rs and rust/src/bitmask.rs:    *)
(* chunks of SLOTS_PER_CHUNK slots, a 7-bit tag per slot, the SWAR lookups  *)
(* of a chunk, the home position of a hash and its probe sequence.  The     *)
(* modules that change a table extend this one.                             *)
(***************************************************************************)
EXTENDS Naturals, FiniteSets, Sequences

CONSTANTS
    SLOTS_PER_CHUNK,     \* slots of a chunk (8 in the code)
    TAG_DIV,             \* the tag is taken above this bit: 2^16 in the code
    TAG_MOD,             \* number of tags: 2^7 in the code
    LOAD_NUM, LOAD_DEN,  \* LOAD_FACTOR_THRESHOLD = LOAD_NUM / LOAD_DEN (9/10)
    LOAD_SLACK           \* 0 in the Rust table; LOAD_DEN - 1 where the threshold
                         \* is rounded down to an integer, as in the C++ table

ASSUME TableAssumption ==
    /\ SLOTS_PER_CHUNK \in Nat \ {0}
    /\ TAG_DIV \in Nat \ {0}
    /\ TAG_MOD \in Nat \ {0}

(* The tags pair up under XOR 1, which leads none of them to the empty mark. *)
ASSUME TagAssumption == TAG_MOD % 2 = 0

ASSUME LoadAssumption ==
    /\ LOAD_DEN \in Nat \ {0}
    /\ LOAD_NUM \in 1 .. LOAD_DEN
    /\ LOAD_SLACK \in 0 .. LOAD_DEN - 1

Slots == 0 .. SLOTS_PER_CHUNK - 1

(* One past the tags of the hashes: 0x80 in the code. *)
EMPTY_TAG == TAG_MOD

(***************************************************************************)
(* A slot.  The key is the whole hash, the value the 48-bit row pointer,    *)
(* here the number of the row.  An allocation fills every byte with         *)
(* EMPTY_TAG, keys and values included, so only the tag tells an empty slot *)
(* from a used one.                                                         *)
(***************************************************************************)
Slot == [tag : Nat, key : Nat, value : Nat]
EmptySlot == [tag |-> EMPTY_TAG, key |-> EMPTY_TAG, value |-> EMPTY_TAG]

EmptyChunk == [s \in Slots |-> EmptySlot]
AllocChunks(n) == [c \in 0 .. n - 1 |-> EmptyChunk]

(* The bound of the requested sizes: 2 ^ 20 chunks. *)
MOST_CHUNKS == 1048576

(* num_chunks.max(1).next_power_of_two(), for requests up to MOST_CHUNKS *)
NextPowerOfTwo(n) ==
    CHOOSE p \in {2 ^ e : e \in 0 .. 20} :
        /\ p >= n
        /\ \A e \in 0 .. 20 : 2 ^ e >= n => p <= 2 ^ e
WithCapacity(request) == NextPowerOfTwo(request)
WithSlotCapacity(min_slots) ==
    WithCapacity(NextPowerOfTwo((min_slots + SLOTS_PER_CHUNK - 1) \div SLOTS_PER_CHUNK))

Capacity(n) == n * SLOTS_PER_CHUNK
(* Mutant: the table is only doubled once it is more than full. *)
ShouldExpand_late(n, sz) == sz > Capacity(n)

ShouldExpand(n, sz) == LOAD_DEN * sz + LOAD_SLACK >= LOAD_NUM * Capacity(n)

-----------------------------------------------------------------------------
(* Hashes and positions. *)

(* Mutant: the tag without its mask, which can look like an empty slot. *)
TagHash_unmasked(h) == h \div TAG_DIV

TagHash(h) == (h \div TAG_DIV) % TAG_MOD
ChunkPos(n, h) == h % n
(* Mutant: the next position without the mask. *)
RehashPos_unmasked(n, collision_batch, pos) == pos + collision_batch

(* Mutant: steps of twice the length, which pass over half of the chunks. *)
RehashPos_doubled(n, collision_batch, pos) == (pos + 2 * collision_batch) % n

RehashPos(n, collision_batch, pos) == (pos + collision_batch) % n

(***************************************************************************)
(* The chunk that k failed tries of ChunkPos then RehashPos(1), (2), ...    *)
(* lead to, in closed form: the k-th step is k long.                        *)
(***************************************************************************)
Triangle(k) == (k * (k + 1)) \div 2
Probe(n, h, k) == (h + Triangle(k)) % n

-----------------------------------------------------------------------------
(* Lookups of one chunk. *)

(* t XOR 1 *)
Neighbour(t) == IF t % 2 = 0 THEN t + 1 ELSE t - 1

(* Mutant: only the first slot with the tag is reported. *)
MatchTag_first(chunk, target) ==
    {s \in Slots : /\ chunk[s].tag = target
                   /\ \A r \in 0 .. s - 1 : chunk[r].tag # target}

(***************************************************************************)
(* BitMask::match_tag.  Subtracting 1 from every byte of tags XOR target    *)
(* borrows through a zero byte, so a run of tags equal to target XOR 1 just *)
(* above a true match is reported too.                                      *)
(***************************************************************************)
MatchTag(chunk, target) ==
    {s \in Slots :
        \/ chunk[s].tag = target
        \/ /\ chunk[s].tag = Neighbour(target)
           /\ \E r \in 0 .. s - 1 :
                 /\ chunk[r].tag = target
                 /\ \A q \in r + 1 .. s : chunk[q].tag \in {target, Neighbour(target)}}

(* Mutant: the key's filling is taken for the sign of an empty slot. *)
MatchEmpty_key(chunk) == {s \in Slots : chunk[s].key = EMPTY_TAG}

MatchEmpty(chunk) == {s \in Slots : chunk[s].tag = EMPTY_TAG}

(* BitMask's iterator yields the lowest slot first. *)
IsLowest(s, S) == s \in S /\ \A t \in S : s <= t

(* Tag match, then the comparison of the whole hash. *)
HashMatches(chunk, h) == {s \in MatchTag(chunk, TagHash(h)) : chunk[s].key = h}

(* A table with slot s of chunk c taken for hash h and row v. *)
Fill(chunks, c, s, h, v) ==
    [chunks EXCEPT ![c][s] = [tag |-> TagHash(h), key |-> h, value |-> v]]

-----------------------------------------------------------------------------
(* Readings of a table that the properties use. *)

IsFull(chunk) == MatchEmpty(chunk) = {}

(* The slots in use, as <<chunk, slot>>. *)
Occupied(chunks) ==
    {l \in (DOMAIN chunks) \X Slots : chunks[l[1]][l[2]].tag # EMPTY_TAG}

At(chunks, l) == chunks[l[1]][l[2]]

(***************************************************************************)
(* The k-th chunk of h's probe sequence is only passed when the chunks      *)
(* before it are full.                                                      *)
(***************************************************************************)
FullBefore(chunks, n, h, k) == \A j \in 0 .. k - 1 : IsFull(chunks[Probe(n, h, j)])
=============================================================================

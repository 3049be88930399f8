----------------------------- MODULE ChunkSlots -----------------------------
(***************************************************************************)
(* Chunk of rust/src/chunk.rs: Chunk::new and Chunk::try_emplace, walked    *)
(* through match by match on the words of BitMask.  key_cmp is == on the    *)
(* keys, which are the hashes, as in the map.                               *)
(***************************************************************************)
EXTENDS BitMask

CONSTANTS
    TAG_DIV,    \* the tag is taken above this bit: 2^16 in the code
    Hashes      \* the hashes a caller may put into the chunk

ASSUME ChunkAssumption == TAG_DIV \in Nat \ {0} /\ Hashes \subseteq Nat

VARIABLES
    keys,     \* per slot; the tags are those of BitMask
    pc,       \* "word": an iterator of its own; else where try_emplace is
    hash,     \* the argument of the current call
    result    \* what the last call returned and told on_update

chunkVars == <<vars, keys, pc, hash, result>>

NoCall == [ok |-> TRUE, is_new |-> FALSE, slot |-> -1]
Failed == [ok |-> FALSE, is_new |-> FALSE, slot |-> -1]
TagHash(h) == (h \div TAG_DIV) % MSB

(* Chunk::new: empty tags over keys of zero, which is also a hash. *)
NewChunk ==
    /\ tags = [s \in Lanes |-> MSB] /\ keys = [s \in Lanes |-> 0]
    /\ query = MSB /\ mask = 0 /\ yielded = <<>>
    /\ pc = "idle" /\ hash = 0 /\ result = NoCall

(* Any chunk's tags, for the lookups alone. *)
AnyWord ==
    /\ Init
    /\ keys = [s \in Lanes |-> 0] /\ pc = "word" /\ hash = 0 /\ result = NoCall

ChunkInit == NewChunk \/ AnyWord

TryEmplace(h) ==
    /\ pc = "idle"
    /\ hash' = h /\ pc' = "match"
    /\ query' = TagHash(h)
    /\ mask' = MatchTagWord(FromBytes(tags), TagHash(h)) /\ yielded' = <<>>
    /\ UNCHANGED <<tags, keys, result>>

(* The iterator is dropped where the call returns. *)
Reply(r) ==
    /\ result' = r /\ pc' = "idle"
    /\ query' = MSB /\ mask' = 0 /\ yielded' = <<>>
    /\ UNCHANGED hash

KeyEquals ==
    /\ pc = "match" /\ mask # 0
    /\ keys[Lowest(mask)] = hash
    /\ Reply([ok |-> TRUE, is_new |-> FALSE, slot |-> Lowest(mask)])
    /\ UNCHANGED <<tags, keys>>

KeyDiffers ==
    /\ pc = "match" /\ mask # 0
    /\ keys[Lowest(mask)] # hash
    /\ IterNext
    /\ UNCHANGED <<keys, pc, hash, result>>

(* Mutant: the first match decides. *)
NoMatch_first ==
    /\ pc = "match" /\ IF mask = 0 THEN TRUE ELSE keys[Lowest(mask)] # hash
    /\ pc' = "empty" /\ query' = MSB
    /\ mask' = MatchEmptyWord(FromBytes(tags)) /\ yielded' = <<>>
    /\ UNCHANGED <<tags, keys, hash, result>>

NoMatch ==
    /\ pc = "match" /\ mask = 0
    /\ pc' = "empty" /\ query' = MSB
    /\ mask' = MatchEmptyWord(FromBytes(tags)) /\ yielded' = <<>>
    /\ UNCHANGED <<tags, keys, hash, result>>

TakeSlot ==
    /\ pc = "empty" /\ mask # 0
    /\ LET s == Lowest(mask) IN
         /\ tags' = [tags EXCEPT ![s] = TagHash(hash)]
         /\ keys' = [keys EXCEPT ![s] = hash]
         /\ Reply([ok |-> TRUE, is_new |-> TRUE, slot |-> s])

ChunkFull ==
    /\ pc = "empty" /\ mask = 0
    /\ Reply(Failed)
    /\ UNCHANGED <<tags, keys>>

IterateWord == pc = "word" /\ IterNext /\ UNCHANGED <<keys, pc, hash, result>>

ChunkNext ==
    \/ \E h \in Hashes : TryEmplace(h)
    \/ KeyEquals \/ KeyDiffers \/ NoMatch \/ TakeSlot \/ ChunkFull
    \/ IterateWord

ChunkSpec == ChunkInit /\ [][ChunkNext]_chunkVars
-----------------------------------------------------------------------------
(* Properties. *)

Used == {s \in Lanes : tags[s] # MSB}
HeldHashes == {keys[s] : s \in Used}

(***************************************************************************)
(* While an iterator is in use, on the word of any chunk or within a call,  *)
(* it yields what the slot-by-slot reading of the lookup names.             *)
(***************************************************************************)
IteratorRight == pc # "idle" => YieldsMatches

(* The end of a call, seen beside the chunk it started from. *)
Told ==
    pc \in {"match", "empty"} /\ pc' = "idle" =>
        /\ result'.is_new <=> (result'.ok /\ hash \notin HeldHashes)
        /\ HeldHashes' = HeldHashes \cup (IF result'.ok THEN {hash} ELSE {})

(***************************************************************************)
(* try_emplace makes the chunk a set of at most LANES hashes: each has one  *)
(* slot however many tags, or neighbours of a tag, match before it; a call  *)
(* fails only on a full chunk that does not hold the hash, and on_update is *)
(* told a slot is new exactly when the hash was not in the chunk.           *)
(***************************************************************************)
TryEmplaceRight ==
    /\ [](pc = "idle" =>
            /\ Cardinality(HeldHashes) = Cardinality(Used)
            /\ result.slot # -1 => result.slot \in Used /\ keys[result.slot] = hash
            /\ ~result.ok => Used = Lanes /\ hash \notin HeldHashes)
    /\ [][Told]_chunkVars
=============================================================================

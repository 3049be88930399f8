------------------------------- MODULE BitMask -------------------------------
(***************************************************************************)
(* rust/src/bitmask.rs: the SWAR lookups of a chunk's tags and the iterator *)
(* over the matches, on words of LANES lanes of LANE_BITS bits (8 and 8 in  *)
(* the code).  It justifies MatchTag, MatchEmpty and IsLowest of TaperTable, *)
(* which say what these words mean slot by slot.                            *)
(***************************************************************************)
EXTENDS Integers, Sequences, FiniteSets, Bitwise

CONSTANTS LANES, LANE_BITS

ASSUME LanesAssumption == LANES \in Nat \ {0} /\ LANE_BITS \in Nat \ {0, 1}

LOCAL INSTANCE FiniteSetsExt

Lanes == 0 .. LANES - 1
WORD == 2 ^ (LANES * LANE_BITS)       \* words are 0 .. WORD - 1
MSB == 2 ^ (LANE_BITS - 1)            \* 0x80, also the empty tag

(* The word with byte b[i] in lane i, lane 0 lowest: u64::from_le_bytes. *)
FromBytes(b) == MapThenSumSet(LAMBDA i : b[i] * 2 ^ (LANE_BITS * i), Lanes)
MSBS == FromBytes([i \in Lanes |-> MSB])
LSBS == FromBytes([i \in Lanes |-> 1])

Complement(x) == WORD - 1 - x
WrappingSub(x, y) == (x - y + WORD) % WORD
WrappingMul(x, y) == (x * y) % WORD
ShiftLeft(x, n) == (x * 2 ^ n) % WORD

MatchTagWord(word, tag) ==
    LET x == word ^^ WrappingMul(LSBS, tag)
    IN  (WrappingSub(x, LSBS) & Complement(x)) & MSBS

(* The lookup bench_match_tag of emplace_breakdown_bench times: no borrow   *)
(* from one lane to the next.                                               *)
BenchMatchTagWord(word, tag) ==
    LET x == word ^^ WrappingMul(LSBS, tag)
        below == Complement(MSBS)
    IN  Complement(((((x & below) + below) % WORD) | x) | below)

MatchEmptyWord_shift(word) ==        \* one bit too far
    (word & ShiftLeft(Complement(word), LANE_BITS)) & MSBS

MatchEmptyWord(word) == (word & ShiftLeft(Complement(word), LANE_BITS - 1)) & MSBS

TrailingZeros(x) == CHOOSE n \in 0 .. LANES * LANE_BITS - 1 :
                        x % 2 ^ n = 0 /\ x % 2 ^ (n + 1) # 0
Lowest(mask) == TrailingZeros(mask) \div LANE_BITS
Advance(mask) == mask & (mask - 1)

(* (self.0 >> 7).count_ones() *)
CountOnes(x) == Cardinality({n \in 0 .. LANES * LANE_BITS - 1 : (x \div 2 ^ n) % 2 = 1})
Count(mask) == CountOnes(mask \div 2 ^ (LANE_BITS - 1))

VARIABLES
    tags,      \* the tag bytes of a chunk
    query,     \* the tag looked for, or MSB for match_empty
    mask,      \* what is left of the iterator
    yielded    \* the slots it has produced

vars == <<tags, query, mask, yielded>>

Init ==
    /\ tags \in [Lanes -> 0 .. MSB]
    /\ query \in 0 .. MSB
    /\ mask = IF query = MSB THEN MatchEmptyWord(FromBytes(tags))
                             ELSE MatchTagWord(FromBytes(tags), query)
    /\ yielded = <<>>

(* Iterator::next *)
IterNext ==
    /\ mask # 0
    /\ yielded' = Append(yielded, Lowest(mask))
    /\ mask' = Advance(mask)
    /\ UNCHANGED <<tags, query>>

Spec == Init /\ [][IterNext]_vars
-----------------------------------------------------------------------------
(* Properties. *)

Table == INSTANCE TaperTable WITH
    SLOTS_PER_CHUNK <- LANES, TAG_MOD <- MSB, TAG_DIV <- 1,
    LOAD_NUM <- 9, LOAD_DEN <- 10, LOAD_SLACK <- 0

Chunk == [s \in Lanes |-> [tag |-> tags[s]]]
Expected == IF query = MSB THEN Table!MatchEmpty(Chunk) ELSE Table!MatchTag(Chunk, query)
Yielded == {yielded[i] : i \in DOMAIN yielded}

(***************************************************************************)
(* The iterator yields the slots the slot-by-slot reading names, false      *)
(* matches included, each once and the lowest first, and count is right.    *)
(* The lookup the benchmark times is another one, without false matches.    *)
(***************************************************************************)
YieldsMatches ==
    /\ Yielded \subseteq Expected
    /\ \A i, j \in DOMAIN yielded : i < j => yielded[i] < yielded[j]
    /\ Count(mask) = Cardinality(Expected \ Yielded)
    /\ mask = 0 => Yielded = Expected
    /\ query # MSB =>
          BenchMatchTagWord(FromBytes(tags), query) =
            MapThenSumSet(LAMBDA s : MSB * 2 ^ (LANE_BITS * s), {s \in Lanes : tags[s] = query})
=============================================================================

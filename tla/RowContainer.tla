---------------------------- MODULE RowContainer ----------------------------
(***************************************************************************)
(* RowContainer of rust/src/row_container.rs and the rows the marshaller    *)
(* stores in it: the layout of a row, rows taken from blocks of BLOCK_ROWS, *)
(* the varchar block of each row from the same arena, and the checksum's    *)
(* walk over the row blocks.                                                *)
(***************************************************************************)
EXTENDS Arena, VarcharFormat

CONSTANTS
    BLOCK_ROWS,         \* 1024 in the code
    VARCHAR_SLOT_SIZE,  \* 8
    NULL_BITS,          \* null bits per byte, 8
    Layouts,            \* the key_sizes of the tables built; 0 for a varchar
    AggStateSize,
    Strings,            \* varchar values, lengths below 2^32
    MaxRows

ASSUME ContainerAssumption ==
    /\ BLOCK_ROWS \in Nat \ {0} /\ VARCHAR_SLOT_SIZE \in Nat \ {0}
    /\ NULL_BITS \in Nat \ {0}
    /\ Layouts \subseteq Seq(Nat) \ {<<>>}
    /\ AggStateSize \in Nat \ {0} /\ MaxRows \in Nat

(* A null is no string, and a string without bytes is the empty one. *)
ASSUME StringsAssumption ==
    \A s \in Strings : s # None /\ s.len \in Nat /\ (s.len = 0 => s = Empty)

VARIABLES
    key_sizes,          \* of this container
    row_blocks,         \* the blocks' addresses
    batch_remaining,    \* rows left in the last block
    rows,               \* address, varchar pointer and null bits of each row
    mem,                \* the varchar entries in the arena
    stored              \* the values each row was stored with

vars == <<arenaVars, key_sizes, row_blocks, batch_remaining, rows, mem, stored>>

-----------------------------------------------------------------------------
(* with_kinds: the layout. *)

ColumnSize(c) == IF key_sizes[c] = 0 THEN VARCHAR_SLOT_SIZE ELSE key_sizes[c]
NumKeys == Len(key_sizes)
VarcharColumns == {c \in 1 .. NumKeys : key_sizes[c] = 0}
Offset(c) == SumTo([d \in 1 .. NumKeys |-> ColumnSize(d)], c - 1)
NullBlockStart == Offset(NumKeys + 1)

NullBytes == (NumKeys + NULL_BITS - 1) \div NULL_BITS
NullByte(c) == NullBlockStart + (c - 1) \div NULL_BITS
AggStateOffset == NullBlockStart + NullBytes
RowSize == AggStateOffset + AggStateSize

Init ==
    /\ ArenaInit
    /\ key_sizes \in Layouts
    /\ row_blocks = <<>> /\ batch_remaining = 0
    /\ rows = <<>> /\ mem = <<>> /\ stored = <<>>

-----------------------------------------------------------------------------
Apart(at1, size1, at2, size2) == at1 + size1 <= at2 \/ at2 + size2 <= at1

(* The entries that writing to a region leaves as they are. *)
Spared(m, chunk, at, size) ==
    {a \in DOMAIN m : a[1] # chunk \/ Apart(a[2], Written(m[a].data), at, size)}

WriteBlock(m, block, values) ==
    LET size == TotalSize(values)
        kept == Spared(m, block.chunk, block.at, size)
        written == {<<<<block.chunk, block.at + w[1]>>, w[2]>> : w \in BlockEntries(values)} IN
    [a \in kept \cup {w[1] : w \in written} |->
        IF a \in kept THEN m[a] ELSE (CHOOSE w \in written : w[1] = a)[2]]

(* Mutant: a block is used from its end. *)
RowIndex_backwards(remaining) == remaining - 1

RowIndex(remaining) == BLOCK_ROWS - remaining
RowOf(block, i) == [block EXCEPT !.at = @ + i * RowSize]

(***************************************************************************)
(* The address of the next row, and the arena and the memory after new_row: *)
(* a new block is taken when the last one is used up and filled with zeros. *)
(***************************************************************************)
NewBlock == batch_remaining = 0
BlockOfRow == IF NewBlock THEN Placed(RowSize * BLOCK_ROWS) ELSE row_blocks[Len(row_blocks)]
RemainingForRow == IF NewBlock THEN BLOCK_ROWS ELSE batch_remaining
ArenaAfterRow ==
    IF NewBlock THEN Allocated(Current, RowSize * BLOCK_ROWS) ELSE Current
MemAfterRow ==
    LET b == BlockOfRow
        kept == Spared(mem, b.chunk, b.at, RowSize * BLOCK_ROWS) IN
    IF NewBlock THEN [a \in kept |-> mem[a]] ELSE mem

(***************************************************************************)
(* on_init: new_row, then store_key_one_row_from_decode, which puts all     *)
(* varchars into one block and its address into the first varchar's slot.   *)
(***************************************************************************)
StoreRow(values) ==
    LET row == RowOf(BlockOfRow, RowIndex(RemainingForRow))
        size == TotalSize(values)
        block == PlacedIn(ArenaAfterRow, size) IN
    /\ Len(rows) < MaxRows
    /\ row_blocks' = IF NewBlock THEN Append(row_blocks, BlockOfRow) ELSE row_blocks
    /\ batch_remaining' = RemainingForRow - 1
    /\ rows' = Append(rows, [chunk |-> row.chunk, at |-> row.at, slot |-> block, room |-> size,
                             is_null |-> [v \in DOMAIN values |-> values[v] = None]])
    /\ BecomeArena(IF size = 0 THEN ArenaAfterRow ELSE Allocated(ArenaAfterRow, size))
    /\ mem' = WriteBlock(MemAfterRow, block, values)
    /\ stored' = Append(stored, values)
    /\ UNCHANGED key_sizes

(* The values of the varchar columns, one behind the other. *)
Varchars(S) == [1 .. Cardinality(VarcharColumns) -> S]

Next == \E values \in Varchars(Strings \cup {None}) : StoreRow(values)
Spec == Init /\ [][Next]_vars

BlockRows(remaining) == IF remaining < BLOCK_ROWS THEN remaining ELSE BLOCK_ROWS

(* The rows agg_i64_checksum reads, in order. *)
ChecksumRows ==
    LET walk[b \in 0 .. Len(row_blocks)] ==
            IF b = 0 THEN [seen |-> <<>>, remaining |-> Len(rows)]
            ELSE LET w == walk[b - 1]
                     n == BlockRows(w.remaining) IN
                 [seen |-> w.seen \o [i \in 1 .. n |-> RowOf(row_blocks[b], i - 1)],
                  remaining |-> w.remaining - n]
    IN walk[Len(row_blocks)].seen
-----------------------------------------------------------------------------
(* Properties. *)

Region(chunk, at, size) == [chunk |-> chunk, at |-> at, size |-> size]
Disjoint(S) ==
    \A g, h \in S : g # h /\ g.chunk = h.chunk => Apart(g.at, g.size, h.at, h.size)

(* The parts of a row, as regions of it. *)
Fields ==
    {Region(0, Offset(c), ColumnSize(c)) : c \in 1 .. NumKeys}
    \cup {Region(0, NullByte(c), 1) : c \in 1 .. NumKeys}
    \cup {Region(0, AggStateOffset, AggStateSize)}

Blocks == {i \in DOMAIN rows : rows[i].room > 0}
Regions ==
    {Region(rows[i].chunk, rows[i].at, RowSize) : i \in DOMAIN rows}
    \cup {Region(rows[i].slot.chunk, rows[i].slot.at, rows[i].room) : i \in Blocks}

(***************************************************************************)
(* Rows and varchar blocks share the arena and never a byte of it, nor do   *)
(* the fields of a row, and each lies inside its chunk: wherever the growth *)
(* rule stands, however large the request, however many null bits.          *)
(***************************************************************************)
RegionsApart ==
    /\ Disjoint(Fields) /\ Disjoint(Regions)
    /\ Cardinality(Regions) = Len(rows) + Cardinality(Blocks)
    /\ \A g \in Regions : g.chunk <= NumChunks /\ g.at + g.size <= chunk_sizes[g.chunk]

(***************************************************************************)
(* Every row goes on reading back as the strings it was stored with, column *)
(* by column, whatever nulls and lengths stand before it in its block and   *)
(* whatever was stored after it: each column's pointer compares equal to    *)
(* its own string and to no other.                                          *)
(***************************************************************************)
KeysReadBack ==
    \A i \in DOMAIN rows :
        LET found == WalkBlock(mem, rows[i].slot, rows[i].is_null) IN
        \A v \in DOMAIN stored[i], s \in Strings :
            CompareFromRow(found[v], s) <=> stored[i][v] = s
=============================================================================

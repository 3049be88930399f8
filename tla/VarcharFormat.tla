---------------------------- MODULE VarcharFormat ----------------------------
(***************************************************************************)
(* How varchar keys lie in the arena, from rust/src/column_marshaller.rs    *)
(* (the C++ marshaller writes the same format): [rowLenSize][length][bytes] *)
(* per value, the columns of a row one behind the other in one block.       *)
(*                                                                         *)
(* A value is its length and what tells it from others of that length; the  *)
(* memory maps the address of an entry's first byte to the entry.           *)
(***************************************************************************)
EXTENDS Sums, Sequences

None == [len |-> 0, bytes |-> "none"]      \* a null value, or a null pointer
Empty == [len |-> 0, bytes |-> "empty"]

(* Mutant: 256 bytes counted by one byte. *)
RowLenSize_late(len) == IF len <= 256 THEN 1 ELSE IF len <= 65535 THEN 2 ELSE 4

RowLenSize(len) == IF len <= 255 THEN 1 ELSE IF len <= 65535 THEN 2 ELSE 4

(* The low bytes of a length; all of it in four. *)
LowBytes(len, width) == IF width = 4 THEN len ELSE len % 256^width

(* An entry as it lies in memory, with the value's own bytes behind it. *)
NullMarker == [row_len_size |-> 0, string_len |-> 0, data |-> None]
Serialized(s) ==
    IF s = None THEN NullMarker
    ELSE [row_len_size |-> RowLenSize(s.len),
          string_len |-> LowBytes(s.len, RowLenSize(s.len)), data |-> s]

(* The room a value is given, and the bytes it is written to. *)
RoomFor(s) == IF s = None THEN 1 ELSE 1 + RowLenSize(s.len) + s.len
Written(s) == IF s = None THEN 1 ELSE 1 + RowLenSize(s.len) + s.len

TotalSize(values) == SumTo([v \in DOMAIN values |-> RoomFor(values[v])], Len(values))

(* What a reader takes an entry's size to be. *)
SerializedSize(e) == IF e.row_len_size = 0 THEN 1 ELSE 1 + e.row_len_size + e.string_len

CompareFromRow(e, input) ==
    /\ e.row_len_size # 0
    /\ e.string_len = input.len
    /\ e.string_len = 0 \/ e.data = input

(* The entries of a block with their distance from its start. *)
BlockEntries(values) ==
    LET size == [v \in DOMAIN values |-> Written(values[v])] IN
    {<<SumTo(size, v - 1), Serialized(values[v])>> : v \in DOMAIN values}

-----------------------------------------------------------------------------
(* An address nothing was written to holds no value. *)
EntryAt(mem, chunk, at) ==
    IF <<chunk, at>> \in DOMAIN mem THEN mem[<<chunk, at>>] ELSE NullMarker

(* The marker of a null. *)
NullStep == 1

(* get_all_merged_varchar_ptrs: the entries of a block, as the reader finds *)
(* them; is_null are the row's null bits.                                   *)
WalkBlock(mem, block, is_null) ==
    LET after[n \in 0 .. Len(is_null)] ==
            IF n = 0 THEN block.at
            ELSE LET at == after[n - 1] IN
                 at + (IF is_null[n] THEN NullStep
                       ELSE SerializedSize(EntryAt(mem, block.chunk, at)))
    IN [v \in DOMAIN is_null |->
           IF is_null[v] THEN NullMarker ELSE EntryAt(mem, block.chunk, after[v - 1])]
=============================================================================

----------------------------- MODULE MemoryWords -----------------------------
(***************************************************************************)
(* The words in which the code packs several numbers, and the overlapping   *)
(* reads by which it compares short strings: the six bytes of a row pointer *)
(* in a slot, the RowColumn word of a key column, InlineMemEqual of the C++ *)
(* marshaller.  The other modules have addresses, null bits and strings as  *)
(* values; RowContainer_proofs shows that nothing is lost in the words.     *)
(***************************************************************************)
EXTENDS Naturals, Sequences

TwoTo8 == 256
TwoTo16 == 65536
TwoTo24 == 16777216
TwoTo32 == 4294967296
TwoTo48 == 281474976710656

-----------------------------------------------------------------------------
(* SlotValue: a 64-bit address, of which a slot has four bytes and two.     *)

SetRowPtr(ptr) == [lo |-> ptr % TwoTo32, hi |-> (ptr \div TwoTo32) % TwoTo16]
GetRowPtr(bytes) == bytes.hi * TwoTo32 + bytes.lo

-----------------------------------------------------------------------------
(* RowColumn: offset, null byte and null mask of a column in one word.      *)

NullByteOf(bit, start) == start + (bit \div 8)
NullMaskOf(bit) == <<1, 2, 4, 8, 16, 32, 64, 128>>[(bit % 8) + 1]    \* 1 << (bit & 7)

(* The fields do not overlap while the null byte is below 2^24, and `or' is *)
(* a sum then.                                                              *)
Pack(offset, bit, start) ==
    offset * TwoTo32 + NullByteOf(bit, start) * TwoTo8 + NullMaskOf(bit)

UnpackOffset(packed) == packed \div TwoTo32
UnpackNullByte(packed) == (packed \div TwoTo8) % TwoTo24
UnpackNullMask(packed) == packed % TwoTo8

-----------------------------------------------------------------------------
(* InlineMemEqual: strings of up to 32 bytes are compared by fixed-width    *)
(* reads from the front and from the back; a string is a function on        *)
(* 0 .. len - 1.  (CompareVarcharFromRow calls memcmp; InlineMemEqual stands *)
(* beside it to replace it.)                                                *)

BytesRead(len) ==
    IF len \in 8 .. 16 THEN 0 .. 7 \cup len - 8 .. len - 1
    ELSE IF len \in 4 .. 7 THEN 0 .. 3 \cup len - 4 .. len - 1
    ELSE IF len \in 1 .. 3 THEN {0, len \div 2, len - 1}
    ELSE IF len \in 17 .. 32
      THEN (0 .. 7 \cup 8 .. 15) \cup (len - 16 .. len - 9 \cup len - 8 .. len - 1)
    ELSE 0 .. len - 1

InlineMemEqual(a, b, len) == \A i \in BytesRead(len) : a[i] = b[i]
=============================================================================

----------------------------- MODULE MCRowCases -----------------------------
(***************************************************************************)
(* Lengths on both sides of the length's widths, two strings of one length, *)
(* layouts with varchars before and behind a fixed column, and a growth     *)
(* threshold that the larger strings pass.  The drivers' strings are short  *)
(* in the code; here one of them needs a chunk of its own.                  *)
(***************************************************************************)
EXTENDS RowCases

MCLayouts == {<<8, 8, 8>>, <<8, 0>>, <<0, 8, 0>>, <<0, 0>>}
MCCaseLayout == <<0, 0>>

MCStrings ==
    {Empty, [len |-> 256, bytes |-> "b"]}
    \cup {[len |-> n, bytes |-> "a"] : n \in {255, 256, 65535, 65536}}
MCCaseStrings == {s \in MCStrings : s.len \in {255, 256}}

MCCases ==
    {"serialize_only", "compare_only", "new_row", "serialize", "store_value",
     "compare_varchar", "accumulate"}
MCValues == <<1, 2, 4, 8>>
=============================================================================

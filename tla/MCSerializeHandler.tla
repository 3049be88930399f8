------------------------- MODULE MCSerializeHandler -------------------------
(***************************************************************************)
(* Five keys of two columns.  Two pairs share their hash, and three keys    *)
(* have their home in chunk 1 of two.  Equal values in either column occur  *)
(* in different keys.  Aggregates are powers of two, so that a sum tells    *)
(* which values went into it.                                               *)
(***************************************************************************)
EXTENDS SerializeHandler, TLC

CONSTANT BatchLengths

MCHashOf ==
    (<<1, 1>> :> 1) @@ (<<1, 2>> :> 1) @@ (<<2, 1>> :> 3) @@ (<<2, 2>> :> 2) @@ (<<3, 1>> :> 2)
MCKeys == DOMAIN MCHashOf
MCBatches == UNION {[1 .. n -> MCKeys] : n \in BatchLengths}
MCAggValues == <<<<1, 2, 4, 8>>, <<16, 32, 64, 128>>>>

TwoInts == <<"Int64", "Int64">>
IntAndVarchar == <<"Int64", "Varchar">>
TwoVarchars == <<"Varchar", "Varchar">>
=============================================================================

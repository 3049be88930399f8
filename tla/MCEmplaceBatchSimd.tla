------------------------- MODULE MCEmplaceBatchSimd -------------------------
(***************************************************************************)
(* Five hashes with home 0 in any table of up to 8 chunks and one at home   *)
(* in chunk 1 of two and 3 of more.  The batches of a run have distinct     *)
(* hashes, or may repeat a key.  The second key of a hash comes in a batch  *)
(* of its own; within two calls it is told from the first, whichever of the *)
(* two was stored first, and a third call may miss the second.              *)
(***************************************************************************)
EXTENDS EmplaceBatchSimd, TLC

CONSTANTS one, two, three, four, five, other,
          twin    \* has the hash of one

MCHashOf ==
    (one :> 0) @@ (two :> 8) @@ (three :> 16) @@ (four :> 24) @@ (five :> 32)
    @@ (other :> 3) @@ (twin :> 0)
MCKeys == DOMAIN MCHashOf

Distinct(n) ==
    {B \in [1 .. n -> MCKeys \ {twin}] : \A i, j \in DOMAIN B : i # j => B[i] # B[j]}
DistinctBatches ==
    {<<one>>, <<twin>>} \cup
    {B \in Distinct(4) : \A i, j \in DOMAIN B :
        i < j /\ other \notin {B[i], B[j]} => MCHashOf[B[i]] < MCHashOf[B[j]]}
RepeatedKey == [1 .. 2 -> {one, two}] \cup [1 .. 1 -> {one, twin}]
=============================================================================

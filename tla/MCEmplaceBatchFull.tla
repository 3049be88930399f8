------------------------- MODULE MCEmplaceBatchFull -------------------------
(***************************************************************************)
(* Five hashes with home 0 in any table of up to 8 chunks, and one at home  *)
(* in chunk 1 of two and 3 of more.  Batches are the single row of `one',   *)
(* and the BatchLength-row sequences that hold the colliding keys in order  *)
(* of their hash, with either one key twice at most or the other key        *)
(* somewhere among them.                                                    *)
(***************************************************************************)
EXTENDS EmplaceBatchFull, TLC

CONSTANTS one, two, three, four, five, other, BatchLength

MCHashOf ==
    (one :> 0) @@ (two :> 8) @@ (three :> 16) @@ (four :> 24) @@ (five :> 32) @@ (other :> 3)
MCKeys == DOMAIN MCHashOf

KeysOf(B) == {B[i] : i \in DOMAIN B}
InOrder(B) == \A i, j \in DOMAIN B : i < j /\ other \notin {B[i], B[j]} =>
                                        MCHashOf[B[i]] <= MCHashOf[B[j]]
MCBatches ==
    {<<one>>} \cup
    {B \in [1 .. BatchLength -> MCKeys] :
        /\ InOrder(B)
        /\ Cardinality(KeysOf(B)) >= BatchLength - (IF other \in KeysOf(B) THEN 0 ELSE 1)}
=============================================================================

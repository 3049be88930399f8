--------------------------- MODULE MCMapWorkload ---------------------------
(***************************************************************************)
(* The callers of the map on the keys of MCEmplaceBatchFull: five of the    *)
(* six have one home in every table up to 8 chunks of two slots, so that    *)
(* the tables made for the drivers' rows hold long runs of full chunks.     *)
(***************************************************************************)
EXTENDS MapWorkload, MCEmplaceBatchFull

MCBuilds == {<<one, two>>, <<three, other, one>>, <<five, two, one, four, three>>}
MCOperations == {<<other, one, two, three>>, <<one, two, three, four>>, <<one, two, one, two>>}
=============================================================================

------------------------- MODULE MCPipelineWorkload -------------------------
(***************************************************************************)
(* The keys of MCSerializeHandler for any caller, and for the drivers five  *)
(* with different hashes, four of which have their home in chunk 1 of two   *)
(* and three in chunk 1 of four.  Some aggregates are negative.             *)
(***************************************************************************)
EXTENDS PipelineWorkload, TLC

MCHashOf ==
    (<<1, 1>> :> 1) @@ (<<1, 2>> :> 1) @@ (<<2, 1>> :> 3) @@ (<<2, 2>> :> 2) @@ (<<3, 1>> :> 2)
    @@ (<<3, 2>> :> 5) @@ (<<4, 1>> :> 9)
MCKeys == DOMAIN MCHashOf
MCBatches == [1 .. BATCH_SIZE -> MCKeys \ {<<3, 2>>, <<4, 1>>}]
MCAggValues == <<<<1023, 1022, 1020>>, <<8, 16, 32>>, <<64, 128, 256>>>>

MCDriverKeys == {<<1, 1>>, <<2, 1>>, <<2, 2>>, <<3, 2>>, <<4, 1>>}
MCBuilds == {<<<<1, 1>>>>, <<<<1, 1>>, <<3, 2>>>>, <<<<2, 1>>, <<1, 1>>, <<4, 1>>>>}

IntAndVarchar == <<"Int64", "Varchar">>
=============================================================================

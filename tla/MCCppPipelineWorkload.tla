----------------------- MODULE MCCppPipelineWorkload -----------------------
(* The keys, rows and aggregates of MCPipelineWorkload, some of them        *)
(* negative, for the C++ handler.                                           *)
EXTENDS CppPipelineWorkload, MCPipelineWorkload
=============================================================================

----------------------------- MODULE MCPipeline -----------------------------
(***************************************************************************)
(* Graphs over three nodes and one id that is not a node.                  *)
(***************************************************************************)
EXTENDS Pipeline

CONSTANTS n1, n2, n3, ghost

MCNodeSeq == <<n1, n2, n3>>

=============================================================================

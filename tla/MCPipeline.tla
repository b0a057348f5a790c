----------------------------- MODULE MCPipeline -----------------------------
(* Instances of Pipeline for TLC. *)
EXTENDS Pipeline

CONSTANT item

\* All signals are of one item, so that their counts meet in one row.
MCOneItem == [s \in Signals |-> item]
=============================================================================

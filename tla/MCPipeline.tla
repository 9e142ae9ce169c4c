---------------------------- MODULE MCPipeline -----------------------------
(* Instances of Pipeline: a series of two volumes.                         *)
EXTENDS Pipeline

MCChapterCounts == <<{1, 2}, {1}>>

\* Every label of initial_accept but the one inside an unprotected write.
ProtectedLabels == AcceptLabels \ {"design_file"}
=============================================================================

--------------------------- MODULE MCFilePipeline ---------------------------
(* Instances of FilePipeline for TLC. *)
EXTENDS FilePipeline

CONSTANTS p1, p2, w

\* Two processes that run under one VINOPS_WORKER_NAME.
SharedName == [p \in {p1, p2} |-> w]
=============================================================================

--------------------------- MODULE MCSigningWorkflow ---------------------------
(* Four orders: the three steps of a record and one that no role may sign.  *)
EXTENDS SigningWorkflow, TLC
=============================================================================

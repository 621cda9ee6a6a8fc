------------------------------ MODULE MCOutbox ------------------------------
(* Instances of Outbox for TLC.                                            *)
EXTENDS Outbox

CONSTANTS e1, e2, e3, p1, p2, w

\* Two processes that run under one VINOPS_WORKER_NAME.
SharedName == [p \in {p1, p2} |-> w]

NoPoison  == {}
OnePoison == {e1}
=============================================================================

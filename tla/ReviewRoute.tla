----------------------------- MODULE ReviewRoute -----------------------------
(***************************************************************************)
(* The review-route rules of the domain package (evaluateReviewRoute and   *)
(* the assertions around it).  A route is a record                         *)
(*   [reviewers, order, mode, requiredApprovals, rejectThreshold]          *)
(* whose order gives the assignment sequence of every reviewer; the        *)
(* decisions of a route are a function from users to Decisions or          *)
(* Undecided.                                                              *)
(***************************************************************************)
EXTENDS Naturals, FiniteSets

Undecided == "undecided"
Decisions == {"approve", "approve_with_comments", "reject"}

\* What evaluateReviewRoute and the route's UNIQUE constraints accept.
IsRoute(rt, Users) ==
  /\ rt.reviewers \subseteq Users
  /\ rt.reviewers # {}
  /\ IsFiniteSet(rt.reviewers)
  /\ rt.order \in [rt.reviewers -> Nat \ {0}]
  /\ rt.mode \in {"sequential", "quorum"}
  /\ rt.requiredApprovals \in 1..Cardinality(rt.reviewers)
  /\ rt.rejectThreshold \in 1..Cardinality(rt.reviewers)

Rejects(rt, d)   == { u \in rt.reviewers : d[u] = "reject" }
Approvals(rt, d) == { u \in rt.reviewers : d[u] \in {"approve", "approve_with_comments"} }
Pending(rt, d)   == { u \in rt.reviewers : d[u] = Undecided }

Outcome_AnyDecisionApproves(rt, d) ==
  IF Cardinality(rt.reviewers \ Pending(rt, d)) >= rt.requiredApprovals
    THEN "approved" ELSE "pending"

\* evaluateReviewRoute(...).outcome; the route is completed unless "pending".
Outcome(rt, d) ==
  IF Cardinality(Rejects(rt, d)) >= rt.rejectThreshold THEN "rejected"
  ELSE IF Cardinality(Approvals(rt, d)) < rt.requiredApprovals THEN "pending"
  ELSE IF \E u \in Approvals(rt, d) : d[u] = "approve_with_comments"
         THEN "approved_with_comments"
         ELSE "approved"

NextInOrder_ByApprovals(rt, d) ==
  { u \in Pending(rt, d) : rt.order[u] = Cardinality(Approvals(rt, d)) + 1 }
NextInOrder_Anyone(rt, d) == Pending(rt, d)

NextInOrder(rt, d) ==
  { u \in Pending(rt, d) : \A v \in Pending(rt, d) : rt.order[u] <= rt.order[v] }

\* evaluateReviewRoute(...).actionableReviewerIds
Actionable(rt, d) ==
  IF Outcome(rt, d) # "pending" THEN {}
  ELSE IF rt.mode = "quorum" THEN Pending(rt, d)
  ELSE NextInOrder(rt, d)

\* The thresholds under which every route reaches an outcome.
Decisive(rt) ==
  rt.requiredApprovals + rt.rejectThreshold <= Cardinality(rt.reviewers) + 1

=============================================================================

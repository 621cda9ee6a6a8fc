-------------------------- MODULE MCDocumentControl --------------------------
(* Instances of DocumentControl for TLC. *)
EXTENDS DocumentControl, TLC

CONSTANTS maker, ana, bao

MadeByMaker == [r \in Revisions |-> maker]

QuorumOf(S, required, reject) ==
  [reviewers |-> S, order |-> [u \in S |-> 1], mode |-> "quorum",
   requiredApprovals |-> required, rejectThreshold |-> reject]

SequenceOf(first, second, required, reject) ==
  [reviewers |-> {first, second}, order |-> (first :> 1 @@ second :> 2),
   mode |-> "sequential", requiredApprovals |-> required, rejectThreshold |-> reject]

\* The first of two reviewers decides, while the other one may be commenting.
FirstOfTwo == { QuorumOf({ana, bao}, 1, 1) }

\* One reviewer decides: what matters comes after.
OneReviewer == { QuorumOf({ana}, 1, 1) }

\* Every policy over two reviewers.
TwoReviewers ==
  { QuorumOf({ana, bao}, a, x) : a, x \in 1..2 }
    \union { SequenceOf(ana, bao, a, x) : a, x \in 1..2 }
    \union { SequenceOf(bao, ana, a, x) : a, x \in 1..2 }

\* Revisions share one maker and contexts are alike.
Alike == Permutations(Revisions) \union Permutations(Contexts)
=============================================================================

SPECIFICATION Spec
CONSTANTS
  None = None
  maker = maker
  ana = ana
  bao = bao
  Users = {maker, ana, bao}
  Revisions = {r1}
  Contexts = {main}
  Comments = {k1}
  Routes <- TwoReviewers
  MakerOf <- MadeByMaker
INVARIANTS
  TypeOK
  PublishedWasReviewed
  DecidedInOrder
  OpenReviewIsActionable
PROPERTIES
  DecisionsAreFinal
  ActsOnSeenStatus
  CommentsSettledAtPublication

SPECIFICATION FairSpec
CONSTANTS
  None = None
  maker = maker
  ana = ana
  bao = bao
  Users = {maker, ana, bao}
  Revisions = {r1, r2}
  Contexts = {main}
  Comments = {}
  Routes <- OneReviewer
  MakerOf <- MadeByMaker
PROPERTY
  PublicationEnds

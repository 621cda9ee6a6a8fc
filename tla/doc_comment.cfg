SPECIFICATION Spec
CONSTANTS
  None = None
  maker = maker
  ana = ana
  bao = bao
  Users = {maker, ana, bao}
  Revisions = {r1}
  Contexts = {main}
  Comments = {k1}
  Routes <- FirstOfTwo
  MakerOf <- MadeByMaker
INVARIANT
  NoOpenCommentOnPublished

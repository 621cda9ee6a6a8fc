SPECIFICATION Spec
CONSTANTS
  None = None
  maker = maker
  ana = ana
  bao = bao
  Users = {maker, ana, bao}
  Revisions = {r1, r2}
  Contexts = {main, site}
  Comments = {}
  Routes <- OneReviewer
  MakerOf <- MadeByMaker
SYMMETRY Alike
INVARIANTS
  PublishedIsCurrent
PROPERTIES
  ReplacesWhatWasSeen
  ImplementsDistribution

\* An officer corrects the finding while his own closing of it is under way.
SPECIFICATION FindingsSpec
CONSTANTS
  Officers = {o1, o2}
  Nobody = nobody
CHECK_DEADLOCK FALSE
INVARIANT PerformerIsNotVerifier

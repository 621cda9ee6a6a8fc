SPECIFICATION Spec
CONSTANTS
  e1 = e1
  e2 = e2
  e3 = e3
  p1 = p1
  p2 = p2
  w = w
  Nobody = Nobody
  Events = {e1}
  Procs = {p1, p2}
  NameOf <- SharedName
  HandlerCount = 2
  ClaimLimit = 2
  MaxAttempts = 2
  AttemptCap = 3
  MaxFaults = 0
  Poison = {}
CHECK_DEADLOCK FALSE
INVARIANT AttemptsBounded

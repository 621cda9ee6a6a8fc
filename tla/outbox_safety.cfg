SPECIFICATION Spec
CONSTANTS
  e1 = e1
  e2 = e2
  e3 = e3
  p1 = p1
  p2 = p2
  w = w
  Nobody = Nobody
  Events = {e1, e2}
  Procs = {p1, p2}
  NameOf <- SharedName
  HandlerCount = 2
  ClaimLimit = 2
  MaxAttempts = 2
  AttemptCap = 3
  MaxFaults = 2
  Poison = {}
INVARIANT TypeOK
INVARIANT NoConcurrentHandling
INVARIANT NoRedeliveryInProcess
PROPERTY PublishedIsFinal
PROPERTY ImplementsDelivery
CHECK_DEADLOCK FALSE

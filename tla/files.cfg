SPECIFICATION FairSpec
CONSTANTS
  p1 = p1
  p2 = p2
  w = w
  Nobody = Nobody
  Files = {f1}
  Procs = {p1, p2}
  NameOf <- SharedName
  MaxAttempts = 2
  MaxFaults = 2
INVARIANTS
  TypeOK
  AvailableWasScanned
  ValidatingHasJob
  AttemptsBounded
PROPERTIES
  AvailableIsFinal
  UploadSettles
CHECK_DEADLOCK FALSE

\* Remote signing, sessions behind the API, sessions behind a browser tab,
\* project commands, RFIs and issues, a daily log, offline synchronisation and
\* an as-built dossier.
SPECIFICATION ServicesSpec
CONSTANTS
  MaxOrder = 4
  MaxLate = 1
  Calls = {p, q}
  MaxFamilies = 2
  MaxCredentials = 3
  MaxVersion = 1
  Requests = {x, y}
  Attempts = {p, q}
  Keys = {x, y}
  Menus <- ServicesMenus
  MaxRowVersion = 2
  MaxCommits = 3
  Items = {x, y}
  NoItem = none
  LogCommands = {p, q}
  Tabs = {p, q}
  Logs = {x, y}
  Days = {monday, tuesday}
  MaxQueued = 2
  MaxOrphans = 2
  Sealers = {p, q}
  Papers = {x, y}
  MaxPlaces = 3
SYMMETRY Alike
CHECK_DEADLOCK FALSE
INVARIANTS
  ServicesTypeOK
  SignedInOrder
  StatusHasSignatures
  CredentialChain
  RevocationLasts
  TabNeverReuses
  BrowserIsCurrent
  KeyExecutesOnce
  AnswerIsExecution
  VersionWinsOnce
  BallFollowsStatus
  EscalatedOnce
  SignedIsConfirmed
  RemovedIsApplied
  SealCoversItems
PROPERTIES
  SignatureIsKept
  ConfirmedIsFrozen

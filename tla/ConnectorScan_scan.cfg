SPECIFICATION FairSpec
CONSTANTS
  Pods = {p1}
  Clients <- Tasks
  Integrations = {i1}
  Findings = {f1}
  Nobody = Nobody
  Threshold = 2
  Limit = 1
  MaxLost = 1
  MaxCrashes = 1
INVARIANTS
  TypeOK
  NoPhantomSlots
  InsertsAreNew
  ClosedBelowThreshold
PROPERTIES
  SeenIsNotResolved
  LockKeptFromOthers
  ScansEnd
CHECK_DEADLOCK FALSE

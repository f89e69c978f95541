SPECIFICATION CSpec
CONSTANTS
  Events = {e1, bad}
  Malformed = {bad}
  Workers = {w1, w2}
  NoWorker = NoWorker
  MaxRecords = 2
  MaxAttempts = 2
  MaxLog = 3
  MaxMishaps = 2
INVARIANTS
  CTypeOK
  AppliedAtMostOnce
  CommittedIsAccountedFor
PROPERTIES
  EveryMessageSettles
CHECK_DEADLOCK FALSE

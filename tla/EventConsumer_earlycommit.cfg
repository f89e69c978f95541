SPECIFICATION CSpec
CONSTANTS
  Events = {e1, e2}
  Malformed = {}
  Workers = {w1}
  NoWorker = NoWorker
  MaxRecords = 2
  MaxAttempts = 2
  MaxLog = 2
  MaxMishaps = 0
INVARIANTS
  CommitFollowsProcessing
CHECK_DEADLOCK FALSE

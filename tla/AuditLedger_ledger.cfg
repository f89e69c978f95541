SPECIFICATION FairSpec
CONSTANTS
  Events = {e0}
  Anonymous = {e0}
  Requests = {r1, r2}
  Streams = {s1}
  Genesis = Genesis
  NoWriter = NoWriter
  Times = {1, 2}
  PageSize = 2
  MaxAttempts = 1
  MaxFailures = 1
INVARIANTS
  TypeOK
  SingleChain
  MirrorHangsOffLedger
  IntactCoversLedger
PROPERTIES
  WritersSettle
CHECK_DEADLOCK FALSE

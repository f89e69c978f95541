SPECIFICATION Spec
CONSTANTS
  Events = {e0}
  Anonymous = {e0}
  Requests = {r1}
  Streams = {s1}
  Genesis = Genesis
  NoWriter = NoWriter
  Times = {1, 2}
  PageSize = 2
  MaxAttempts = 2
  MaxFailures = 0
INVARIANT UntamperedVerifies
CHECK_DEADLOCK FALSE

SPECIFICATION ProducerSpec
CONSTANTS
  Events = {s1}
  SecurityEvents = {s1}
  Oversized = {}
  Pods = {p1}
  MaxRetries = 3
  DrainLimit = 100
  MaxFaults = 0
INVARIANTS
  NeverDiscarded

SPECIFICATION BackboneSpec
CONSTANTS
  Events = {s1}
  SecurityEvents = {s1}
  Oversized = {}
  Malformed = {}
  Pods = {p1, p2}
  MaxRetries = 1
  DrainLimit = 2
  MaxFaults = 1
  Workers = {w1}
  NoWorker = NoWorker
  MaxRecords = 1
  MaxAttempts = 1
  MaxMishaps = 0
INVARIANTS
  EffectAtMostOnce
PROPERTIES
  PublishedSettles

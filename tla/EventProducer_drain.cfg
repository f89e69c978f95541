SPECIFICATION ProducerSpec
CONSTANTS
  Events = {e1, s1}
  SecurityEvents = {s1}
  Oversized = {e1}
  Pods = {p1}
  MaxRetries = 2
  DrainLimit = 2
  MaxFaults = 1
INVARIANTS
  TypeOK
  AcceptedIsDurable
PROPERTIES
  AcceptedIsLogged

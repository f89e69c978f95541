SPECIFICATION Spec
CONSTANTS
  Clients = {r1, r2}
  Limit = 1
  MaxLost = 1
  Prompts <- MCPrompts
  Completions <- MCCompletions
  Policies <- MCPolicies
  MaxUpdates = 1
  MaxFaults = 1
INVARIANTS TypeOK BlockedKeywordsStay DetectedEntitiesStay VerdictMatchesRelease
PROPERTY RequestsSettle
CHECK_DEADLOCK FALSE

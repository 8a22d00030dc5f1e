SPECIFICATION Spec
CONSTANTS
  MaxConnections = 3
  MaxClients = 1
  MaxSegments = 2
  MaxCalls = 2
  NestedCalls = TRUE
  Polite = TRUE
  MaxDepth = 5
INVARIANTS
  ResponseIsOwn
CHECK_DEADLOCK FALSE

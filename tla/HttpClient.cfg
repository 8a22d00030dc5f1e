SPECIFICATION Spec
CONSTANTS
  MaxConnections = 1
  MaxClients = 1
  MaxSegments = 2
  MaxCalls = 2
  NestedCalls = FALSE
  Polite = TRUE
  MaxDepth = 4
INVARIANTS
  ResponseIsOwn
CHECK_DEADLOCK FALSE

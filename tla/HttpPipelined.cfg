SPECIFICATION Spec
CONSTANTS
  MaxConnections = 2
  MaxClients = 1
  MaxSegments = 3
  MaxCalls = 0
  NestedCalls = FALSE
  Polite = FALSE
  MaxDepth = 4
INVARIANTS
  OneAnswer
CHECK_DEADLOCK FALSE

SPECIFICATION Spec
CONSTANTS
  MaxConnections = 2
  MaxClients = 2
  MaxSegments = 2
  MaxCalls = 1
  NestedCalls = FALSE
  Polite = TRUE
  MaxDepth = 4
INVARIANTS
  ListenerBound
  ResponseCame
CHECK_DEADLOCK FALSE

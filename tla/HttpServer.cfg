SPECIFICATION FairSpec
CONSTANTS
  MaxConnections = 2
  MaxClients = 2
  MaxSegments = 2
  MaxCalls = 0
  NestedCalls = FALSE
  Polite = TRUE
  MaxDepth = 4
INVARIANTS
  ListenerBound
  NoOrphans
  OneAnswer
  RowIntact
PROPERTIES
  IsListener
  HandledEnds
CHECK_DEADLOCK FALSE

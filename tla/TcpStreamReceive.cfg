SPECIFICATION Spec
CONSTANTS
  MaxSegmetSize = 2
  PeerBytes = 2
  FinWithData = FALSE
  MaxWrites = 2
  MaxLength = 3
  MaxForeign = 1
  MaxReceived = 2
  MaxDepth = 2
INVARIANTS
  ReceiveReturnsTheStream
PROPERTIES
  ReceiveReturnsData

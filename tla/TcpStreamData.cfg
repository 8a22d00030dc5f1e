SPECIFICATION OpeningSpec
CONSTANTS
  MaxSegmetSize = 2
  PeerBytes = 2
  FinWithData = FALSE
  MaxWrites = 2
  MaxLength = 3
  MaxForeign = 1
  MaxReceived = 1
  MaxDepth = 2
  Isns = {5, 9}
INVARIANTS
  AckedIsDelivered
  PeerGetsWhatWasWritten
  SuccessMeansReceived
  NumbersAgree

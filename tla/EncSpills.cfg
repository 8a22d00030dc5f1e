SPECIFICATION Spec
CONSTANTS
  RamSize = 52
  NetBufferSize = 12
  RxLengths = {1, 11}
  TxLengths = {4, 12}
  MaxReceived = 2
  MaxSent = 2
  PromptMedium = TRUE
  MayFail = FALSE
INVARIANTS
  UnreadIntact
CHECK_DEADLOCK FALSE

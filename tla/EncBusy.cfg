SPECIFICATION Spec
CONSTANTS
  RamSize = 52
  NetBufferSize = 12
  RxLengths = {1}
  TxLengths = {4}
  MaxReceived = 1
  MaxSent = 3
  PromptMedium = FALSE
  MayFail = FALSE
INVARIANTS
  SentIntact
CHECK_DEADLOCK FALSE

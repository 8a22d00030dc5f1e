SPECIFICATION Spec
CONSTANTS
  RamSize = 52
  NetBufferSize = 12
  RxLengths = {1, 12}
  TxLengths = {4}
  MaxReceived = 2
  MaxSent = 1
  PromptMedium = TRUE
  MayFail = FALSE
INVARIANTS
  ReturnedWhole
CHECK_DEADLOCK FALSE

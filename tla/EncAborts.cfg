SPECIFICATION Spec
CONSTANTS
  RamSize = 52
  NetBufferSize = 12
  RxLengths = {1}
  TxLengths = {4}
  MaxReceived = 1
  MaxSent = 3
  PromptMedium = TRUE
  MayFail = TRUE
INVARIANTS
  OnlyFailedAborted
CHECK_DEADLOCK FALSE

SPECIFICATION FairSpec
CONSTANTS
  RamSize = 54
  NetBufferSize = 12
  RxLengths = {4, 11}
  TxLengths = {4}
  MaxReceived = 4
  MaxSent = 2
  PromptMedium = TRUE
  MayFail = TRUE
INVARIANTS
  UnreadIntact
  SentIntact
PROPERTIES
  IsQueue
  EveryFrameRead
CHECK_DEADLOCK FALSE

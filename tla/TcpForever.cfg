SPECIFICATION FairSpec
CONSTANTS
  TCP_MAX_CONNECTIONS = 2
  Peers = {p1}
  NoPeer = NoPeer
  PortCount = 1
  FlagSets <- MCFlagSets
  Timeouts = {3}
  CloseTimeout = 2
  ConnectRetry = 2
  SendRetry = 2
  ShortMax = 3
  ArpPolls = 1
  MaxParts = 2
  CallbackOps = {}
  MaxDepth = 0
  SimultaneousOpen = FALSE
PROPERTIES
  CallsReturn

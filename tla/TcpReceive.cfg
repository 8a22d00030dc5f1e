SPECIFICATION Spec
CONSTANTS
  TCP_MAX_CONNECTIONS = 2
  Peers = {p1, p2}
  NoPeer = NoPeer
  PortCount = 2
  FlagSets <- MCFlagSets
  Timeouts = {1}
  CloseTimeout = 2
  ConnectRetry = 2
  SendRetry = 2
  ShortMax = 3
  ArpPolls = 1
  MaxParts = 2
  CallbackOps = {}
  MaxDepth = 0
  SimultaneousOpen = FALSE
SYMMETRY PeerSymmetry
INVARIANTS
  ReceiveEndsWithData
  ReceivedNotPassedToCallback

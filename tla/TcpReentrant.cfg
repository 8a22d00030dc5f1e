SPECIFICATION Spec
CONSTANTS
  TCP_MAX_CONNECTIONS = 2
  Peers = {p1}
  NoPeer = NoPeer
  PortCount = 2
  FlagSets <- MCFlagSets
  Timeouts = {0}
  CloseTimeout = 0
  ConnectRetry = 2
  SendRetry = 2
  ShortMax = 3
  ArpPolls = 1
  MaxParts = 1
  CallbackOps = {"connect", "send", "receive", "disconnect", "network"}
  MaxDepth = 3
  SimultaneousOpen = FALSE
INVARIANTS
  CloserOwnsSlot
  IdleMeansSettled
PROPERTIES
  CallbacksPaired

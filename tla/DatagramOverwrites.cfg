SPECIFICATION Spec
CONSTANTS
  Hosts = {h1, h2}
  NoHost = NoHost
  NET_MIN_DINAMIC_PORT = 1
  NET_MAX_PORT = 2
  FirstPort = 1
  MAX_TX_BUFFER = 600
  Lengths = {18, 255}
  Timeouts = {1}
  ShortMax = 3
  Polls = 1
  MaxRotations = 2
  InPlace = {"UdpSendData"}
  MaxCalls = 2
  MaxDepth = 4
INVARIANTS
  SentIsMeant
  QuotesRejected

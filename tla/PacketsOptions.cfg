SPECIFICATION Spec
CONSTANTS
  Avr = Avr
  Broadcast = Broadcast
  h1 = h1
  h2 = h2
  Hosts = {h1, h2}
  Options <- MCOptions
  SegmentOptions <- Timestamp
  TCP_MAX_SEGMENT_SIZE = 7
  Sizes = {7}
  EchoSize = 9
  NET_BUFFER_SIZE = 38
  Overlapping = TRUE
INVARIANTS
  DataRight
  SentRight

SPECIFICATION Spec
CONSTANTS
  Avr = Avr
  Broadcast = Broadcast
  h1 = h1
  h2 = h2
  Hosts = {h1, h2}
  Options <- MCOptions
  SegmentOptions <- MCNone
  TCP_MAX_SEGMENT_SIZE = 6
  Sizes = {6}
  EchoSize = 9
  NET_BUFFER_SIZE = 36
  Overlapping = FALSE
INVARIANTS
  RepliesRight
  SentRight
  DataRight
  SegmentSizeKept

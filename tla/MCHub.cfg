SPECIFICATION FairSpec
CONSTANTS
  Streams = {s1, s2}
  MaxMessages = 3
  QueueCap = 1
  BufferCap = 1
INVARIANTS StreamExact NeverPanics
PROPERTIES SubscribedEnds

SPECIFICATION FairSpec
CONSTANTS
  Streams = {s1}
  MaxMessages = 1
  QueueCap = 1
  BufferCap = 1
PROPERTIES ShutdownEndsStreams

SPECIFICATION FairSpec
CONSTANTS
  Size = 3
  MaxWrite = 4
  MaxRead = 4
  Period = 3
  MaxSpurious = 1
INVARIANTS
  ByteQueueSound
  OneStreamPerRead
PROPERTIES
  ImplementsByteStream
  StreamsProgress

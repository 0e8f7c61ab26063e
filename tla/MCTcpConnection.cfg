CONSTANTS
  Frames <- LargestAndOversize
  HeaderSize = 2
  MaxFrameSize = 2
  BufferSize = 3
  MaxFailures = 1
SPECIFICATION FairSpec
INVARIANTS
  TypeOK
  FramesIntact
  NothingLostOnClose
PROPERTY GoneIsClosed

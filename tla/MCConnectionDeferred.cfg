CONSTANTS
  Frames <- OneFrame
  HeaderSize = 2
  MaxFrameSize = 2
  BufferSize = 3
  MaxFailures = 1
SPECIFICATION Spec
INVARIANT CloseIsDeferred

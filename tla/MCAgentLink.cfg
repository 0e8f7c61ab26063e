CONSTANTS
  Interval = 2
  MaxReconnectDelay = 6
  ConnectTimeout = 2
  FrameSize = 3
  MaxLate = 2
SPECIFICATION FairSpec
INVARIANTS
  TypeOK
  FramesAligned
PROPERTIES
  AttemptsSpaced
  KeepsReporting
  StopsOnSignal

CONSTANTS
  web = web
  Hosts <- OneHost
  MaxSamples = 2
  NumWorkers = 2
  QueueSize = 1
  HistorySize = 1
  TicksPerSecond = 1
  OnlineSeconds = 0
  StaleSeconds = 1
  Horizon = 3
  MaxClockBack = 1
SPECIFICATION FairSpec
INVARIANTS
  TypeOK
  RecordsComplete
  DrainedAtExit
PROPERTIES
  SilenceIsNoticed
  SamplesReported

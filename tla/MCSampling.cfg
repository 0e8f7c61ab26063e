CONSTANTS
  Word = 1024
  IntMax = 100
  Keys <- AllKeys
  Pids <- OnePid
  TopCount = 1
  SamplePeriod = 1
  TickMs = 10
  Instants <- InstantMetrics
  Name <- NameByStart
  OtherPayloads <- Payloads
  Horizon = 3
  MaxBytes = 1
  MaxDrops = 1
SPECIFICATION Spec
INVARIANTS
  TypeOK
  NoMoreThanHappened
  ProcessIsOwn
  ParserExact
  SentIsAccepted
CHECK_DEADLOCK FALSE

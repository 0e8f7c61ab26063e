CONSTANTS
  t1 = t1
  t2 = t2
  t3 = t3
  w1 = w1
  w2 = w2
  reactor = reactor
  other = other
  Tasks <- TaskSet
  Workers <- TwoWorkers
  Callers <- TwoCallers
  MaxQueueSize = 2
SPECIFICATION FairSpec
INVARIANTS
  TypeOK
  NoLostWakeup
  NoSleepThroughStop
PROPERTIES
  ImplementsTaskPool
  AcceptedRuns
  StopReturns

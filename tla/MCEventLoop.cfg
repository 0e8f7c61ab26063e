CONSTANTS
  f1 = f1
  f2 = f2
  f3 = f3
  w1 = w1
  w2 = w2
  Functors <- FunctorSet
  Posters <- TwoPosters
SPECIFICATION LoopFairSpec
INVARIANTS
  LoopTypeOK
  NoLostWakeup
PROPERTIES
  ImplementsMailbox
  PostedRuns
  SignalEnds

CONSTANTS
  Hosts <- TwoHosts
  Metrics <- TwoMetrics
  FireDuration = 2
SPECIFICATION FairSpec
INVARIANTS
  TypeOK
  FiringIsBreached
PROPERTIES
  SustainedBreachFires

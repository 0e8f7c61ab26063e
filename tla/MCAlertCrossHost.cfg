CONSTANTS
  Hosts <- TwoHosts
  Metrics <- OneMetric
  FireDuration = 2
SPECIFICATION Spec
PROPERTY ResolvedMeansBelow

SPECIFICATION ServerFairSpec
INVARIANTS
  ServerTypeOK
  NoThreadLeft
PROPERTY StopEnds

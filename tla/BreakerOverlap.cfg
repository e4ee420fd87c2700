SPECIFICATION FairSpec
CONSTANTS
  Calls = {c1, c2, c3, c4}
  Threshold = 3
INVARIANTS
  ClosedBelowThreshold
  ProbeUnderWay
PROPERTY
  Recovers

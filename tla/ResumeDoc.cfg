SPECIFICATION FairSpec
CONSTANTS
  i1 = i1
  i2 = i2
  b1 = b1
  b2 = b2
  b3 = b3
  r1 = r1
  r2 = r2
  r3 = r3
  Host <- BridgeHost
  At <- RequestHost
  Instances = {i1}
  Bridges = {b1, b2}
  Requests = {r1}
  Budget <- OneCrash
PROPERTY
  RestartRestoresBridge
CHECK_DEADLOCK FALSE

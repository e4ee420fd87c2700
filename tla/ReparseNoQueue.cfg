SPECIFICATION FairSpec
CONSTANTS
  Messages = {1}
  Workers = {w1}
  MaxAttempts = 3
  PollBatch = 1
  RecoveryLimit = 1
  QueueMode = "off"
  Budget <- OneReparse
PROPERTY
  EveryMessageSettles
CHECK_DEADLOCK FALSE

SPECIFICATION FairSpec
CONSTANTS
  Messages = {1, 2}
  Workers = {w1}
  MaxAttempts = 3
  PollBatch = 1
  RecoveryLimit = 1
  QueueMode = "off"
  Budget <- Faults
PROPERTY
  FulfilsContract
CHECK_DEADLOCK FALSE

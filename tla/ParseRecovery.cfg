SPECIFICATION FairSpec
CONSTANTS
  Messages = {1}
  Workers = {w1}
  MaxAttempts = 3
  PollBatch = 1
  RecoveryLimit = 1
  QueueMode = "flaky"
  Budget <- LossAndRerun
PROPERTY
  FulfilsContract
CHECK_DEADLOCK FALSE

SPECIFICATION Spec
CONSTANTS
  Messages = {1}
  Workers = {w1, w2}
  MaxAttempts = 3
  PollBatch = 1
  RecoveryLimit = 1
  QueueMode = "flaky"
  Budget <- ErrorReparse
INVARIANTS
  TypeOK
  DeadLetterBudget
  DoneHasListing
  ExhaustedIsBuried

  
SYMMETRY WorkerSymmetry
CHECK_DEADLOCK FALSE

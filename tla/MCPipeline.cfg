SPECIFICATION Spec
CONSTANTS
  QueueSize = 1
  BatchSize = 2
  BatchQueue = 1
  SaveInterval = 2
  MaxLines = 5
CHECK_DEADLOCK FALSE
INVARIANTS
  NothingLost
  CheckpointIsReached
  FailureHasCause
PROPERTIES
  Terminates
  KeepsFileContract

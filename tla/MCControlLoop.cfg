SPECIFICATION Spec
CHECK_DEADLOCK FALSE
INVARIANTS
  StatusFollowsLoop
PROPERTIES
  FailurePersists
  TriggerIsServed
  ShutdownEndsLoopInTime
  

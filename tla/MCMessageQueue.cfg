SPECIFICATION Spec
CONSTANTS
  Callers = {p, q}
  MaxConns = 3
  MaxRetries = 2
  MaxItems = 2
  None = None
INVARIANTS
  OneConnected
PROPERTIES
  CallEnds
  KeepsCalls
CHECK_DEADLOCK FALSE

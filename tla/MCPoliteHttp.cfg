SPECIFICATION Spec
CONSTANTS
  Callers = {a, b, c}
  MinGap = 2
  MaxRetryAfter = 3
  MaxThrottleRetries = 2
  BaseDelay = 1
  Hints <- MCHints
PROPERTIES
  GapKept
  RetryAfterHonoured
  GetEnds

CONSTANTS
  Buckets = 1
  MaxMsgs = 2
  MaxCalls = 3
SPECIFICATION Spec
INVARIANT RestartReturns
CHECK_DEADLOCK FALSE

CONSTANTS
  Buckets = 1
  MaxMsgs = 3
  MaxCalls = 3
SPECIFICATION Spec
INVARIANT GuardedUse
PROPERTIES FirstSlotFreesItsSession CallsReturn SessionFreed
CHECK_DEADLOCK FALSE

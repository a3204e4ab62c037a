CONSTANTS
  Buckets = 2
  MaxMsgs = 4
  MaxRestarts = 2
SPECIFICATION Spec
INVARIANTS OwnedOnce NoStaleTiles
PROPERTIES ImplementsMailbox DestructorReturns
CHECK_DEADLOCK FALSE

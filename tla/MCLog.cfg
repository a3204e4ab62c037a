CONSTANTS
  Producers = {p1, p2}
  MaxMsgs = 3
  MaxStarts = 2
SPECIFICATION LogSpec
INVARIANT ThreadKeepsOrder
PROPERTIES LoggedIsPrinted CallsReturn
CHECK_DEADLOCK FALSE

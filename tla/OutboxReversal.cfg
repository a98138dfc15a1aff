CONSTANTS
  Orders = {o1}
  Drains = {d1, d2}
  MaxAttempts = 2
  Limit = 2
  MaxCrashes = 0
SPECIFICATION Spec
INVARIANT
  ReversedNetsOut
CHECK_DEADLOCK FALSE

CONSTANTS
  Orders = {o1}
  Drains = {d1}
  MaxAttempts = 2
  Limit = 2
  MaxCrashes = 1
SPECIFICATION FairSpec
PROPERTIES
  EventuallyDecided
CHECK_DEADLOCK FALSE

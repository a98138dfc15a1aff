CONSTANTS
  Orders = {o1}
  Drains = {d1, d2}
  MaxAttempts = 2
  Limit = 2
  MaxCrashes = 1
SPECIFICATION Spec
SYMMETRY DrainSymmetry
INVARIANTS
  TypeOK
  PostedOnce
  ReversalHasOriginal
  PostedMeansEntry
  ClaimsExclusive
PROPERTIES
  PostedIsFinal
CHECK_DEADLOCK FALSE

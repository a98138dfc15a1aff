CONSTANTS
  Expenses = {e1}
  Requests = {r1, r2}
  Workers = {w1, w2}
  Amounts = {1, 2}
  MaxCalls = 3
  None = None
SPECIFICATION Spec
SYMMETRY MCSymmetry
CHECK_DEADLOCK FALSE
INVARIANTS
  BooksFollowExpense
  OneLiveEntry
PROPERTIES
  RemovedStays

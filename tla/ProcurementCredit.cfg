CONSTANTS
  Receipts = {g1}
  Returns = {x1}
  Requests = {r1}
  Ordered = 2
  Tolerance = 10
  Conversion = 1
  Quantities = {1, 2}
  Repeats = {1}
  Payments = {1}
  MaxEdits = 0
SPECIFICATION Spec
INVARIANT
  CreditStands
CHECK_DEADLOCK FALSE

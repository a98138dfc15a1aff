CONSTANTS
  Receipts = {g1}
  Returns = {}
  Requests = {r1, r2}
  Ordered = 1
  Tolerance = 10
  Conversion = 2
  Quantities = {1}
  Repeats = {}
  Payments = {1}
  MaxEdits = 0
SPECIFICATION Spec
INVARIANT
  StockFollowsCancel
CHECK_DEADLOCK FALSE

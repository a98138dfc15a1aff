CONSTANTS
  Receipts = {g1}
  Returns = {x1}
  Requests = {r1, r2}
  Ordered = 1
  Tolerance = 10
  Conversion = 2
  Quantities = {1, 2}
  Repeats = {1}
  Payments = {1}
  MaxEdits = 0
SPECIFICATION Spec
INVARIANT
  StockInBaseUnits
CHECK_DEADLOCK FALSE

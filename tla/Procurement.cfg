CONSTANTS
  Receipts = {g1}
  Returns = {x1}
  Requests = {r1, r2}
  Ordered = 1
  Tolerance = 10
  Conversion = 2
  Quantities = {1, 2}
  Repeats = {1}
  Payments = {1}
  MaxEdits = 1
SPECIFICATION Spec
SYMMETRY Symmetric
INVARIANTS
  ProcurementTypeOK
  StockFollowsDocuments
  ReceivedIsCounted
  WithinTolerance
  BookedOnce
CHECK_DEADLOCK FALSE

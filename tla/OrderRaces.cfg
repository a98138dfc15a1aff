CONSTANTS
  Orders = {o1}
  Splits = {s1}
  Returns = {r1}
  Workers = {w1, w2}
  None = None
  Totals <- PositiveTotals
  Units = 2
  Fulfilment <- KitchenIdle
  Shortfalls <- SomeShort
  LineRepeats <- OneMention
  MaxDeadlocks = 0
SPECIFICATION Spec
SYMMETRY RowSymmetry
INVARIANTS
  CacheAgrees
  StockOnce
PROPERTIES
  TerminalStays

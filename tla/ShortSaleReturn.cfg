CONSTANTS
  Orders = {o1}
  Splits = {s1}
  Returns = {r1}
  Workers = {w1}
  None = None
  Totals <- PositiveTotals
  Units = 2
  Fulfilment <- MCFulfilment
  Shortfalls <- SomeShort
  LineRepeats <- OneMention
  MaxDeadlocks = 0
SPECIFICATION Spec
INVARIANT
  RestoredWithinSale

CONSTANTS
  Orders = {o1}
  Splits = {s1, s2, s3}
  Returns = {r1, r2}
  Workers = {w1}
  None = None
  Totals <- MCTotals
  Units = 2
  Fulfilment <- MCFulfilment
  Shortfalls <- AllCovered
  LineRepeats <- OneMention
  MaxDeadlocks = 0
SPECIFICATION Spec
SYMMETRY RowSymmetry
INVARIANTS
  TypeOK
  NeverUnreconciled
  SplitsCovered
  RefundsReserved
  RestoredWithinSale
  PointsFollowGoods
  JobsFollowMoney
PROPERTIES
  AccountSpec

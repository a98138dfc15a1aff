SPECIFICATION Spec
CONSTANTS
  s1 = s1
  a1 = a1
  a2 = a2
  k1 = k1
  e1 = e1
  Tenders = {s1}
  Asks = {a1, a2}
  Keys = {k1}
  NoKey = NoKey
  Amounts = {1, 2}
  Threshold = 1
  Expenses = {e1}
  MaxRegisters = 2
  MaxMovements = 2
SYMMETRY Symmetry
INVARIANT ClosedIsFinal
INVARIANT AnswerMeansRecorded
CHECK_DEADLOCK FALSE

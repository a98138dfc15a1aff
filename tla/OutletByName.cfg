CONSTANTS
  Outlets = {a, b}
  Home = a
  Sheets = {s1}
  Orders = {p1}
  Requests = {r1, r2}
  Opening = 3
  Ingredient = 2
  Need = 1
  Planned = 2
  Quantities = {2}
  Counts = {1}
  MaxMoves = 3
SPECIFICATION Spec
SYMMETRY Symmetric
INVARIANT
  HistoryIsAll

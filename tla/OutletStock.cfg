CONSTANTS
  Outlets = {a, b}
  Home = a
  Sheets = {s1}
  Orders = {p1}
  Requests = {r1, r2}
  Opening = 3
  Ingredient = 2
  Need = 1
  Planned = 2
  Quantities = {1, 2}
  Counts = {1}
  MaxMoves = 2
SPECIFICATION Spec
SYMMETRY Symmetric
INVARIANTS
  StockTypeOK
  IngredientIsHistory
  OutletCoversHistory
  SheetOnce
CHECK_DEADLOCK FALSE

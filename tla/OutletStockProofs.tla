-------------------------- MODULE OutletStockProofs --------------------------
(* For any outlets, sheets, production orders and requests, and any         *)
(* quantities: the stock modelled by OutletStock keeps its invariants.      *)
EXTENDS OutletStock, FiniteSetTheorems, TLAPS

SheetRow == [status: SheetStatus, outlet: Outlets, product: BOOLEAN,
             count: Counts \cup {0}, lines: BOOLEAN, applied: Nat]

(* What each group of variables keeps. *)
ProductOK ==
  /\ total \in Nat
  /\ outlet \in [Outlets -> Nat \cup {NoRow}]
  /\ moved \in [Outlets -> Int]
  /\ OutletCoversHistory
BatchOK == batch \in [Outlets -> Nat]
IngredientOK == ingredient \in Nat /\ used \in Int /\ drift \in Int /\ IngredientIsHistory
SheetsOK == sheets \in [Sheets -> SheetRow] /\ SheetOnce
OrdersOK == orders \in [Orders -> [status: OrderStatus \cup {"absent", "deleted"}, taken: Int]]
(* What was found by name covers what the order takes.                     *)
Enough == {n \in Nat : n >= Need * Planned}
RequestsOK ==
  requests \in [Requests -> {Idle} \cup [kind: {"sheet", "emptied"}, of: Sheets]
                                   \cup [kind: {"order"}, of: Orders, status: OrderStatus]
                                   \cup [kind: {"found"}, of: Orders, status: OrderStatus, shelf: Enough]]
MovesOK == moves \in 0..MaxMoves

StockInv == /\ ProductOK /\ BatchOK /\ IngredientOK /\ SheetsOK /\ OrdersOK /\ RequestsOK /\ MovesOK

LEMMA InvIsAll == StockInv => StockTypeOK /\ IngredientIsHistory /\ OutletCoversHistory /\ SheetOnce
BY DEF StockInv, ProductOK, BatchOK, IngredientOK, SheetsOK, OrdersOK, RequestsOK, MovesOK,
       StockTypeOK, SheetRow, Enough

-----------------------------------------------------------------------------
(* The helpers. *)
LEMMA MinOfTwo ==
  ASSUME NEW a \in Int, NEW b \in Int
  PROVE  Min({a, b}) \in {a, b} /\ Min({a, b}) <= a /\ Min({a, b}) <= b
<1>1. \E x \in {a, b} : \A y \in {a, b} : x <= y
  <2>1. CASE a <= b
    BY <2>1
  <2>2. CASE ~(a <= b)
    BY <2>2
  <2> QED BY <2>1, <2>2
<1> QED BY <1>1 DEF Min

LEMMA HeldIsNat == ASSUME ProductOK, NEW o \in Outlets PROVE Held(o) \in Nat
BY DEF ProductOK, Held, NoRow

LEMMA ShiftKeeps ==
  ASSUME ProductOK, NEW o \in Outlets, NEW q \in Int, NEW seed \in Nat, Shift(o, q, seed)
  PROVE  ProductOK'
<1> DEFINE before == IF outlet[o] = NoRow THEN seed ELSE outlet[o]
<1>1. before \in Nat /\ before >= Held(o) /\ Held(o) >= moved[o] /\ moved[o] \in Int
  BY DEF ProductOK, Held, NoRow, OutletCoversHistory
<1>2. total' \in Nat /\ AtLeast0(before + q) \in Nat /\ AtLeast0(before + q) >= before + q
  BY <1>1 DEF Shift, AtLeast0, ProductOK
<1>3. /\ outlet' = [outlet EXCEPT ![o] = AtLeast0(before + q)]
      /\ moved' = [moved EXCEPT ![o] = moved[o] + q]
  BY DEF Shift, ProductOK
<1>4. outlet' \in [Outlets -> Nat \cup {NoRow}] /\ moved' \in [Outlets -> Int]
  BY <1>1, <1>2, <1>3 DEF ProductOK
<1>5. ASSUME NEW p \in Outlets PROVE Held(p)' >= moved'[p]
  <2>1. CASE p = o
    <3>1. outlet'[o] = AtLeast0(before + q) /\ moved'[o] = moved[o] + q
      BY <1>3 DEF ProductOK
    <3>2. Held(o)' = AtLeast0(before + q)
      BY <3>1, <1>2 DEF Held, NoRow
    <3> QED BY <2>1, <3>1, <3>2, <1>1, <1>2, HeldIsNat
  <2>2. CASE p # o
    BY <2>2, <1>3 DEF ProductOK, Held, OutletCoversHistory
  <2> QED BY <2>1, <2>2
<1> QED BY <1>2, <1>4, <1>5 DEF ProductOK, OutletCoversHistory

LEMMA AdjustKeeps ==
  ASSUME ProductOK, NEW o \in Outlets, NEW q \in Int, Adjust(o, q)
  PROVE  ProductOK'
BY ShiftKeeps DEF Adjust, ProductOK

LEMMA ProductUnchanged ==
  ASSUME ProductOK, UNCHANGED <<total, outlet, moved>> PROVE ProductOK'
BY DEF ProductOK, OutletCoversHistory, Held

LEMMA SetProductKeeps ==
  ASSUME ProductOK, NEW o \in Outlets, NEW c \in Nat, SetProduct(o, c)
  PROVE  ProductOK'
<1>1. c - total \in Int
  BY DEF ProductOK
<1> QED BY <1>1, AdjustKeeps, ProductUnchanged DEF SetProduct

LEMMA SetIngredientKeeps ==
  ASSUME IngredientOK, NEW c \in Nat, SetIngredient(c)
  PROVE  IngredientOK'
BY OutletStockAssumption DEF IngredientOK, SetIngredient, IngredientIsHistory

LEMMA IngredientUnchanged == ASSUME IngredientOK, UNCHANGED ingredientVars PROVE IngredientOK'
BY DEF IngredientOK, IngredientIsHistory, ingredientVars

LEMMA ProductVarsUnchanged ==
  ASSUME ProductOK, BatchOK, UNCHANGED productVars PROVE ProductOK' /\ BatchOK'
BY ProductUnchanged DEF productVars, BatchOK

LEMMA SheetsUnchanged == ASSUME SheetsOK, UNCHANGED sheets PROVE SheetsOK'
BY DEF SheetsOK, SheetOnce

LEMMA MoveKeeps == ASSUME MovesOK, Move PROVE MovesOK'
BY OutletStockAssumption DEF MovesOK, Move

LEMMA OthersUnchanged ==
  /\ OrdersOK /\ UNCHANGED orders => OrdersOK'
  /\ RequestsOK /\ UNCHANGED requests => RequestsOK'
  /\ MovesOK /\ UNCHANGED moves => MovesOK'
BY DEF OrdersOK, RequestsOK, MovesOK

LEMMA DoneKeeps == ASSUME RequestsOK, NEW r \in Requests, Done(r) PROVE RequestsOK'
BY DEF RequestsOK, Done

LEMMA SheetSeen ==
  ASSUME RequestsOK, NEW r \in Requests, Saw(r, "sheet") \/ Saw(r, "emptied")
  PROVE  requests[r].of \in Sheets
BY DEF RequestsOK, Saw, Idle

LEMMA OrderSeen ==
  ASSUME RequestsOK, NEW r \in Requests, Saw(r, "order") \/ Saw(r, "found")
  PROVE  requests[r].of \in Orders /\ requests[r].status \in OrderStatus
BY DEF RequestsOK, Saw, Idle

LEMMA AppliedRow ==
  ASSUME NEW sh \in SheetRow
  PROVE  /\ Applied(sh) \in SheetRow /\ Applied(sh).status = "completed"
         /\ Applied(sh).applied = sh.applied + (IF sh.lines THEN 1 ELSE 0)
<1>1. sh.applied \in Nat /\ sh.applied + (IF sh.lines THEN 1 ELSE 0) \in Nat
  BY DEF SheetRow
<1> DEFINE n == sh.applied + (IF sh.lines THEN 1 ELSE 0)
<1>2. Applied(sh) = [sh EXCEPT !.status = "completed", !.applied = n]
  BY DEF Applied, SheetRow
<1> HIDE DEF n
<1>3. n \in Nat
  BY <1>1 DEF n
<1>4. Applied(sh) \in SheetRow /\ Applied(sh).status = "completed" /\ Applied(sh).applied = n
  BY <1>2, <1>3 DEF SheetRow, SheetStatus
<1> QED BY <1>4 DEF n

LEMMA ApplyKeeps ==
  ASSUME ProductOK, BatchOK, IngredientOK, NEW sh \in SheetRow, Apply(sh)
  PROVE  ProductOK' /\ BatchOK' /\ IngredientOK'
<1>1. sh.outlet \in Outlets /\ sh.count \in Nat
  <2>1. sh.outlet \in Outlets /\ sh.count \in Counts \cup {0}
    BY DEF SheetRow
  <2>2. Counts \subseteq Nat
    BY OutletStockAssumption
  <2> DEFINE c == sh.count
  <2>3. c \in Counts \cup {0}
    BY <2>1
  <2> HIDE DEF c
  <2>4. c \in Nat
    BY <2>2, <2>3
  <2>5. sh.count \in Nat
    BY <2>4 DEF c
  <2> QED BY <2>1, <2>5
<1>2. CASE ~sh.lines
  BY <1>2, ProductVarsUnchanged, IngredientUnchanged DEF Apply
<1>3. CASE sh.lines /\ sh.product
  BY <1>1, <1>3, SetProductKeeps, IngredientUnchanged DEF Apply, BatchOK
<1>4. CASE sh.lines /\ ~sh.product
  BY <1>1, <1>4, SetIngredientKeeps, ProductVarsUnchanged DEF Apply
<1> QED BY <1>2, <1>3, <1>4

-----------------------------------------------------------------------------
(* The steps. *)
LEMMA MoveProductKeeps == ASSUME StockInv, MoveProduct PROVE StockInv'
<1> USE DEF StockInv
<1>1. ASSUME NEW o \in Outlets, WriteOff(o) PROVE StockInv'
  <2>1. -batch[o] \in Int
    BY DEF BatchOK
  <2>2. ProductOK'
    BY <1>1, <2>1, ShiftKeeps DEF WriteOff
  <2>3. BatchOK'
    BY <1>1 DEF WriteOff, BatchOK
  <2> QED BY <1>1, <2>2, <2>3, IngredientUnchanged, SheetsUnchanged, OthersUnchanged, MoveKeeps DEF WriteOff
<1>2. ASSUME NEW o \in Outlets, NEW q \in Quantities, Sell(o, q) PROVE StockInv'
  <2> DEFINE d == Min({q, Held(o)})
  <2>1. q \in Nat /\ Held(o) \in Nat
    BY HeldIsNat, OutletStockAssumption
  <2>2. d \in Nat /\ d <= Held(o)
    BY <2>1, MinOfTwo
  <2>3. /\ outlet' = [outlet EXCEPT ![o] = IF outlet[o] = NoRow THEN outlet[o] ELSE outlet[o] - d]
        /\ total' = AtLeast0(total - d)
        /\ batch' = [batch EXCEPT ![o] = AtLeast0(batch[o] - d)]
        /\ moved' = [moved EXCEPT ![o] = moved[o] - d]
    BY <1>2 DEF Sell, ProductOK, BatchOK
  <2> HIDE DEF d
  <2>4. BatchOK' /\ total' \in Nat
    BY <2>2, <2>3 DEF BatchOK, AtLeast0, ProductOK
  <2>5. outlet' \in [Outlets -> Nat \cup {NoRow}] /\ moved' \in [Outlets -> Int]
    BY <2>1, <2>2, <2>3 DEF ProductOK, Held
  <2>6. ASSUME NEW p \in Outlets PROVE Held(p)' >= moved'[p]
    <3>1. CASE p = o
      BY <3>1, <2>1, <2>2, <2>3 DEF ProductOK, Held, OutletCoversHistory, NoRow
    <3>2. CASE p # o
      BY <3>2, <2>3 DEF ProductOK, Held, OutletCoversHistory
    <3> QED BY <3>1, <3>2
  <2>7. ProductOK'
    BY <2>4, <2>5, <2>6 DEF ProductOK, OutletCoversHistory
  <2> QED BY <1>2, <2>4, <2>7, IngredientUnchanged, SheetsUnchanged, OthersUnchanged, MoveKeeps DEF Sell
<1>3. ASSUME NEW o \in Outlets, NEW q \in Quantities, Receive(o, q) PROVE StockInv'
  <2>1. q \in Nat
    BY OutletStockAssumption
  <2>2. ProductOK' /\ BatchOK'
    BY <1>3, <2>1, AdjustKeeps DEF Receive, BatchOK
  <2> QED BY <1>3, <2>2, IngredientUnchanged, SheetsUnchanged, OthersUnchanged, MoveKeeps DEF Receive
<1>4. ASSUME NEW o \in Outlets, NEW q \in Quantities, TakeOut(o, q) PROVE StockInv'
  <2>1. -q \in Int
    BY OutletStockAssumption
  <2>2. ProductOK' /\ BatchOK'
    BY <1>4, <2>1, AdjustKeeps DEF TakeOut, BatchOK
  <2> QED BY <1>4, <2>2, IngredientUnchanged, SheetsUnchanged, OthersUnchanged, MoveKeeps DEF TakeOut
<1> QED BY <1>1, <1>2, <1>3, <1>4 DEF MoveProduct

LEMMA MoveIngredientKeeps == ASSUME StockInv, MoveIngredient PROVE StockInv'
<1> USE DEF StockInv
<1>1. ASSUME NEW q \in Quantities, Use(q) PROVE StockInv'
  <2> DEFINE d == Min({q, ingredient})
  <2>1. q \in Nat /\ ingredient \in Nat
    BY OutletStockAssumption DEF IngredientOK
  <2>2. d \in Nat /\ d <= ingredient
    BY <2>1, MinOfTwo
  <2>3. ingredient' = ingredient - d /\ used' = used - d /\ drift' = drift
    BY <1>1 DEF Use
  <2> HIDE DEF d
  <2>4. IngredientOK'
    BY <2>1, <2>2, <2>3, OutletStockAssumption DEF IngredientOK, IngredientIsHistory
  <2> QED BY <1>1, <2>4, ProductVarsUnchanged, SheetsUnchanged, OthersUnchanged, MoveKeeps DEF Use
<1>2. ASSUME NEW q \in Quantities, NEW mode \in {"add", "subtract", "set"}, Enter(mode, q) PROVE StockInv'
  <2>1. q \in Nat /\ ingredient \in Nat
    BY OutletStockAssumption DEF IngredientOK
  <2>2. PICK c \in Nat : SetIngredient(c)
    <3>1. CASE mode = "add"
      BY <1>2, <2>1, <3>1 DEF Enter
    <3>2. CASE mode = "subtract"
      <4>1. ingredient >= q /\ SetIngredient(ingredient - q)
        BY <1>2, <3>2 DEF Enter
      <4> QED BY <4>1, <2>1
    <3>3. CASE mode = "set"
      BY <1>2, <2>1, <3>3 DEF Enter
    <3> QED BY <3>1, <3>2, <3>3
  <2> QED BY <1>2, <2>2, SetIngredientKeeps, ProductVarsUnchanged, SheetsUnchanged, OthersUnchanged, MoveKeeps DEF Enter
<1> QED BY <1>1, <1>2 DEF MoveIngredient

(* A sheet rewritten: a draft not yet applied, or any sheet otherwise. *)
LEMMA SheetWritten ==
  ASSUME SheetsOK, NEW s \in Sheets, NEW new \in SheetRow,
         sheets' = [sheets EXCEPT ![s] = new],
         new.applied <= 1, new.status = "draft" => new.applied = 0
  PROVE  SheetsOK'
BY DEF SheetsOK, SheetOnce

LEMMA CountKeeps == ASSUME StockInv, Count PROVE StockInv'
<1> USE DEF StockInv
<1>1. ASSUME NEW s \in Sheets, NEW o \in Outlets, NEW product \in BOOLEAN, NEW complete \in BOOLEAN,
             NEW c \in Counts, CreateSheet(s, o, product, c, complete)
      PROVE  StockInv'
  <2> DEFINE new == [status |-> "draft", outlet |-> o, product |-> product, count |-> c,
                     lines |-> TRUE, applied |-> 0]
  <2>1. new \in SheetRow /\ new.applied = 0
    BY DEF SheetRow, SheetStatus
  <2>2. CASE complete
    <3>1. Apply(new) /\ sheets' = [sheets EXCEPT ![s] = Applied(new)]
      BY <1>1, <2>2 DEF CreateSheet
    <3> HIDE DEF new
    <3>2. ProductOK' /\ BatchOK' /\ IngredientOK'
      BY <2>1, <3>1, ApplyKeeps
    <3>3. Applied(new) \in SheetRow /\ Applied(new).status = "completed" /\ Applied(new).applied <= 1
      BY <2>1, AppliedRow
    <3>4. SheetsOK'
      BY <3>1, <3>3, SheetWritten
    <3> QED BY <1>1, <3>2, <3>4, OthersUnchanged DEF CreateSheet
  <2>3. CASE ~complete
    <3>1. sheets' = [sheets EXCEPT ![s] = new] /\ UNCHANGED <<productVars, ingredientVars>>
      BY <1>1, <2>3 DEF CreateSheet
    <3> HIDE DEF new
    <3>2. new.applied <= 1 /\ (new.status = "draft" => new.applied = 0)
      BY <2>1
    <3>3. SheetsOK'
      BY <2>1, <3>1, <3>2, SheetWritten
    <3> QED BY <1>1, <3>1, <3>3, ProductVarsUnchanged, IngredientUnchanged, OthersUnchanged DEF CreateSheet
  <2> QED BY <2>2, <2>3
<1>2. ASSUME NEW r \in Requests, NEW s \in Sheets, LoadSheet(r, s) PROVE StockInv'
  <2>1. RequestsOK'
    BY <1>2 DEF LoadSheet, RequestsOK
  <2> QED BY <1>2, <2>1, ProductVarsUnchanged, IngredientUnchanged, SheetsUnchanged, OthersUnchanged DEF LoadSheet
<1>3. ASSUME NEW r \in Requests, CompleteSheet(r) PROVE StockInv'
  <2> DEFINE s == requests[r].of
  <2>1. s \in Sheets /\ sheets[s] \in SheetRow
    BY <1>3, SheetSeen DEF CompleteSheet, SheetsOK
  <2>2. CASE sheets[s].status = "draft"
    <3>1. Apply(sheets[s]) /\ sheets' = [sheets EXCEPT ![s] = Applied(sheets[s])]
      BY <1>3, <2>1, <2>2 DEF CompleteSheet, SheetsOK
    <3>2. ProductOK' /\ BatchOK' /\ IngredientOK'
      BY <2>1, <3>1, ApplyKeeps
    <3>3. sheets[s].applied = 0
      BY <2>1, <2>2 DEF SheetsOK, SheetOnce
    <3>4. /\ Applied(sheets[s]) \in SheetRow /\ Applied(sheets[s]).applied <= 1
          /\ Applied(sheets[s]).status = "completed"
      BY <2>1, <3>3, AppliedRow
    <3>5. SheetsOK'
      BY <2>1, <3>1, <3>4, SheetWritten
    <3> QED BY <1>3, <3>2, <3>5, DoneKeeps, OthersUnchanged DEF CompleteSheet
  <2>3. CASE sheets[s].status # "draft"
    <3>1. UNCHANGED <<productVars, ingredientVars, sheets>>
      BY <1>3, <2>3 DEF CompleteSheet
    <3> QED BY <1>3, <3>1, ProductVarsUnchanged, IngredientUnchanged, SheetsUnchanged, DoneKeeps, OthersUnchanged DEF CompleteSheet
  <2> QED BY <2>2, <2>3
<1>4. ASSUME NEW r \in Requests, CancelSheet(r) PROVE StockInv'
  <2> DEFINE s == requests[r].of
             new == [sheets[s] EXCEPT !.status = IF @ = "deleted" THEN @ ELSE "cancelled"]
  <2>1. s \in Sheets /\ sheets[s] \in SheetRow
    BY <1>4, SheetSeen DEF CancelSheet, SheetsOK
  <2>2. new \in SheetRow /\ new.applied = sheets[s].applied /\ new.status # "draft"
    BY <2>1 DEF SheetRow, SheetStatus
  <2>3. sheets' = [sheets EXCEPT ![s] = new]
    BY <1>4, <2>1 DEF CancelSheet, SheetsOK
  <2>4. new.applied <= 1
    BY <2>1, <2>2 DEF SheetsOK, SheetOnce
  <2> HIDE DEF new
  <2>5. SheetsOK'
    BY <2>1, <2>2, <2>3, <2>4, SheetWritten
  <2> QED BY <1>4, <2>5, ProductVarsUnchanged, IngredientUnchanged, DoneKeeps, OthersUnchanged DEF CancelSheet
<1>5. ASSUME NEW r \in Requests, EmptySheet(r) PROVE StockInv'
  <2> DEFINE s == requests[r].of
             new == [sheets[s] EXCEPT !.lines = FALSE]
  <2>1. s \in Sheets /\ sheets[s] \in SheetRow
    BY <1>5, SheetSeen DEF EmptySheet, SheetsOK
  <2>2. new \in SheetRow /\ new.applied = sheets[s].applied /\ new.status = sheets[s].status
    BY <2>1 DEF SheetRow
  <2>3. sheets' = [sheets EXCEPT ![s] = new]
    BY <1>5, <2>1 DEF EmptySheet, SheetsOK
  <2>4. new.applied <= 1 /\ (new.status = "draft" => new.applied = 0)
    BY <2>1, <2>2 DEF SheetsOK, SheetOnce
  <2> HIDE DEF new
  <2>5. SheetsOK'
    BY <2>1, <2>2, <2>3, <2>4, SheetWritten
  <2>6. requests[r] \in [kind: {"sheet", "emptied"}, of: Sheets]
    BY <1>5 DEF EmptySheet, RequestsOK, Saw, Idle
  <2>7. requests' = [requests EXCEPT ![r] = [requests[r] EXCEPT !.kind = "emptied"]]
    BY <1>5 DEF EmptySheet, RequestsOK
  <2>8. [requests[r] EXCEPT !.kind = "emptied"] \in [kind: {"sheet", "emptied"}, of: Sheets]
    BY <2>6
  <2>9. RequestsOK'
    BY <2>7, <2>8 DEF RequestsOK
  <2> QED BY <1>5, <2>5, <2>9, ProductVarsUnchanged, IngredientUnchanged, OthersUnchanged DEF EmptySheet
<1>6. ASSUME NEW r \in Requests, NEW c \in Counts, RecountSheet(r, c) PROVE StockInv'
  <2> DEFINE s == requests[r].of
             new == [sheets[s] EXCEPT !.count = c, !.lines = TRUE]
  <2>1. s \in Sheets /\ sheets[s] \in SheetRow
    BY <1>6, SheetSeen DEF RecountSheet, SheetsOK
  <2>2. new \in SheetRow /\ new.applied = sheets[s].applied /\ new.status = sheets[s].status
    BY <2>1 DEF SheetRow
  <2>3. sheets' = [sheets EXCEPT ![s] = new]
    BY <1>6, <2>1 DEF RecountSheet, SheetsOK, SheetRow
  <2>4. new.applied <= 1 /\ (new.status = "draft" => new.applied = 0)
    BY <2>1, <2>2 DEF SheetsOK, SheetOnce
  <2> HIDE DEF new
  <2>5. SheetsOK'
    BY <2>1, <2>2, <2>3, <2>4, SheetWritten
  <2> QED BY <1>6, <2>5, ProductVarsUnchanged, IngredientUnchanged, DoneKeeps, OthersUnchanged DEF RecountSheet
<1>7. ASSUME NEW r \in Requests, NEW ends \in BOOLEAN, DeleteSheet(r, ends) PROVE StockInv'
  <2> DEFINE s == requests[r].of
             new == [sheets[s] EXCEPT !.status = IF ends THEN @ ELSE "deleted"]
  <2>1. s \in Sheets /\ sheets[s] \in SheetRow
    BY <1>7, SheetSeen DEF DeleteSheet, SheetsOK
  <2>2. new \in SheetRow /\ new.applied = sheets[s].applied /\ new.status \in {"deleted", sheets[s].status}
    BY <2>1 DEF SheetRow, SheetStatus
  <2>3. sheets' = [sheets EXCEPT ![s] = new]
    BY <1>7, <2>1 DEF DeleteSheet, SheetsOK
  <2>4. new.applied <= 1 /\ (new.status = "draft" => new.applied = 0)
    BY <2>1, <2>2 DEF SheetsOK, SheetOnce
  <2> HIDE DEF new
  <2>5. SheetsOK'
    BY <2>1, <2>2, <2>3, <2>4, SheetWritten
  <2> QED BY <1>7, <2>5, ProductVarsUnchanged, IngredientUnchanged, DoneKeeps, OthersUnchanged DEF DeleteSheet
<1> QED BY <1>1, <1>2, <1>3, <1>4, <1>5, <1>6, <1>7 DEF Count

LEMMA SavedKeeps ==
  ASSUME OrdersOK, RequestsOK, NEW r \in Requests, Saw(r, "order") \/ Saw(r, "found"),
         NEW status \in OrderStatus, NEW n \in Int, Saved(r, status, n)
  PROVE  OrdersOK'
<1> DEFINE p == requests[r].of
           st == IF orders[p].status = "deleted" \/ status = requests[r].status
                 THEN orders[p].status ELSE status
           left == orders[p].taken + n
<1>1. p \in Orders /\ orders[p] \in [status: OrderStatus \cup {"absent", "deleted"}, taken: Int]
  BY OrderSeen DEF OrdersOK
<1>2. orders' = [orders EXCEPT ![p] = [orders[p] EXCEPT !.status = st, !.taken = left]]
  BY <1>1 DEF Saved, OrdersOK
<1>3. st \in OrderStatus \cup {"absent", "deleted"} /\ left \in Int
  BY <1>1
<1> HIDE DEF st, left
<1>4. [orders[p] EXCEPT !.status = st, !.taken = left] \in [status: OrderStatus \cup {"absent", "deleted"}, taken: Int]
  BY <1>1, <1>3
<1> QED BY <1>1, <1>2, <1>4 DEF OrdersOK

LEMMA ProduceKeeps == ASSUME StockInv, Produce PROVE StockInv'
<1> USE DEF StockInv
<1> DEFINE batchNeed == Need * Planned
<1>0. batchNeed \in Nat /\ -batchNeed \in Int
  BY OutletStockAssumption
<1>1. ASSUME NEW p \in Orders, NEW status \in OrderStatus, CreateOrder(p, status) PROVE StockInv'
  <2>1. OrdersOK'
    BY <1>1 DEF CreateOrder, OrdersOK
  <2> QED BY <1>1, <2>1, ProductVarsUnchanged, IngredientUnchanged, SheetsUnchanged, OthersUnchanged DEF CreateOrder
<1>2. ASSUME NEW r \in Requests, NEW p \in Orders, LoadOrder(r, p) PROVE StockInv'
  <2>1. RequestsOK'
    BY <1>2 DEF LoadOrder, RequestsOK
  <2> QED BY <1>2, <2>1, ProductVarsUnchanged, IngredientUnchanged, SheetsUnchanged, OthersUnchanged DEF LoadOrder
<1>3. ASSUME NEW r \in Requests, Start(r) PROVE StockInv'
  <2>1. ingredient - batchNeed \in Nat
    BY <1>0, <1>3 DEF Start, IngredientOK
  <2>2. IngredientOK'
    BY <1>3, <2>1, SetIngredientKeeps DEF Start
  <2>3. OrdersOK'
    BY <1>0, <1>3, SavedKeeps DEF Start, Seen, OrderStatus
  <2> QED BY <1>3, <2>2, <2>3, ProductVarsUnchanged, SheetsUnchanged, DoneKeeps, MoveKeeps DEF Start
<1>4. ASSUME NEW r \in Requests, NEW made \in Quantities \cup {Planned}, Complete(r, made) PROVE StockInv'
  <2>1. made \in Int /\ 0 \in Nat /\ Home \in Outlets /\ 0 \in Int
    BY OutletStockAssumption
  <2>2. ProductOK'
    BY <1>4, <2>1, ShiftKeeps DEF Complete
  <2>3. OrdersOK'
    BY <1>4, <2>1, SavedKeeps DEF Complete, Seen, OrderStatus
  <2>4. BatchOK'
    BY <1>4 DEF Complete, BatchOK
  <2> QED BY <1>4, <2>2, <2>3, <2>4, IngredientUnchanged, SheetsUnchanged, DoneKeeps, MoveKeeps DEF Complete
<1>5. ASSUME NEW r \in Requests, NEW restores \in BOOLEAN, CancelOrder(r, restores) PROVE StockInv'
  <2>1. ingredient + batchNeed \in Nat
    BY <1>0 DEF IngredientOK
  <2>2. IngredientOK'
    BY <1>5, <2>1, SetIngredientKeeps, IngredientUnchanged DEF CancelOrder
  <2>3. OrdersOK'
    BY <1>0, <1>5, SavedKeeps, 0 \in Int DEF CancelOrder, Seen, OrderStatus
  <2>4. MovesOK'
    BY <1>5, MoveKeeps, OthersUnchanged DEF CancelOrder
  <2> QED BY <1>5, <2>2, <2>3, <2>4, ProductVarsUnchanged, SheetsUnchanged, DoneKeeps DEF CancelOrder
<1>6. ASSUME NEW r \in Requests, NEW status \in OrderStatus, ChangeStatus(r, status) \/ UpdateOrder(r, status)
      PROVE  StockInv'
  <2>1. OrdersOK'
    BY <1>6, SavedKeeps, 0 \in Int DEF ChangeStatus, UpdateOrder, Seen
  <2> QED BY <1>6, <2>1, ProductVarsUnchanged, IngredientUnchanged, SheetsUnchanged, DoneKeeps, OthersUnchanged
         DEF ChangeStatus, UpdateOrder
<1>7. ASSUME NEW r \in Requests, DeleteOrder(r) PROVE StockInv'
  <2>1. requests[r].of \in Orders
    BY <1>7, OrderSeen DEF DeleteOrder, Seen
  <2>2. OrdersOK'
    BY <1>7, <2>1 DEF DeleteOrder, OrdersOK
  <2> QED BY <1>7, <2>2, ProductVarsUnchanged, IngredientUnchanged, SheetsUnchanged, DoneKeeps, OthersUnchanged DEF DeleteOrder
<1>8. ASSUME NEW r \in Requests, Refused(r) PROVE StockInv'
  BY <1>8, ProductVarsUnchanged, IngredientUnchanged, SheetsUnchanged, DoneKeeps, OthersUnchanged DEF Refused
<1>9. ASSUME NEW r \in Requests, FindByName(r) PROVE StockInv'
  <2>1. requests[r].of \in Orders /\ requests[r].status \in OrderStatus /\ ingredient \in Enough
    BY <1>9, OrderSeen DEF FindByName, Seen, IngredientOK, Enough
  <2>2. RequestsOK'
    BY <1>9, <2>1 DEF FindByName, RequestsOK
  <2> QED BY <1>9, <2>2, ProductVarsUnchanged, IngredientUnchanged, SheetsUnchanged, OthersUnchanged DEF FindByName
<1>10. ASSUME NEW r \in Requests, StartByName(r) PROVE StockInv'
  <2> DEFINE shelf == requests[r].shelf
  <2>1. shelf \in Nat /\ shelf - batchNeed \in Nat
    <3>1. shelf \in Enough
      BY <1>10 DEF StartByName, Saw, RequestsOK, Idle
    <3> HIDE DEF shelf
    <3> QED BY <1>0, <3>1 DEF Enough
  <2>2. /\ ingredient' = shelf - batchNeed /\ used' = used - batchNeed
        /\ drift' = drift + shelf - ingredient
    BY <1>10 DEF StartByName
  <2> HIDE DEF shelf, batchNeed
  <2>3. IngredientOK'
    BY <1>0, <2>1, <2>2, OutletStockAssumption DEF IngredientOK, IngredientIsHistory
  <2>4. OrdersOK'
    BY <1>0, <1>10, SavedKeeps DEF StartByName, OrderStatus, batchNeed
  <2> QED BY <1>10, <2>3, <2>4, ProductVarsUnchanged, SheetsUnchanged, DoneKeeps, MoveKeeps DEF StartByName
<1> QED BY <1>1, <1>2, <1>3, <1>4, <1>5, <1>6, <1>7, <1>8, <1>9, <1>10 DEF Produce

-----------------------------------------------------------------------------
LEMMA InitHolds == Init => StockInv
<1> SUFFICES ASSUME Init PROVE StockInv
  OBVIOUS
<1>1. PICK A \in SUBSET Outlets : Home \in A /\ outlet = [o \in Outlets |-> Share(A, o)]
  BY DEF Init
<1>2. IsFiniteSet(A) /\ Cardinality(A) \in Nat /\ Cardinality(A) # 0
  BY <1>1, OutletStockAssumption, FS_Subset, FS_CardinalityType, FS_EmptySet
<1>3. ASSUME NEW o \in Outlets PROVE Share(A, o) \in Nat \cup {NoRow}
  <2> DEFINE n == Cardinality(A)
  <2>1. n \in Nat /\ n > 0 /\ Opening \in Nat
    BY <1>2, OutletStockAssumption
  <2> HIDE DEF n
  <2>2. Opening \div n \in Nat /\ Opening % n \in Nat
    BY <2>1
  <2>3. Share(A, o) = IF o \notin A THEN NoRow ELSE Opening \div n + (IF o = Home THEN Opening % n ELSE 0)
    BY DEF Share, n
  <2> QED BY <2>2, <2>3
<1>4. outlet \in [Outlets -> Nat \cup {NoRow}]
  BY <1>1, <1>3
<1>5. \A o \in Outlets : Held(o) \in Nat
  BY <1>4 DEF Held, NoRow
<1>6. ProductOK
  BY <1>4, <1>5, OutletStockAssumption DEF Init, ProductOK, OutletCoversHistory
<1>7. IngredientOK /\ BatchOK /\ MovesOK
  BY OutletStockAssumption DEF Init, IngredientOK, IngredientIsHistory, BatchOK, MovesOK
<1>8. SheetsOK
  BY OutletStockAssumption DEF Init, SheetsOK, SheetOnce, SheetRow, SheetStatus, NoSheet
<1>9. OrdersOK /\ RequestsOK
  BY DEF Init, OrdersOK, RequestsOK, NoOrder
<1> QED BY <1>6, <1>7, <1>8, <1>9 DEF StockInv

LEMMA StutterKeeps == ASSUME StockInv, UNCHANGED vars PROVE StockInv'
BY ProductVarsUnchanged, IngredientUnchanged, SheetsUnchanged, OthersUnchanged DEF StockInv, vars

LEMMA NextKeeps == StockInv /\ [Next]_vars => StockInv'
BY MoveProductKeeps, MoveIngredientKeeps, CountKeeps, ProduceKeeps, StutterKeeps DEF Next

LEMMA StockInvariant == Spec => []StockInv
<1>1. Init => StockInv
  BY InitHolds
<1>2. StockInv /\ [Next]_vars => StockInv'
  BY NextKeeps
<1> QED BY <1>1, <1>2, PTL DEF Spec

(* Every reachable state is well typed: no sale, start of production, count *)
(* or floor makes a stock negative (StockTypeOK).                           *)
THEOREM TypeCorrect == Spec => []StockTypeOK
<1>1. StockInv => StockTypeOK
  BY InvIsAll
<1> QED BY <1>1, StockInvariant, PTL

(* Whoever moves the ingredient, its history adds up to its stock           *)
(* (IngredientIsHistory).                                                   *)
THEOREM HistoryExplains == Spec => []IngredientIsHistory
<1>1. StockInv => IngredientIsHistory
  BY InvIsAll
<1> QED BY <1>1, StockInvariant, PTL

(* No outlet holds less than its history says (OutletCoversHistory).        *)
THEOREM OutletsCovered == Spec => []OutletCoversHistory
<1>1. StockInv => OutletCoversHistory
  BY InvIsAll
<1> QED BY <1>1, StockInvariant, PTL

(* However many requests complete, edit, cancel or delete a sheet, its      *)
(* count reaches the stock at most once (SheetOnce).                        *)
THEOREM CountedOnce == Spec => []SheetOnce
<1>1. StockInv => SheetOnce
  BY InvIsAll
<1> QED BY <1>1, StockInvariant, PTL
==============================================================================

----------------------------- MODULE OutletStock -----------------------------
(***************************************************************************)
(* One product held at several outlets and the ingredient it is made from, *)
(* with everything that moves them: sales, receipts and returns, write-off *)
(* of expired batches, counting sheets (stockOpname.js) and production     *)
(* orders (productionOrder.js), over stockMutationService.js and           *)
(* batchService.js.                                                        *)
(*                                                                         *)
(* A stock mutation locks the rows it changes and is one step, but for the *)
(* start of a production order whose recipe names its ingredient.  Sheets  *)
(* and production orders are read without a lock first; only the           *)
(* completion of a sheet reads it again under one.  A production order is  *)
(* for the first outlet, the only one that keeps the ingredient.           *)
(***************************************************************************)
EXTENDS Integers, FiniteSets, FiniteSetsExt

CONSTANTS
  Outlets, Home,    \* Home is the first outlet
  Sheets, Orders, Requests,
  Opening,          \* initial stock of the product, split over its outlets
  Ingredient,       \* initial stock of the ingredient
  Need,             \* ingredient per unit of product (bom_line.qty)
  Planned,          \* plannedQty of every production order
  Quantities,       \* of one movement
  Counts,           \* what a sheet may say was counted
  MaxMoves          \* bound on the movements that are not counts

ASSUME OutletStockAssumption ==
  /\ Home \in Outlets /\ IsFiniteSet(Outlets)
  /\ {Opening, Ingredient, MaxMoves} \subseteq Nat
  /\ {Need, Planned} \subseteq Nat \ {0}
  /\ Quantities \subseteq Nat \ {0} /\ Counts \subseteq Nat

VARIABLES
  total,      \* product.stock
  outlet,     \* product_store_stock, per outlet
  batch,      \* what is left of an outlet's batches
  moved,      \* stock_history of the product, summed per outlet
  ingredient, \* ingredient.stock
  used,       \* stock_history of the ingredient, summed
  drift,      \* history: what starts by name undid of the work of others
  sheets, orders, requests,
  moves

productVars == <<total, outlet, batch, moved>>
ingredientVars == <<ingredient, used, drift>>
vars == <<productVars, ingredientVars, sheets, orders, requests, moves>>

NoRow == -1
SheetStatus == {"absent", "draft", "completed", "cancelled", "deleted"}
OrderStatus == {"draft", "planned", "in_progress", "completed", "cancelled"}
NoSheet == [status |-> "absent", outlet |-> Home, product |-> TRUE, count |-> 0,
            lines |-> FALSE, applied |-> 0]
NoOrder == [status |-> "absent", taken |-> 0]
Idle == [kind |-> "idle"]

StockTypeOK ==
  /\ total \in Nat /\ ingredient \in Nat
  /\ outlet \in [Outlets -> Nat \cup {NoRow}] /\ batch \in [Outlets -> Nat]
  /\ moved \in [Outlets -> Int] /\ used \in Int /\ drift \in Int
  /\ sheets \in [Sheets -> [status: SheetStatus, outlet: Outlets, product: BOOLEAN,
                            count: Counts \cup {0}, lines: BOOLEAN, applied: Nat]]
  /\ orders \in [Orders -> [status: OrderStatus \cup {"absent", "deleted"}, taken: Int]]
  /\ requests \in [Requests -> {Idle} \cup [kind: {"sheet", "emptied"}, of: Sheets]
                                     \cup [kind: {"order"}, of: Orders, status: OrderStatus]
                                     \cup [kind: {"found"}, of: Orders, status: OrderStatus, shelf: Nat]]
  /\ moves \in 0..MaxMoves

-----------------------------------------------------------------------------
Held(o) == IF outlet[o] = NoRow THEN 0 ELSE outlet[o]
AtLeast0(n) == IF n < 0 THEN 0 ELSE n
SumOver(f) == MapThenSumSet(LAMBDA o : f[o], Outlets)

(* A new product is assigned to some outlets; the first takes the rest.    *)
Share(A, o) ==
  IF o \notin A THEN NoRow
  ELSE Opening \div Cardinality(A) + (IF o = Home THEN Opening % Cardinality(A) ELSE 0)

Init ==
  /\ total = Opening
  /\ \E A \in SUBSET Outlets :
       /\ Home \in A
       /\ outlet = [o \in Outlets |-> Share(A, o)]
  /\ batch = [o \in Outlets |-> 0]
  /\ moved = [o \in Outlets |-> Held(o)]
  /\ ingredient = Ingredient /\ used = 0 /\ drift = 0
  /\ sheets = [s \in Sheets |-> NoSheet]
  /\ orders = [p \in Orders |-> NoOrder]
  /\ requests = [r \in Requests |-> Idle]
  /\ moves = 0

Move == moves < MaxMoves /\ moves' = moves + 1

(* An unlocked update of the product with both rows floored at zero, the   *)
(* outlet's row seeded with `seed' when there is none.                     *)
Shift(o, q, seed) ==
  /\ total' = AtLeast0(total + q)
  /\ outlet' = [outlet EXCEPT ![o] = AtLeast0((IF @ = NoRow THEN seed ELSE @) + q)]
  /\ moved' = [moved EXCEPT ![o] = @ + q]

(* adjustProductStock seeds with the stock of the product.                 *)
Adjust(o, q) == Shift(o, q, total)

(* setProductStock: the difference to product.stock, at any outlet.        *)
SetProduct(o, c) ==
  IF c = total THEN UNCHANGED <<total, outlet, moved>> ELSE Adjust(o, c - total)

SetIngredient(c) == ingredient' = c /\ used' = used + c - ingredient /\ UNCHANGED drift

-----------------------------------------------------------------------------
(* Movements of the product. *)

(* Mutant: a sale that fell short is left out of the history. *)
SellShortUnrecorded(o, q) ==
  LET d == Min({q, Held(o)})
  IN /\ Move
     /\ outlet' = [outlet EXCEPT ![o] = IF @ = NoRow THEN @ ELSE @ - d]
     /\ total' = AtLeast0(total - d)
     /\ batch' = [batch EXCEPT ![o] = AtLeast0(@ - d)]
     /\ moved' = [moved EXCEPT ![o] = IF d < q THEN @ ELSE @ - d]
     /\ UNCHANGED <<ingredientVars, sheets, orders, requests>>

(* Settling an order takes what the outlet has; a checkout is refused when *)
(* that is not all.  The oldest batches give first.                        *)
Sell(o, q) ==
  LET d == Min({q, Held(o)})
  IN /\ Move
     /\ outlet' = [outlet EXCEPT ![o] = IF @ = NoRow THEN @ ELSE @ - d]
     /\ total' = AtLeast0(total - d)
     /\ batch' = [batch EXCEPT ![o] = AtLeast0(@ - d)]
     /\ moved' = [moved EXCEPT ![o] = @ - d]
     /\ UNCHANGED <<ingredientVars, sheets, orders, requests>>

(* A goods receipt, with its batch. *)
Receive(o, q) ==
  /\ Move
  /\ Adjust(o, q)
  /\ batch' = [batch EXCEPT ![o] = @ + q]
  /\ UNCHANGED <<ingredientVars, sheets, orders, requests>>

(* A purchase return, or a receipt undone: batches stay. *)
TakeOut(o, q) ==
  /\ Move
  /\ Adjust(o, -q)
  /\ UNCHANGED <<batch, ingredientVars, sheets, orders, requests>>

(* writeOffExpired: all that is left of the expired batches. *)
WriteOff(o) ==
  /\ Move
  /\ batch[o] > 0
  /\ Shift(o, -batch[o], 0)
  /\ batch' = [batch EXCEPT ![o] = 0]
  /\ UNCHANGED <<ingredientVars, sheets, orders, requests>>

-----------------------------------------------------------------------------
(* Movements of the ingredient. *)

(* Mutant: the history takes the quantity asked for. *)
UseRecordsAll(q) ==
  /\ Move
  /\ ingredient' = ingredient - Min({q, ingredient})
  /\ used' = used - q
  /\ UNCHANGED <<productVars, drift, sheets, orders, requests>>

(* adjustIngredientStockBatch, in settlement mode. *)
Use(q) ==
  LET d == Min({q, ingredient})
  IN /\ Move
     /\ ingredient' = ingredient - d
     /\ used' = used - d
     /\ UNCHANGED <<productVars, drift, sheets, orders, requests>>

(* adjustIngredientStock, and a sale reversed. *)
Enter(mode, q) ==
  /\ Move
  /\ CASE mode = "add"      -> SetIngredient(ingredient + q)
       [] mode = "subtract" -> ingredient >= q /\ SetIngredient(ingredient - q)
       [] mode = "set"      -> SetIngredient(q)
  /\ UNCHANGED <<productVars, sheets, orders, requests>>

-----------------------------------------------------------------------------
(* Counting sheets. *)
Saw(r, kind) == requests[r].kind = kind
Done(r) == requests' = [requests EXCEPT ![r] = Idle]

(* The count of a sheet's line reaches the stock, if the sheet has one.    *)
Apply(sh) ==
  IF ~sh.lines THEN UNCHANGED <<productVars, ingredientVars>>
  ELSE IF sh.product
       THEN SetProduct(sh.outlet, sh.count) /\ UNCHANGED <<batch, ingredientVars>>
       ELSE SetIngredient(sh.count) /\ UNCHANGED productVars

Applied(sh) == [sh EXCEPT !.status = "completed", !.applied = @ + (IF sh.lines THEN 1 ELSE 0)]

(* A sheet counts the product anywhere, or the ingredient at Home. *)
CreateSheet(s, o, product, c, complete) ==
  LET new == [status |-> "draft", outlet |-> o, product |-> product, count |-> c,
              lines |-> TRUE, applied |-> 0]
  IN /\ sheets[s].status = "absent"
     /\ product \/ o = Home
     /\ IF complete THEN Apply(new) /\ sheets' = [sheets EXCEPT ![s] = Applied(new)]
                    ELSE sheets' = [sheets EXCEPT ![s] = new] /\ UNCHANGED <<productVars, ingredientVars>>
     /\ UNCHANGED <<orders, requests, moves>>

(* Each handler below has read a draft. *)
LoadSheet(r, s) ==
  /\ requests[r] = Idle
  /\ sheets[s].status = "draft"
  /\ requests' = [requests EXCEPT ![r] = [kind |-> "sheet", of |-> s]]
  /\ UNCHANGED <<productVars, ingredientVars, sheets, orders, moves>>

(* Mutant: the draft is not looked for again under the lock. *)
CompleteSheetAsLoaded(r) ==
  LET s == requests[r].of
  IN /\ Saw(r, "sheet")
     /\ Apply(sheets[s]) /\ sheets' = [sheets EXCEPT ![s] = Applied(@)]
     /\ Done(r)
     /\ UNCHANGED <<orders, moves>>

CompleteSheet(r) ==
  LET s == requests[r].of
  IN /\ Saw(r, "sheet")
     /\ IF sheets[s].status = "draft"
        THEN Apply(sheets[s]) /\ sheets' = [sheets EXCEPT ![s] = Applied(@)]
        ELSE UNCHANGED <<productVars, ingredientVars, sheets>>
     /\ Done(r)
     /\ UNCHANGED <<orders, moves>>

(* A destroyed sheet keeps whatever is written to it, out of sight. *)
CancelSheet(r) ==
  /\ Saw(r, "sheet")
  /\ sheets' = [sheets EXCEPT ![requests[r].of].status = IF @ = "deleted" THEN @ ELSE "cancelled"]
  /\ Done(r)
  /\ UNCHANGED <<productVars, ingredientVars, orders, moves>>

(* update: the lines made anew. *)
RecountSheet(r, c) ==
  /\ Saw(r, "sheet")
  /\ sheets' = [sheets EXCEPT ![requests[r].of].count = c, ![requests[r].of].lines = TRUE]
  /\ Done(r)
  /\ UNCHANGED <<productVars, ingredientVars, orders, moves>>

(* delete: the lines, then the sheet, each on its own; it may end between. *)
EmptySheet(r) ==
  /\ Saw(r, "sheet")
  /\ sheets' = [sheets EXCEPT ![requests[r].of].lines = FALSE]
  /\ requests' = [requests EXCEPT ![r].kind = "emptied"]
  /\ UNCHANGED <<productVars, ingredientVars, orders, moves>>

DeleteSheet(r, ends) ==
  /\ Saw(r, "emptied")
  /\ sheets' = [sheets EXCEPT ![requests[r].of].status = IF ends THEN @ ELSE "deleted"]
  /\ Done(r)
  /\ UNCHANGED <<productVars, ingredientVars, orders, moves>>

-----------------------------------------------------------------------------
(* Production orders: each handler has read the order, none locks it. *)
CreateOrder(p, status) ==
  /\ orders[p].status = "absent"
  /\ orders' = [orders EXCEPT ![p].status = status]
  /\ UNCHANGED <<productVars, ingredientVars, sheets, requests, moves>>

LoadOrder(r, p) ==
  /\ requests[r] = Idle
  /\ orders[p].status \in OrderStatus
  /\ requests' = [requests EXCEPT ![r] = [kind |-> "order", of |-> p, status |-> orders[p].status]]
  /\ UNCHANGED <<productVars, ingredientVars, sheets, orders, moves>>

Seen(r, statuses) == Saw(r, "order") /\ requests[r].status \in statuses

(* The status is written when it differs from the one that was read. *)
Saved(r, status, taken) ==
  orders' = [orders EXCEPT
    ![requests[r].of].status = IF @ = "deleted" \/ status = requests[r].status THEN @ ELSE status,
    ![requests[r].of].taken = @ + taken]

(* Mutant: no look at what is in stock. *)
StartUnchecked(r) ==
  /\ Seen(r, {"planned"})
  /\ Move
  /\ ingredient' = ingredient - Need * Planned /\ used' = used - Need * Planned
  /\ Saved(r, "in_progress", Need * Planned)
  /\ Done(r)
  /\ UNCHANGED <<productVars, drift, sheets>>

(* startProduction, the ingredient found by its id and locked: all   *)
(* of it, or none and an error.                                            *)
Start(r) ==
  /\ Seen(r, {"planned"})
  /\ Move
  /\ ingredient >= Need * Planned
  /\ SetIngredient(ingredient - Need * Planned)
  /\ Saved(r, "in_progress", Need * Planned)
  /\ Done(r)
  /\ UNCHANGED <<productVars, sheets>>

(* The ingredient found by its name (product.composition), without a lock. *)
FindByName(r) ==
  /\ Seen(r, {"planned"})
  /\ ingredient >= Need * Planned
  /\ requests' = [requests EXCEPT ![r] = [kind |-> "found", of |-> requests[r].of,
                                          status |-> requests[r].status, shelf |-> ingredient]]
  /\ UNCHANGED <<productVars, ingredientVars, sheets, orders, moves>>

(* What is left of the stock that was found replaces whatever there is; the *)
(* history records what the order took.                                    *)
StartByName(r) ==
  LET shelf == requests[r].shelf
  IN /\ Saw(r, "found")
     /\ Move
     /\ ingredient' = shelf - Need * Planned
     /\ used' = used - Need * Planned
     /\ drift' = drift + shelf - ingredient
     /\ Saved(r, "in_progress", Need * Planned)
     /\ Done(r)
     /\ UNCHANGED <<productVars, sheets>>

(* completeProduction: producedQty, or what was planned. *)
Complete(r, made) ==
  /\ Seen(r, {"in_progress"})
  /\ Move
  /\ Shift(Home, made, 0)
  /\ Saved(r, "completed", 0)
  /\ Done(r)
  /\ UNCHANGED <<batch, ingredientVars, sheets>>

(* changeStatus cancels an order that was in progress: the ingredient comes *)
(* back where the product has a bill of materials, and otherwise stays out. *)
CancelOrder(r, restores) ==
  /\ Seen(r, {"in_progress"})
  /\ IF restores
     THEN /\ Move
          /\ SetIngredient(ingredient + Need * Planned)
          /\ Saved(r, "cancelled", -(Need * Planned))
     ELSE Saved(r, "cancelled", 0) /\ UNCHANGED <<ingredientVars, moves>>
  /\ Done(r)
  /\ UNCHANGED <<productVars, sheets>>

(* changeStatus otherwise, from any status to any. *)
ChangeStatus(r, status) ==
  /\ Saw(r, "order")
  /\ ~(status = "cancelled" /\ requests[r].status = "in_progress")
  /\ Saved(r, status, 0)
  /\ Done(r)
  /\ UNCHANGED <<productVars, ingredientVars, sheets, moves>>

(* update. *)
UpdateOrder(r, status) ==
  /\ Seen(r, {"draft", "planned"})
  /\ Saved(r, status, 0)
  /\ Done(r)
  /\ UNCHANGED <<productVars, ingredientVars, sheets, moves>>

DeleteOrder(r) ==
  /\ Seen(r, {"draft", "cancelled"})
  /\ orders' = [orders EXCEPT ![requests[r].of].status = "deleted"]
  /\ Done(r)
  /\ UNCHANGED <<productVars, ingredientVars, sheets, moves>>

(* A request that found what it read of no use. *)
Refused(r) ==
  /\ \/ Seen(r, {"planned"}) /\ ingredient < Need * Planned
     \/ (Seen(r, OrderStatus) \/ Saw(r, "found")) /\ moves = MaxMoves
  /\ Done(r)
  /\ UNCHANGED <<productVars, ingredientVars, sheets, orders, moves>>

MoveProduct == \E o \in Outlets : WriteOff(o) \/ \E q \in Quantities : Sell(o, q) \/ Receive(o, q) \/ TakeOut(o, q)
MoveIngredient == \E q \in Quantities : Use(q) \/ \E mode \in {"add", "subtract", "set"} : Enter(mode, q)
Count ==
  \/ \E s \in Sheets, o \in Outlets, product, complete \in BOOLEAN, c \in Counts :
       CreateSheet(s, o, product, c, complete)
  \/ \E r \in Requests :
       \/ \E s \in Sheets : LoadSheet(r, s)
       \/ CompleteSheet(r) \/ CancelSheet(r) \/ EmptySheet(r)
       \/ \E c \in Counts : RecountSheet(r, c)
       \/ \E ends \in BOOLEAN : DeleteSheet(r, ends)
Produce ==
  \/ \E p \in Orders, status \in OrderStatus : CreateOrder(p, status)
  \/ \E r \in Requests :
       \/ \E p \in Orders : LoadOrder(r, p)
       \/ Start(r) \/ FindByName(r) \/ StartByName(r) \/ DeleteOrder(r) \/ Refused(r)
       \/ \E restores \in BOOLEAN : CancelOrder(r, restores)
       \/ \E made \in Quantities \cup {Planned} : Complete(r, made)
       \/ \E status \in OrderStatus : ChangeStatus(r, status) \/ UpdateOrder(r, status)

Next == MoveProduct \/ MoveIngredient \/ Count \/ Produce

Spec == Init /\ [][Next]_vars

-----------------------------------------------------------------------------
(* The history explains the ingredient: whatever sells, counts, produces   *)
(* or corrects it, its stock is where it began plus every change recorded, *)
(* but for what others did between the two halves of a start by name.      *)
IngredientIsHistory == ingredient = Ingredient + used + drift

(* Nothing leaves an outlet unrecorded: it holds at least what its history *)
(* sums to (more, where a removal stopped at zero or a row was seeded).    *)
OutletCoversHistory == \A o \in Outlets : Held(o) >= moved[o]

(* A sheet's count reaches the stock at most once, and never while the     *)
(* sheet can still be changed.                                             *)
SheetOnce ==
  \A s \in Sheets : sheets[s].applied <= 1 /\ (sheets[s].status = "draft" => sheets[s].applied = 0)

-----------------------------------------------------------------------------
(* What comments of the code say, and the code does not keep. *)

(* A count sets the stock of the outlet that was counted to what was       *)
(* counted there.  It does not where the product has another outlet.       *)
CountStands ==
  [][\A s \in Sheets :
       (sheets[s].status = "draft" /\ sheets'[s].status = "completed" /\ sheets[s].lines /\ sheets[s].product)
         => outlet'[sheets[s].outlet] = sheets[s].count]_vars

(* The stock of a product is the total of its outlets. *)
TotalFollows == total = SumOver([o \in Outlets |-> Held(o)])

(* The history explains the ingredient, whoever moved it. *)
HistoryIsAll == ingredient = Ingredient + used

(* A cancelled order gives back what it had taken, no more. *)
RestoredWasTaken == \A p \in Orders : orders[p].taken >= 0

(* A sheet whose count was applied stays completed. *)
AppliedStays == \A s \in Sheets : sheets[s].applied > 0 => sheets[s].status = "completed"
==============================================================================

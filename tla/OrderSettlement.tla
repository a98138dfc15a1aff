--------------------------- MODULE OrderSettlement ---------------------------
(***************************************************************************)
(* The life of an order's money: counter sale and QR order, settlement,    *)
(* split bills, cancel, void, expiry and sales returns, with the stock,    *)
(* loyalty points and journal jobs each of them moves.                     *)
(*                                                                         *)
(* Every handler does its work in one database transaction that locks the  *)
(* order row first, so it is one atomic step here.  What is not atomic is  *)
(* modelled: POST /order/update-status loads the order BEFORE the          *)
(* transaction and writes through that instance, and is re-run when        *)
(* Postgres kills it in a deadlock; the kitchen cascade reads the order    *)
(* and writes it later without any lock.                                   *)
(*                                                                         *)
(* One order has one order line of Units units.  A step whose transaction  *)
(* fails for a reason outside this module (register, tender, reference)    *)
(* changes nothing and is left out.                                        *)
(***************************************************************************)
EXTENDS OrderFinancials, FiniteSets, Functions

CONSTANTS
  Orders, Splits, Returns,   \* row identifiers
  Workers,                   \* concurrent status requests
  None,                      \* no order
  Totals,                    \* order.totalPrice of the orders considered
  Units,                     \* units on the order line
  Fulfilment,                \* kitchen statuses of order.status
  Shortfalls,                \* units the outlet may be unable to cover
  LineRepeats,               \* times a return request names the same line
  MaxDeadlocks               \* deadlock aborts one request survives

ASSUME OrdersAssumption == None \notin Orders /\ Orders # {}
ASSUME RowsAssumption == IsFiniteSet(Splits) /\ IsFiniteSet(Returns)
ASSUME TotalsAssumption == Totals \subseteq Nat
ASSUME UnitsAssumption  == Units \in Nat \ {0}
ASSUME FulfilmentAssumption ==
  /\ {"pending"} \subseteq Fulfilment
  /\ Fulfilment \cap (TerminalFulfilment \cup {"absent", "paid"}) = {}
ASSUME ShortfallsAssumption == 0 \in Shortfalls /\ Shortfalls \subseteq 0..Units
ASSUME LineRepeatsAssumption == LineRepeats \subseteq Nat \ {0}
ASSUME MaxDeadlocksAssumption == MaxDeadlocks \in 0..2

VARIABLES
  orders,     \* order rows: status, paymentStatus, total, channel, member
  ledger,     \* per order, the sums of its ledger rows and approved returns
  splits,     \* split_bill rows
  returns,    \* sales_return rows
  stock,      \* per order, its stock_history: units sold, restored, deductions
  points,     \* per order, its member_point_history: earned, reversed
  jobs,       \* per order, accounting jobs enqueued, by type
  requests    \* per worker, the status request in flight

vars == <<orders, ledger, splits, returns, stock, points, jobs, requests>>

Statuses == Fulfilment \cup TerminalFulfilment \cup {"paid"}

OrderRow == [status: Statuses \cup {"absent"}, paymentStatus: PaymentStatuses,
             total: Nat, channel: {"counter", "qr"}, member: BOOLEAN]
LedgerSums == [collected: Nat, refunded: Nat, approved: Nat]
SplitRow == [order: Orders \cup {None}, amount: Nat,
             status: {"absent", "pending", "paid", "retired"}]
ReturnRow == [order: Orders \cup {None}, units: Nat, amount: Nat,
              status: {"absent", "pending", "approved", "rejected"}]
StockHistory == [sold: Nat, restored: Nat, deductions: Nat]
PointHistory == [earned: Nat, reversed: Nat]
JobCounts == [order: Nat, reversal: Nat, return: Nat]

(* A request carries the Sequelize instance it loaded: the columns status  *)
(* and paymentStatus as read then.                                         *)
Idle == [kind |-> "idle"]
Request == [kind: {"update", "cascade"}, order: Orders, target: Statuses,
            attach: BOOLEAN, status: Statuses, paymentStatus: PaymentStatuses,
            aborts: 0..MaxDeadlocks]

TypeOK ==
  /\ orders \in [Orders -> OrderRow]
  /\ ledger \in [Orders -> LedgerSums]
  /\ splits \in [Splits -> SplitRow]
  /\ returns \in [Returns -> ReturnRow]
  /\ stock \in [Orders -> StockHistory]
  /\ points \in [Orders -> PointHistory]
  /\ jobs \in [Orders -> JobCounts]
  /\ requests \in [Workers -> Request \cup {Idle}]

Init ==
  /\ orders = [o \in Orders |-> [status |-> "absent", paymentStatus |-> "unpaid",
                                 total |-> 0, channel |-> "qr", member |-> FALSE]]
  /\ ledger = [o \in Orders |-> [collected |-> 0, refunded |-> 0, approved |-> 0]]
  /\ splits = [s \in Splits |-> [order |-> None, amount |-> 0, status |-> "absent"]]
  /\ returns = [r \in Returns |-> [order |-> None, units |-> 0, amount |-> 0,
                                   status |-> "absent"]]
  /\ stock = [o \in Orders |-> [sold |-> 0, restored |-> 0, deductions |-> 0]]
  /\ points = [o \in Orders |-> [earned |-> 0, reversed |-> 0]]
  /\ jobs = [o \in Orders |-> [order |-> 0, reversal |-> 0, return |-> 0]]
  /\ requests = [w \in Workers |-> Idle]

Exists(o) == orders[o].status # "absent"
Live(o) == Exists(o) /\ orders[o].status \notin TerminalFulfilment
Due(o) == Outstanding(orders[o], ledger[o])
StateOf(o) == FinancialState(orders[o], ledger[o])

PendingSplits(o) == {s \in Splits : splits[s].order = o /\ splits[s].status = "pending"}
PendingTotal(o) == SumFunctionOnSet([s \in Splits |-> splits[s].amount], PendingSplits(o))

ReturnsOf(o, statuses) ==
  {r \in Returns : returns[r].order = o /\ returns[r].status \in statuses}
ReturnedUnits(o, statuses) ==
  SumFunctionOnSet([r \in Returns |-> returns[r].units], ReturnsOf(o, statuses))
PendingRefunds(o) ==
  SumFunctionOnSet([r \in Returns |-> returns[r].amount], ReturnsOf(o, {"pending"}))

(* What a new return may still name and refund: pending ones count already. *)
(* (Mutants: pending returns forgotten.)                                   *)
ApprovedOnly(o) == ReturnedUnits(o, {"approved"})
ClaimedUnits(o) == ReturnedUnits(o, {"pending", "approved"})
HeldByOrder(o) == NetCollected(ledger[o])
Returnable(o) == NetCollected(ledger[o]) - PendingRefunds(o)

-----------------------------------------------------------------------------
(* Shared effects of the handlers. *)

(* Mutant: the splits are left for collection. *)
KeepSplits(o) == splits

(* No pending split outlives settlement, cancellation or void. *)
RetirePendingSplits(o) ==
  [s \in Splits |-> IF s \in PendingSplits(o)
                    THEN [splits[s] EXCEPT !.status = "retired"] ELSE splits[s]]

(* A settled order takes what the outlet has: a shortage never refuses it. *)
DeductStock(o, shortfall) ==
  stock' = [stock EXCEPT ![o].sold = @ + Units - shortfall, ![o].deductions = @ + 1]

(* A void or cancel gives back exactly what the sale history recorded. *)
ReverseStock(o) == stock' = [stock EXCEPT ![o].restored = @ + stock[o].sold]

(* One point per unit; the point history guards against a second award. *)
AwardOnce(o, member) ==
  points' = [points EXCEPT ![o].earned = IF member /\ @ = 0 THEN Units ELSE @]

(* Mutant: takes back the points of all returned units, earned or not. *)
ReverseAllPoints(o, units) ==
  points' = IF orders[o].member
            THEN [points EXCEPT ![o].reversed = @ + units] ELSE points

ReversePoints(o, units) ==
  LET remaining == points[o].earned - points[o].reversed
  IN points' = IF orders[o].member
               THEN [points EXCEPT ![o].reversed =
                       @ + IF units < remaining THEN units ELSE remaining]
               ELSE points

EnqueueOrderJobs(o) == jobs' = [jobs EXCEPT ![o].order = @ + 1]

-----------------------------------------------------------------------------
(* Creation. *)

(* A counter sale is created paid, with its stock, money and points. *)
CreateOrder(o, total, member) ==
  /\ ~Exists(o)
  /\ orders' = [orders EXCEPT ![o] =
       [status |-> "paid", paymentStatus |-> "paid", total |-> total,
        channel |-> "counter", member |-> member]]
  /\ ledger' = [ledger EXCEPT ![o].collected = total]
  /\ DeductStock(o, 0)
  /\ AwardOnce(o, member)
  /\ EnqueueOrderJobs(o)
  /\ UNCHANGED <<splits, returns, requests>>

(* A QR order is anonymous, unpaid, and takes nothing yet. *)
CreateCustomerOrder(o, total) ==
  /\ ~Exists(o)
  /\ orders' = [orders EXCEPT ![o] =
       [status |-> "pending", paymentStatus |-> "unpaid", total |-> total,
        channel |-> "qr", member |-> FALSE]]
  /\ UNCHANGED <<ledger, splits, returns, stock, points, jobs, requests>>

(* An unpaid QR order nobody acted on expires. *)
ExpireQrOrder(o) ==
  /\ Live(o)
  /\ orders[o].channel = "qr"
  /\ orders[o].status = "pending" /\ orders[o].paymentStatus = "unpaid"
  /\ ledger[o].collected = 0
  /\ ~\E s \in Splits : splits[s].order = o /\ splits[s].status \in {"pending", "paid"}
  /\ orders' = [orders EXCEPT ![o].status = "cancelled"]
  /\ UNCHANGED <<ledger, splits, returns, stock, points, jobs, requests>>

-----------------------------------------------------------------------------
(* Split bills. *)

CreateSplits(o, new, amount) ==
  /\ Exists(o)
  /\ OpenForCollection(orders[o], ledger[o])
  /\ PendingTotal(o) + SumFunctionOnSet(amount, new) <= Due(o)
  /\ splits' = [s \in Splits |->
       IF s \in new THEN [order |-> o, amount |-> amount[s], status |-> "pending"]
       ELSE splits[s]]
  /\ UNCHANGED <<orders, ledger, returns, stock, points, jobs, requests>>

(* The order as the ledger shows it once split s is paid. *)
MoneyAfter(s) ==
  LET o == splits[s].order
  IN [ledger[o] EXCEPT !.collected = @ + splits[s].amount]
StateAfter(s) == FinancialState(orders[splits[s].order], MoneyAfter(s))

CanPaySplit(s) ==
  LET o == splits[s].order
  IN /\ splits[s].status = "pending"
     /\ OpenForCollection(orders[o], ledger[o])
     /\ splits[s].amount <= Due(o)
     /\ StateAfter(s) # "INVALID"

(* A split that leaves something outstanding. *)
PaySplit(s) ==
  LET o == splits[s].order
  IN /\ CanPaySplit(s)
     /\ StateAfter(s) # "PAID"
     /\ ledger' = [ledger EXCEPT ![o] = MoneyAfter(s)]
     /\ splits' = [splits EXCEPT ![s].status = "paid"]
     /\ orders' = [orders EXCEPT ![o].paymentStatus = LegacyPaymentStatus[StateAfter(s)]]
     /\ UNCHANGED <<returns, stock, points, jobs, requests>>

(* The split that completes the order. *)
PayLastSplit(s, shortfall) ==
  LET o == splits[s].order
  IN /\ CanPaySplit(s)
     /\ StateAfter(s) = "PAID"
     /\ ledger' = [ledger EXCEPT ![o] = MoneyAfter(s)]
     /\ splits' = [RetirePendingSplits(o) EXCEPT ![s].status = "paid"]
     /\ orders' = [orders EXCEPT ![o].status = "paid", ![o].paymentStatus = "paid"]
     /\ IF orders[o].paymentStatus # "paid"
        THEN DeductStock(o, shortfall) /\ AwardOnce(o, orders[o].member)
        ELSE UNCHANGED <<stock, points>>
     /\ EnqueueOrderJobs(o)
     /\ UNCHANGED <<returns, requests>>

CancelSplit(s) ==
  /\ splits[s].status = "pending"
  /\ splits' = [splits EXCEPT ![s].status = "retired"]
  /\ UNCHANGED <<orders, ledger, returns, stock, points, jobs, requests>>

MergeSplits(o, old, new) ==
  /\ Cardinality(old) >= 2 /\ old \subseteq PendingSplits(o)
  /\ splits[new].status = "absent"
  /\ splits' = [s \in Splits |->
       IF s \in old THEN [splits[s] EXCEPT !.status = "retired"]
       ELSE IF s = new
            THEN [order |-> o, status |-> "pending",
                  amount |-> SumFunctionOnSet([m \in Splits |-> splits[m].amount], old)]
            ELSE splits[s]]
  /\ UNCHANGED <<orders, ledger, returns, stock, points, jobs, requests>>

-----------------------------------------------------------------------------
(* Sales returns. *)

(* Math.round of the units' share of what the order collected. *)
RefundShare(total, units) == (2 * total * units + Units) \div (2 * Units)

(* A request names the order line `repeats` times, `qty` units each time;  *)
(* every mention is checked on its own.                                    *)
ReturnSalesOrder(r, o, repeats, qty) ==
  LET units  == repeats * qty
      amount == RefundShare(orders[o].total, units)
  IN /\ returns[r].status = "absent"
     /\ Exists(o)
     /\ orders[o].paymentStatus \in {"paid", "partial"}
     /\ Due(o) <= 0
     /\ ClaimedUnits(o) + qty <= Units
     /\ amount <= Returnable(o)
     /\ returns' = [returns EXCEPT ![r] =
          [order |-> o, units |-> units, amount |-> amount, status |-> "pending"]]
     /\ UNCHANGED <<orders, ledger, splits, stock, points, jobs, requests>>

ApproveReturn(r) ==
  LET o     == returns[r].order
      ret   == returns[r]
      money == [ledger[o] EXCEPT !.refunded = @ + ret.amount, !.approved = @ + ret.amount]
      state == FinancialState(orders[o], money)
  IN /\ ret.status = "pending"
     /\ orders[o].status \notin TerminalFulfilment
     /\ ret.amount <= NetCollected(ledger[o])
     /\ ledger' = [ledger EXCEPT ![o] = money]
     /\ returns' = [returns EXCEPT ![r].status = "approved"]
     /\ stock' = IF stock[o].sold > 0
                 THEN [stock EXCEPT ![o].restored = @ + ret.units] ELSE stock
     /\ ReversePoints(o, ret.units)
     /\ orders' = IF state = "INVALID" THEN orders
                  ELSE [orders EXCEPT ![o].paymentStatus = LegacyPaymentStatus[state]]
     /\ jobs' = [jobs EXCEPT ![o].return = @ + 1]
     /\ UNCHANGED <<splits, requests>>

RejectReturn(r) ==
  /\ returns[r].status = "pending"
  /\ returns' = [returns EXCEPT ![r].status = "rejected"]
  /\ UNCHANGED <<orders, ledger, splits, stock, points, jobs, requests>>

-----------------------------------------------------------------------------
(* POST /order/update-status. *)

(* The instance is loaded before the transaction opens. *)
LoadOrder(w, kind, o, target, attach) ==
  /\ requests[w] = Idle
  /\ Exists(o)
  /\ requests' = [requests EXCEPT ![w] =
       [kind |-> kind, order |-> o, target |-> target, attach |-> attach,
        status |-> orders[o].status, paymentStatus |-> orders[o].paymentStatus,
        aborts |-> 0]]
  /\ UNCHANGED <<orders, ledger, splits, returns, stock, points, jobs>>

(* Sequelize: instance.update writes a column only when the value differs  *)
(* from the instance's own, whatever the row holds by now.                 *)
Saved(row, instance, value) == IF instance = value THEN row ELSE value

(* order.update({status, customerId}) and, after a change of money, the    *)
(* cache re-derived from the ledger.                                       *)
SaveStatus(q) ==
  [orders[q.order] EXCEPT !.status = Saved(@, q.status, q.target),
                          !.member = @ \/ (q.attach /\ q.aborts = 0)]
(* Mutant: the cache is left as it was. *)
SaveStatusOnly(q, state) == SaveStatus(q)
SaveStatusAndCache(q, state) ==
  [SaveStatus(q) EXCEPT
     !.paymentStatus = Saved(@, q.paymentStatus, LegacyPaymentStatus[state])]

(* The state the transition would leave, under the requested status. *)
FinalState(q, money) ==
  LedgerState([orders[q.order] EXCEPT !.status = q.target], money)

(* Mutant: a zero-payable order may complete again and again. *)
MaySettleAgain(q) ==
  LET o == q.order
  IN /\ q.kind = "update" /\ q.target = "paid"
     /\ Live(o)
     /\ StateOf(o) \notin {"REFUNDED", "PARTIALLY_REFUNDED", "INVALID"}
     /\ \/ Due(o) > 0
        \/ orders[o].total = 0 /\ ledger[o].collected = 0 /\ StateOf(o) = "PAID"

(* What the order would be left with is checked again before the commit.   *)
Commits(q, money) ==
  FinalState(q, money) # "INVALID" /\ money.collected <= orders[q.order].total

MaySettle(q) ==
  LET o == q.order
  IN /\ q.kind = "update" /\ q.target = "paid"
     /\ Live(o)
     /\ StateOf(o) \notin {"REFUNDED", "PARTIALLY_REFUNDED", "INVALID"}
     /\ \/ Due(o) > 0
        \/ /\ orders[o].total = 0 /\ ledger[o].collected = 0
           /\ StateOf(o) = "PAID" /\ orders[o].paymentStatus # "paid"

(* Settle exactly what is outstanding; a zero-payable order completes      *)
(* without a tender and without points.                                    *)
Settle(w, shortfall) ==
  LET q == requests[w]
      o == q.order
      money == [ledger[o] EXCEPT !.collected = @ + Due(o)]
  IN /\ q # Idle /\ MaySettle(q)
     /\ Commits(q, money)
     /\ ledger' = [ledger EXCEPT ![o] = money]
     /\ orders' = [orders EXCEPT ![o] = SaveStatusAndCache(q, FinalState(q, money))]
     /\ splits' = RetirePendingSplits(o)
     /\ IF orders[o].paymentStatus # "paid" THEN DeductStock(o, shortfall)
                                            ELSE UNCHANGED stock
     /\ IF Due(o) > 0 THEN AwardOnce(o, orders[o].member \/ q.attach)
                      ELSE UNCHANGED points
     /\ EnqueueOrderJobs(o)
     /\ requests' = [requests EXCEPT ![w] = Idle]
     /\ UNCHANGED returns

MayEnd(q) ==
  LET o == q.order
  IN /\ q.kind = "update" /\ q.target \in TerminalFulfilment
     /\ Live(o)
     /\ StateOf(o) # "INVALID"
     /\ IF q.target = "cancelled"
        THEN NetCollected(ledger[o]) <= 0
        ELSE NetCollected(ledger[o]) > 0 /\ StateOf(o) \in {"PAID", "PARTIALLY_PAID"}
     /\ ReturnsOf(o, {"approved"}) = {}

(* Mutant: whether stock left is read from the instance. *)
WasPaidWhenLoaded(q) == q.paymentStatus = "paid"

(* The stock left when the locked row says paid. *)
WasPaid(q) == orders[q.order].paymentStatus = "paid"

(* Cancel an order that holds no money, or void one that does: the void    *)
(* refunds every settlement row.                                           *)
EndOrder(w) ==
  LET q == requests[w]
      o == q.order
      money == IF q.target = "void"
               THEN [ledger[o] EXCEPT !.refunded = @ + ledger[o].collected]
               ELSE ledger[o]
  IN /\ q # Idle /\ MayEnd(q)
     /\ Commits(q, money)
     /\ ledger' = [ledger EXCEPT ![o] = money]
     /\ orders' = [orders EXCEPT ![o] = SaveStatusAndCache(q, FinalState(q, money))]
     /\ splits' = RetirePendingSplits(o)
     /\ IF WasPaid(q) THEN ReverseStock(o) ELSE UNCHANGED stock
     /\ ReversePoints(o, Units)
     /\ jobs' = [jobs EXCEPT ![o].reversal = @ + 1]
     /\ requests' = [requests EXCEPT ![w] = Idle]
     /\ UNCHANGED returns

(* A kitchen status on a live order, or the same terminal status again. *)
SetStatus(w) ==
  LET q == requests[w]
      o == q.order
  IN /\ q # Idle /\ q.kind = "update"
     /\ \/ q.target \in Fulfilment /\ Live(o)
        \/ q.target \in TerminalFulfilment /\ orders[o].status = q.target
     /\ orders' = [orders EXCEPT ![o] = SaveStatus(q)]
     /\ requests' = [requests EXCEPT ![w] = Idle]
     /\ UNCHANGED <<ledger, splits, returns, stock, points, jobs>>

(* Postgres kills the transaction after order.update ran in it: the rows   *)
(* roll back, the in-memory instance keeps the new status, member and, if  *)
(* the second update ran too, paymentStatus.  The callback runs again with *)
(* that instance.                                                          *)
AbortByDeadlock(w, cacheSaved) ==
  LET q == requests[w]
      cache == IF q.target = "paid" THEN "paid"
               ELSE IF q.target = "void" THEN "refunded" ELSE "unpaid"
  IN /\ q # Idle /\ q.aborts < MaxDeadlocks
     /\ MaySettle(q) \/ MayEnd(q)
     /\ requests' = [requests EXCEPT ![w].status = q.target, ![w].aborts = @ + 1,
                       ![w].paymentStatus = IF cacheSaved THEN cache ELSE @]
     /\ UNCHANGED <<orders, ledger, splits, returns, stock, points, jobs>>

(* Mutant: the cascade trusts its unlocked read. *)
CascadeBlindly(w) ==
  LET q == requests[w]
  IN /\ q # Idle /\ q.kind = "cascade"
     /\ q.status \notin TerminalFulfilment
     /\ orders' = [orders EXCEPT ![q.order].status = q.target]
     /\ requests' = [requests EXCEPT ![w] = Idle]
     /\ UNCHANGED <<ledger, splits, returns, stock, points, jobs>>

(* The kitchen cascade: an unlocked read, then an UPDATE guarded by        *)
(* status NOT IN the terminal ones.                                        *)
CascadeItemStatus(w) ==
  LET q == requests[w]
  IN /\ q # Idle /\ q.kind = "cascade"
     /\ q.status \notin TerminalFulfilment
     /\ Live(q.order)
     /\ orders' = [orders EXCEPT ![q.order].status = q.target]
     /\ requests' = [requests EXCEPT ![w] = Idle]
     /\ UNCHANGED <<ledger, splits, returns, stock, points, jobs>>

(* A request whose guards fail, or whose transaction throws, changes       *)
(* nothing and is answered.                                                *)
Refuse(w) ==
  /\ requests[w] # Idle
  /\ requests' = [requests EXCEPT ![w] = Idle]
  /\ UNCHANGED <<orders, ledger, splits, returns, stock, points, jobs>>

-----------------------------------------------------------------------------
Create ==
  \E o \in Orders, total \in Totals :
    \/ \E member \in BOOLEAN : CreateOrder(o, total, member)
    \/ CreateCustomerOrder(o, total)

SplitBill ==
  \/ \E o \in Orders, new \in SUBSET {s \in Splits : splits[s].status = "absent"} :
       \E amount \in [new -> 0..orders[o].total] :
         new # {} /\ CreateSplits(o, new, amount)
  \/ \E s \in Splits : \/ PaySplit(s)
                       \/ \E shortfall \in Shortfalls : PayLastSplit(s, shortfall)
                       \/ CancelSplit(s)
  \/ \E o \in Orders : \E old \in SUBSET PendingSplits(o), new \in Splits :
       MergeSplits(o, old, new)

SalesReturn ==
  \E r \in Returns :
    \/ \E o \in Orders, repeats \in LineRepeats, qty \in 1..Units :
         ReturnSalesOrder(r, o, repeats, qty)
    \/ ApproveReturn(r)
    \/ RejectReturn(r)

UpdateStatus ==
  \E w \in Workers :
    \/ \E o \in Orders, target \in Statuses, attach \in BOOLEAN :
         LoadOrder(w, "update", o, target, attach)
    \/ \E o \in Orders, target \in Fulfilment \ {"confirmed"} :
         LoadOrder(w, "cascade", o, target, FALSE)
    \/ \E shortfall \in Shortfalls : Settle(w, shortfall)
    \/ EndOrder(w) \/ SetStatus(w) \/ CascadeItemStatus(w)
    \/ \E cacheSaved \in BOOLEAN : AbortByDeadlock(w, cacheSaved)
    \/ Refuse(w)

Next == Create \/ (\E o \in Orders : ExpireQrOrder(o))
        \/ SplitBill \/ SalesReturn \/ UpdateStatus

Spec == Init /\ [][Next]_vars

-----------------------------------------------------------------------------
(* Correctness. *)

(* The ledger never refunds more than it collected nor collects more than  *)
(* the order's total, whatever handlers run, are retried or are killed.    *)
LedgerBounds ==
  \A o \in Orders : /\ ledger[o].refunded <= ledger[o].collected
                    /\ ledger[o].collected <= orders[o].total

(* No legal sequence of calls leaves an order in the unreconciled money    *)
(* state that no handler can leave again.                                  *)
NeverUnreconciled == \A o \in Orders : Exists(o) => StateOf(o) # "INVALID"

(* The cached paymentStatus says what the ledger says (a zero-payable      *)
(* order owes nothing before it completes).                                *)
CacheAgrees ==
  \A o \in Orders :
    Exists(o) /\ ~(orders[o].total = 0 /\ Live(o)) =>
      /\ LedgerState(orders[o], ledger[o]) # "INVALID"
      /\ orders[o].paymentStatus = LegacyPaymentStatus[LedgerState(orders[o], ledger[o])]

(* Pending splits exist only while money may still be collected, and never *)
(* ask for more than is outstanding: all of them can be paid.              *)
SplitsCovered ==
  \A o \in Orders : PendingSplits(o) # {} =>
    OpenForCollection(orders[o], ledger[o]) /\ PendingTotal(o) <= Due(o)

(* Pending returns of a live order can all be approved: their refunds are  *)
(* covered by what the order still holds.                                  *)
RefundsReserved ==
  \A o \in Orders : Live(o) => PendingRefunds(o) <= NetCollected(ledger[o])

(* The order has been fully settled, by whichever path. *)
Completed(o) ==
  /\ orders[o].paymentStatus # "unpaid"
  /\ StateOf(o) \in {"PAID", "PARTIALLY_REFUNDED", "REFUNDED"}

(* Stock leaves exactly once, when the order completes, and comes back     *)
(* exactly once: with the void or cancel, or with the approved returns.    *)
StockOnce ==
  \A o \in Orders :
    /\ Live(o) =>
         /\ stock[o].deductions = IF Completed(o) THEN 1 ELSE 0
         /\ stock[o].restored = IF stock[o].sold > 0
                                THEN ReturnedUnits(o, {"approved"}) ELSE 0
    /\ ~Live(o) => stock[o].restored = stock[o].sold /\ stock[o].deductions <= 1

(* Returns never put back more than the sale took out. *)
RestoredWithinSale == \A o \in Orders : stock[o].restored <= stock[o].sold

(* Earned points are awarded at most once, taken back with the returned    *)
(* units, and gone when the order is cancelled or voided.                  *)
PointsFollowGoods ==
  \A o \in Orders :
    LET returned == ReturnedUnits(o, {"approved"})
    IN /\ points[o].earned \in {0, Units}
       /\ points[o].reversed =
            IF ~Live(o) \/ points[o].earned < returned THEN points[o].earned ELSE returned

(* The books hear of every settlement, approved return and reversal        *)
(* exactly once.                                                           *)
JobsFollowMoney ==
  \A o \in Orders :
    /\ jobs[o].order = stock[o].deductions
    /\ jobs[o].return = Cardinality(ReturnsOf(o, {"approved"}))
    /\ Live(o) => jobs[o].reversal = 0
    /\ ~Live(o) => jobs[o].order <= jobs[o].reversal /\ jobs[o].reversal <= 1

(* Nothing reopens a cancelled or voided order or moves its money again.   *)
TerminalStays ==
  [][\A o \in Orders : orders[o].status \in TerminalFulfilment =>
       orders'[o].status = orders[o].status /\ ledger'[o] = ledger[o]]_vars

-----------------------------------------------------------------------------
(* The account each order's rows stand for. *)

AccountPhase(o) ==
  IF ~Exists(o) THEN "none"
  ELSE IF ~Live(o) THEN "closed"
  ELSE IF ledger[o].collected = orders[o].total /\ orders[o].paymentStatus # "unpaid"
       THEN "settled" ELSE "open"

Account == INSTANCE OrderAccount WITH
  account <- [o \in Orders |->
    [phase |-> AccountPhase(o),
     due   |-> IF Live(o) THEN orders[o].total - ledger[o].collected ELSE 0,
     held  |-> NetCollected(ledger[o])]]

(* Splits, settlements, voids and returns together do to an order's money  *)
(* what the account promises, and nothing else.                            *)
AccountSpec == Account!Spec
==============================================================================

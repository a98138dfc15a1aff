------------------------ MODULE OrderSettlementProofs ------------------------
(***************************************************************************)
(* Theorems of OrderSettlement for every set of orders, splits, returns    *)
(* and workers, every total and every number of deadlock retries.          *)
(***************************************************************************)
EXTENDS OrderSettlement, SumTheorems

(* Splits and returns are of orders that exist. *)
RowsHaveOrder ==
  /\ \A s \in Splits : splits[s].status # "absent" =>
       splits[s].order \in Orders /\ Exists(splits[s].order)
  /\ \A r \in Returns : returns[r].status # "absent" =>
       returns[r].order \in Orders /\ Exists(returns[r].order)

AbsentIsEmpty ==
  \A o \in Orders : ~Exists(o) =>
    /\ orders[o].paymentStatus = "unpaid" /\ orders[o].total = 0
    /\ ledger[o].collected = 0 /\ ledger[o].refunded = 0 /\ ledger[o].approved = 0

PointsBound == \A o \in Orders : points[o].reversed <= points[o].earned

ApprovedRefunded == \A o \in Orders : ledger[o].approved <= ledger[o].refunded

(* A cached 'paid' was once true, and money is never uncollected. *)
PaidIsCollected ==
  \A o \in Orders : orders[o].paymentStatus = "paid" =>
    ledger[o].collected = orders[o].total

(* Money is still being collected for the order. *)
Collecting(o) ==
  /\ orders[o].status \notin TerminalFulfilment
  /\ ledger[o].refunded = 0
  /\ ledger[o].collected < orders[o].total

(* The inductive invariant. *)
Books ==
  /\ TypeOK /\ RowsHaveOrder /\ AbsentIsEmpty /\ PointsBound
  /\ LedgerBounds /\ ApprovedRefunded /\ PaidIsCollected


-----------------------------------------------------------------------------
(* The financial state. *)

LEMMA StateTypes ==
  ASSUME NEW row \in OrderRow, NEW money \in LedgerSums
  PROVE  /\ Outstanding(row, money) \in Int
         /\ LedgerState(row, money) \in FinancialStates
         /\ FinancialState(row, money) \in FinancialStates
         /\ FinancialState(row, money) # "INVALID" =>
              FinancialState(row, money) = LedgerState(row, money)
         /\ LedgerState(row, money) # "INVALID" =>
              LegacyPaymentStatus[LedgerState(row, money)] \in PaymentStatuses
<1>1. Outstanding(row, money) \in Int
  BY DEF Outstanding, ReversedValue, OrderRow, LedgerSums
<1>2. LedgerState(row, money) \in FinancialStates
  BY DEF LedgerState, DeriveFinancialState, FinancialStates
<1>3. FinancialState(row, money) \in FinancialStates
  BY <1>2 DEF FinancialState, FinancialStates
<1>4. FinancialState(row, money) # "INVALID" =>
        FinancialState(row, money) = LedgerState(row, money)
  BY DEF FinancialState
<1>5. LedgerState(row, money) # "INVALID" =>
        LegacyPaymentStatus[LedgerState(row, money)] \in PaymentStatuses
  BY <1>2 DEF LegacyPaymentStatus, PaymentStatuses, FinancialStates
<1> QED BY <1>1, <1>2, <1>3, <1>4, <1>5

(* Collection is open exactly while money is missing and none was refunded. *)
LEMMA OpenIff ==
  ASSUME NEW row \in OrderRow, NEW money \in LedgerSums,
         money.approved <= money.refunded,
         row.paymentStatus = "paid" => money.collected = row.total
  PROVE  /\ OpenForCollection(row, money) <=>
              /\ row.status \notin TerminalFulfilment
              /\ money.refunded = 0
              /\ money.collected < row.total
         /\ OpenForCollection(row, money) =>
              Outstanding(row, money) = row.total - money.collected
<1> DEFINE G == row.total
           C == money.collected
           R == money.refunded
           A == money.approved
           O == Outstanding(row, money)
           state == LedgerState(row, money)
<1>1. G \in Nat /\ C \in Nat /\ R \in Nat /\ A \in Nat /\ A <= R
  BY DEF OrderRow, LedgerSums
<1>2. ASSUME OpenForCollection(row, money)
      PROVE  row.status \notin TerminalFulfilment /\ R = 0 /\ C < G /\ O = G - C
  <2>1. row.status \notin TerminalFulfilment /\ state \in OpenStates
    BY <1>2 DEF OpenForCollection, FinancialState, OpenStates
  <2>2. R = 0
    BY <1>1, <2>1 DEF LedgerState, DeriveFinancialState, OpenStates
  <2>3. O = G - C
    BY <1>1, <2>1, <2>2 DEF Outstanding, ReversedValue
  <2>4. C < G
    BY <1>1, <2>1, <2>2, <2>3 DEF LedgerState, DeriveFinancialState, OpenStates
  <2> QED BY <2>1, <2>2, <2>3, <2>4
<1>3. ASSUME row.status \notin TerminalFulfilment, R = 0, C < G
      PROVE  OpenForCollection(row, money)
  <2>1. O = G - C
    BY <1>1, <1>3 DEF Outstanding, ReversedValue
  <2>2. state \in OpenStates
    BY <1>1, <1>3, <2>1 DEF LedgerState, DeriveFinancialState, OpenStates
  <2>3. row.paymentStatus # "paid"
    BY <1>1, <1>3
  <2> QED BY <1>3, <2>2, <2>3 DEF OpenForCollection, FinancialState
<1> QED BY <1>2, <1>3

PaidMeansCollected(row, money) == money.collected = row.total

(* PAID: all the money came in and none went out. *)
LEMMA PaidState ==
  ASSUME NEW row \in OrderRow, NEW money \in LedgerSums,
         money.approved <= money.refunded, money.collected <= row.total,
         LedgerState(row, money) = "PAID"
  PROVE  PaidMeansCollected(row, money)
<1>1. money.refunded = 0 /\ money.approved = 0
  BY DEF LedgerState, DeriveFinancialState, LedgerSums
<1>2. /\ money.collected \in Nat /\ row.total \in Nat
      /\ money.collected # 0 => Outstanding(row, money) = 0
      /\ money.collected = 0 => row.total = 0
  BY <1>1, StateTypes DEF LedgerState, DeriveFinancialState, LedgerSums, OrderRow
<1>3. Outstanding(row, money) \in {row.total - money.collected, 0 - money.collected}
  BY <1>1, <1>2 DEF Outstanding, ReversedValue
<1> QED BY <1>2, <1>3 DEF PaidMeansCollected

-----------------------------------------------------------------------------
(* Creation keeps the books. *)

LEMMA CreateOrderBooks ==
  ASSUME Books, NEW o \in Orders, NEW total \in Totals, NEW member \in BOOLEAN,
         CreateOrder(o, total, member)
  PROVE  Books'
<1> USE TotalsAssumption, UnitsAssumption, ShortfallsAssumption DEF Books
<1>1. TypeOK'
  <2>1. orders' \in [Orders -> OrderRow]
    BY DEF TypeOK, CreateOrder, OrderRow, Statuses, PaymentStatuses
  <2>2. ledger' \in [Orders -> LedgerSums]
    BY DEF TypeOK, CreateOrder, LedgerSums
  <2>3. stock' \in [Orders -> StockHistory]
    BY DEF TypeOK, CreateOrder, DeductStock, StockHistory
  <2>4. points' \in [Orders -> PointHistory]
    BY DEF TypeOK, CreateOrder, AwardOnce, PointHistory
  <2>5. jobs' \in [Orders -> JobCounts]
    <3>1. jobs \in [Orders -> JobCounts]
      BY DEF TypeOK
    <3>2. PICK old \in JobCounts : old = jobs[o]
      BY <3>1
    <3>3. [old EXCEPT !.order = @ + 1] \in JobCounts
      BY DEF JobCounts
    <3>4. jobs' = [jobs EXCEPT ![o] = [old EXCEPT !.order = @ + 1]]
      BY <3>2 DEF CreateOrder, EnqueueOrderJobs
    <3> QED BY <3>1, <3>3, <3>4
  <2> QED BY <2>1, <2>2, <2>3, <2>4, <2>5 DEF TypeOK, CreateOrder
<1>2. RowsHaveOrder'
  BY DEF RowsHaveOrder, Exists, CreateOrder, TypeOK
<1>3. AbsentIsEmpty'
  BY DEF AbsentIsEmpty, Exists, CreateOrder, TypeOK, OrderRow, LedgerSums
<1>4. PointsBound'
  BY DEF PointsBound, CreateOrder, AwardOnce, TypeOK, PointHistory
<1>5. LedgerBounds' /\ ApprovedRefunded' /\ PaidIsCollected'
  BY DEF LedgerBounds, ApprovedRefunded, PaidIsCollected, AbsentIsEmpty, Exists,
         CreateOrder, TypeOK, OrderRow, LedgerSums
<1> QED BY <1>1, <1>2, <1>3, <1>4, <1>5

LEMMA CreateCustomerOrderBooks ==
  ASSUME Books, NEW o \in Orders, NEW total \in Totals, CreateCustomerOrder(o, total)
  PROVE  Books'
<1> USE TotalsAssumption, FulfilmentAssumption DEF Books
<1>1. TypeOK'
  <2>1. orders' \in [Orders -> OrderRow]
    BY DEF TypeOK, CreateCustomerOrder, OrderRow, Statuses, PaymentStatuses
  <2> QED BY <2>1 DEF TypeOK, CreateCustomerOrder
<1>2. RowsHaveOrder'
  BY DEF RowsHaveOrder, Exists, CreateCustomerOrder, TypeOK
<1>3. AbsentIsEmpty'
  BY DEF AbsentIsEmpty, Exists, CreateCustomerOrder, TypeOK, OrderRow, LedgerSums
<1>4. PointsBound'
  BY DEF PointsBound, CreateCustomerOrder
<1>5. LedgerBounds' /\ ApprovedRefunded' /\ PaidIsCollected'
  BY DEF LedgerBounds, ApprovedRefunded, PaidIsCollected, AbsentIsEmpty, Exists,
         CreateCustomerOrder, TypeOK, OrderRow, LedgerSums
<1> QED BY <1>1, <1>2, <1>3, <1>4, <1>5

(* A change of status alone keeps the books. *)
LEMMA StatusBooks ==
  ASSUME Books, NEW o \in Orders, NEW row \in OrderRow,
         Exists(o), row.status # "absent",
         row.paymentStatus = orders[o].paymentStatus, row.total = orders[o].total,
         orders' = [orders EXCEPT ![o] = row],
         ledger' = ledger, splits' = splits, returns' = returns, stock' = stock,
         points' = points, jobs' = jobs,
         requests' \in [Workers -> Request \cup {Idle}]
  PROVE  Books'
<1> USE DEF Books
<1>1. TypeOK'
  BY DEF TypeOK
<1>2. RowsHaveOrder'
  BY DEF RowsHaveOrder, Exists, TypeOK
<1>3. AbsentIsEmpty'
  BY DEF AbsentIsEmpty, Exists, TypeOK
<1>4. PointsBound'
  BY DEF PointsBound
<1>5. LedgerBounds' /\ ApprovedRefunded' /\ PaidIsCollected'
  BY DEF LedgerBounds, ApprovedRefunded, PaidIsCollected, TypeOK
<1> QED BY <1>1, <1>2, <1>3, <1>4, <1>5

LEMMA ExpireQrOrderBooks ==
  ASSUME Books, NEW o \in Orders, ExpireQrOrder(o)
  PROVE  Books'
<1> DEFINE row == [orders[o] EXCEPT !.status = "cancelled"]
<1>1. orders[o] \in OrderRow
  BY DEF Books, TypeOK
<1>2. /\ row \in OrderRow /\ row.status # "absent"
      /\ row.paymentStatus = orders[o].paymentStatus /\ row.total = orders[o].total
  BY <1>1 DEF OrderRow, Statuses, TerminalFulfilment
<1>3. orders' = [orders EXCEPT ![o] = row]
  BY DEF ExpireQrOrder
<1>4. requests' \in [Workers -> Request \cup {Idle}]
  BY DEF ExpireQrOrder, Books, TypeOK
<1> HIDE DEF row
<1> QED BY <1>2, <1>3, <1>4, StatusBooks DEF ExpireQrOrder, Live

(* Splits and returns alone keep the books. *)
LEMMA RowsBooks ==
  ASSUME Books,
         orders' = orders, ledger' = ledger, stock' = stock, points' = points,
         jobs' = jobs,
         requests' \in [Workers -> Request \cup {Idle}],
         splits' \in [Splits -> SplitRow], returns' \in [Returns -> ReturnRow],
         \A s \in Splits : splits'[s].status # "absent" =>
           splits'[s].order \in Orders /\ Exists(splits'[s].order),
         \A r \in Returns : returns'[r].status # "absent" =>
           returns'[r].order \in Orders /\ Exists(returns'[r].order)
  PROVE  Books'
<1> USE DEF Books
<1>1. TypeOK'
  BY DEF TypeOK
<1>2. RowsHaveOrder'
  BY DEF RowsHaveOrder, Exists
<1>3. AbsentIsEmpty' /\ PointsBound' /\ LedgerBounds' /\ ApprovedRefunded' /\ PaidIsCollected'
  BY DEF AbsentIsEmpty, Exists, PointsBound, LedgerBounds, ApprovedRefunded, PaidIsCollected
<1> QED BY <1>1, <1>2, <1>3

-----------------------------------------------------------------------------
(* Split bills keep the books. *)

LEMMA CreateSplitsBooks ==
  ASSUME Books, NEW o \in Orders,
         NEW new \in SUBSET {s \in Splits : splits[s].status = "absent"},
         NEW amount \in [new -> 0..orders[o].total],
         CreateSplits(o, new, amount)
  PROVE  Books'
<1>1. splits' \in [Splits -> SplitRow]
  <2>1. orders[o].total \in Nat
    BY DEF Books, TypeOK, OrderRow
  <2>2. \A s \in new : amount[s] \in Nat
    BY <2>1
  <2> QED BY <2>2 DEF CreateSplits, Books, TypeOK, SplitRow
<1>2. \A s \in Splits : splits'[s].status # "absent" =>
        splits'[s].order \in Orders /\ Exists(splits'[s].order)
  BY DEF CreateSplits, Books, RowsHaveOrder, TypeOK, SplitRow
<1> QED BY <1>1, <1>2, RowsBooks DEF CreateSplits, Books, RowsHaveOrder, TypeOK

LEMMA CancelSplitBooks ==
  ASSUME Books, NEW s \in Splits, CancelSplit(s)
  PROVE  Books'
<1>1. splits' \in [Splits -> SplitRow]
  BY DEF CancelSplit, Books, TypeOK, SplitRow
<1>2. \A z \in Splits : splits'[z].status # "absent" =>
        splits'[z].order \in Orders /\ Exists(splits'[z].order)
  BY DEF CancelSplit, Books, RowsHaveOrder, TypeOK, SplitRow
<1> QED BY <1>1, <1>2, RowsBooks DEF CancelSplit, Books, RowsHaveOrder, TypeOK

LEMMA MergeSplitsBooks ==
  ASSUME Books, NEW o \in Orders, NEW old \in SUBSET PendingSplits(o), NEW new \in Splits,
         MergeSplits(o, old, new)
  PROVE  Books'
<1> DEFINE f == [m \in Splits |-> splits[m].amount]
<1>1. SumFunctionOnSet(f, old) \in Nat
  <2>1. IsFiniteSet(old)
    BY RowsAssumption, FS_Subset DEF PendingSplits
  <2>2. \A m \in old : f[m] \in Nat
    BY DEF PendingSplits, Books, TypeOK, SplitRow
  <2> HIDE DEF f
  <2> QED BY <2>1, <2>2, SumNat
<1>2. splits' \in [Splits -> SplitRow]
  BY <1>1 DEF MergeSplits, Books, TypeOK, SplitRow
<1>3. Exists(o)
  <2>1. old # {}
    <3>1. Cardinality({}) = 0 /\ Cardinality(old) >= 2
      BY FS_EmptySet DEF MergeSplits
    <3> QED BY <3>1
  <2> QED BY <2>1 DEF PendingSplits, Books, RowsHaveOrder
<1>4. \A z \in Splits : splits'[z].status # "absent" =>
        splits'[z].order \in Orders /\ Exists(splits'[z].order)
  BY <1>3 DEF MergeSplits, PendingSplits, Books, RowsHaveOrder, TypeOK, SplitRow
<1> QED BY <1>2, <1>4, RowsBooks DEF MergeSplits, Books, RowsHaveOrder, TypeOK

(* Money moves within the bounds, and whatever moves with it has its type. *)
LEMMA MoneyBooks ==
  ASSUME Books, NEW o \in Orders, NEW row \in OrderRow, NEW money \in LedgerSums,
         Exists(o), row.status # "absent", row.total = orders[o].total,
         row.paymentStatus = "paid" => money.collected = row.total,
         money.approved <= money.refunded, money.refunded <= money.collected,
         money.collected <= row.total,
         orders' = [orders EXCEPT ![o] = row],
         ledger' = [ledger EXCEPT ![o] = money],
         splits' \in [Splits -> SplitRow], returns' \in [Returns -> ReturnRow],
         \A s \in Splits : splits'[s].order = splits[s].order
           /\ (splits'[s].status # "absent" => splits[s].status # "absent"),
         \A r \in Returns : returns'[r].order = returns[r].order
           /\ (returns'[r].status # "absent" => returns[r].status # "absent"),
         stock' \in [Orders -> StockHistory], points' \in [Orders -> PointHistory],
         PointsBound', jobs' \in [Orders -> JobCounts],
         requests' \in [Workers -> Request \cup {Idle}]
  PROVE  Books'
<1> USE DEF Books
<1>1. TypeOK'
  BY DEF TypeOK
<1>2. RowsHaveOrder'
  BY DEF RowsHaveOrder, Exists, TypeOK
<1>3. AbsentIsEmpty'
  BY DEF AbsentIsEmpty, Exists, TypeOK
<1>4. LedgerBounds' /\ ApprovedRefunded' /\ PaidIsCollected'
  BY DEF LedgerBounds, ApprovedRefunded, PaidIsCollected, TypeOK
<1> QED BY <1>1, <1>2, <1>3, <1>4

(* What the guards of paying a split give. *)
LEMMA CanPay ==
  ASSUME Books, NEW s \in Splits, CanPaySplit(s)
  PROVE  /\ splits[s].order \in Orders /\ Exists(splits[s].order)
         /\ Collecting(splits[s].order)
         /\ splits[s].amount + ledger[splits[s].order].collected
              <= orders[splits[s].order].total
         /\ orders[splits[s].order].paymentStatus # "paid"
         /\ MoneyAfter(s) \in LedgerSums
         /\ MoneyAfter(s) = [ledger[splits[s].order] EXCEPT
                               !.collected = @ + splits[s].amount]
         /\ StateAfter(s) = "PAID" =>
              MoneyAfter(s).collected = orders[splits[s].order].total
         /\ StateAfter(s) \in FinancialStates \ {"INVALID"}
         /\ StateAfter(s) # "PAID" => LegacyPaymentStatus[StateAfter(s)] \in PaymentStatuses \ {"paid"}
<1> DEFINE o == splits[s].order
<1>1. o \in Orders /\ Exists(o)
  BY DEF CanPaySplit, Books, RowsHaveOrder
<1>2. orders[o] \in OrderRow /\ ledger[o] \in LedgerSums /\ splits[s].amount \in Nat
  BY <1>1 DEF Books, TypeOK, SplitRow
<1>3. /\ ledger[o].approved <= ledger[o].refunded
      /\ orders[o].paymentStatus = "paid" => ledger[o].collected = orders[o].total
  BY <1>1 DEF Books, ApprovedRefunded, PaidIsCollected
<1>4. Collecting(o) /\ Due(o) = orders[o].total - ledger[o].collected
  BY <1>2, <1>3, OpenIff DEF CanPaySplit, Collecting, Due
<1>5. splits[s].amount + ledger[o].collected <= orders[o].total
  BY <1>2, <1>4 DEF CanPaySplit, OrderRow, LedgerSums
<1>6. orders[o].paymentStatus # "paid"
  BY <1>2, <1>3, <1>4 DEF Collecting, OrderRow, LedgerSums
<1>7. MoneyAfter(s) = [ledger[o] EXCEPT !.collected = @ + splits[s].amount]
  BY DEF MoneyAfter
<1>8. MoneyAfter(s) \in LedgerSums
  BY <1>2, <1>7 DEF LedgerSums
<1>9. StateAfter(s) \in FinancialStates \ {"INVALID"}
  BY <1>2, <1>8, StateTypes DEF StateAfter, CanPaySplit
<1> DEFINE money == MoneyAfter(s)
<1>10. ASSUME StateAfter(s) = "PAID" PROVE money.collected = orders[o].total
  <2>1. LedgerState(orders[o], money) = "PAID"
    BY <1>10 DEF StateAfter, FinancialState
  <2>2. money.refunded = 0 /\ money.approved = 0 /\ money.collected \in Nat /\ orders[o].total \in Nat
    BY <1>2, <1>3, <1>4, <1>7 DEF Collecting, LedgerSums, OrderRow
  <2>3. Outstanding(orders[o], money) = orders[o].total - money.collected
    BY <1>4, <2>2 DEF Outstanding, ReversedValue, Collecting
  <2> HIDE DEF money
  <2> QED BY <2>1, <2>2, <2>3 DEF LedgerState, DeriveFinancialState
<1>11. StateAfter(s) # "PAID" => LegacyPaymentStatus[StateAfter(s)] \in PaymentStatuses \ {"paid"}
  BY <1>9 DEF FinancialStates, LegacyPaymentStatus, PaymentStatuses
<1> QED BY <1>1, <1>4, <1>5, <1>6, <1>7, <1>8, <1>9, <1>10, <1>11

LEMMA PaySplitBooks ==
  ASSUME Books, NEW s \in Splits, PaySplit(s)
  PROVE  Books'
<1> DEFINE o == splits[s].order
           row == [orders[o] EXCEPT !.paymentStatus = LegacyPaymentStatus[StateAfter(s)]]
           money == MoneyAfter(s)
<1>1. CanPaySplit(s) /\ StateAfter(s) # "PAID"
  BY DEF PaySplit
<1>2. o \in Orders /\ Exists(o) /\ money \in LedgerSums
  BY <1>1, CanPay
<1>3. orders[o] \in OrderRow /\ ledger[o] \in LedgerSums /\ splits[s].amount \in Nat
  BY <1>2 DEF Books, TypeOK, SplitRow
<1>4. /\ row \in OrderRow /\ row.status # "absent" /\ row.total = orders[o].total
      /\ row.paymentStatus # "paid"
  BY <1>1, <1>2, <1>3, CanPay DEF OrderRow, Exists
<1>5. /\ money.approved <= money.refunded /\ money.refunded <= money.collected
      /\ money.collected <= row.total
  <2>1. ledger[o].refunded <= ledger[o].collected /\ ledger[o].approved <= ledger[o].refunded
    BY <1>2 DEF Books, LedgerBounds, ApprovedRefunded
  <2>2. money = [ledger[o] EXCEPT !.collected = @ + splits[s].amount]
    BY <1>1, CanPay
  <2>3. splits[s].amount + ledger[o].collected <= orders[o].total
    BY <1>1, CanPay
  <2> HIDE DEF money
  <2> QED BY <1>3, <1>4, <2>1, <2>2, <2>3 DEF LedgerSums, OrderRow
<1>6. orders' = [orders EXCEPT ![o] = row] /\ ledger' = [ledger EXCEPT ![o] = money]
  BY DEF PaySplit
<1>7. /\ splits' \in [Splits -> SplitRow]
      /\ \A z \in Splits : splits'[z].order = splits[z].order
           /\ (splits'[z].status # "absent" => splits[z].status # "absent")
  BY <1>1 DEF PaySplit, CanPaySplit, Books, TypeOK, SplitRow
<1>8. PointsBound'
  BY DEF PaySplit, Books, PointsBound
<1> HIDE DEF o, row, money
<1> QED BY <1>2, <1>4, <1>5, <1>6, <1>7, <1>8, MoneyBooks DEF PaySplit, Books, TypeOK

(* The shared effects keep their types. *)
LEMMA EffectTypes ==
  ASSUME Books, NEW o \in Orders
  PROVE  /\ \A shortfall \in Shortfalls :
              DeductStock(o, shortfall) => stock' \in [Orders -> StockHistory]
         /\ ReverseStock(o) => stock' \in [Orders -> StockHistory]
         /\ \A member \in BOOLEAN : AwardOnce(o, member) =>
              points' \in [Orders -> PointHistory] /\ PointsBound'
         /\ \A units \in Nat : ReversePoints(o, units) =>
              points' \in [Orders -> PointHistory] /\ PointsBound'
         /\ EnqueueOrderJobs(o) => jobs' \in [Orders -> JobCounts]
         /\ RetirePendingSplits(o) \in [Splits -> SplitRow]
         /\ \A s \in Splits : RetirePendingSplits(o)[s].order = splits[s].order
              /\ (RetirePendingSplits(o)[s].status # "absent" => splits[s].status # "absent")
<1> USE UnitsAssumption, ShortfallsAssumption
<1>1. ASSUME NEW shortfall \in Shortfalls, DeductStock(o, shortfall)
      PROVE  stock' \in [Orders -> StockHistory]
  BY <1>1 DEF DeductStock, Books, TypeOK, StockHistory
<1>2. ASSUME ReverseStock(o) PROVE stock' \in [Orders -> StockHistory]
  BY <1>2 DEF ReverseStock, Books, TypeOK, StockHistory
<1>3. ASSUME NEW member \in BOOLEAN, AwardOnce(o, member)
      PROVE  points' \in [Orders -> PointHistory] /\ PointsBound'
  BY <1>3 DEF AwardOnce, Books, TypeOK, PointHistory, PointsBound
<1>4. ASSUME NEW units \in Nat, ReversePoints(o, units)
      PROVE  points' \in [Orders -> PointHistory] /\ PointsBound'
  <2> DEFINE remaining == points[o].earned - points[o].reversed
  <2>1. remaining \in Nat
    BY DEF Books, TypeOK, PointHistory, PointsBound
  <2>2. CASE orders[o].member
    BY <1>4, <2>1, <2>2 DEF ReversePoints, Books, TypeOK, PointHistory, PointsBound
  <2>3. CASE ~orders[o].member
    BY <1>4, <2>3 DEF ReversePoints, Books, TypeOK, PointsBound
  <2> QED BY <2>2, <2>3
<1>0. ASSUME EnqueueOrderJobs(o) PROVE jobs' \in [Orders -> JobCounts]
  BY <1>0 DEF EnqueueOrderJobs, Books, TypeOK, JobCounts
<1>5. RetirePendingSplits(o) \in [Splits -> SplitRow]
  BY DEF RetirePendingSplits, Books, TypeOK, SplitRow
<1>6. \A s \in Splits : RetirePendingSplits(o)[s].order = splits[s].order
        /\ (RetirePendingSplits(o)[s].status # "absent" => splits[s].status # "absent")
  BY DEF RetirePendingSplits, PendingSplits, Books, TypeOK, SplitRow
<1> QED BY <1>0, <1>1, <1>2, <1>3, <1>4, <1>5, <1>6

LEMMA PayLastSplitBooks ==
  ASSUME Books, NEW s \in Splits, NEW shortfall \in Shortfalls, PayLastSplit(s, shortfall)
  PROVE  Books'
<1> DEFINE o == splits[s].order
           row == [orders[o] EXCEPT !.status = "paid", !.paymentStatus = "paid"]
           money == MoneyAfter(s)
<1>1. CanPaySplit(s) /\ StateAfter(s) = "PAID"
  BY DEF PayLastSplit
<1>2. o \in Orders /\ Exists(o) /\ money \in LedgerSums
  BY <1>1, CanPay
<1>3. orders[o] \in OrderRow /\ ledger[o] \in LedgerSums /\ splits[s].amount \in Nat
  BY <1>2 DEF Books, TypeOK, SplitRow
<1>4. row \in OrderRow /\ row.status # "absent" /\ row.total = orders[o].total
  BY <1>3 DEF OrderRow, Statuses, PaymentStatuses
<1>5. /\ money.approved <= money.refunded /\ money.refunded <= money.collected
      /\ money.collected <= row.total /\ money.collected = row.total
  <2>1. ledger[o].refunded <= ledger[o].collected /\ ledger[o].approved <= ledger[o].refunded
    BY <1>2 DEF Books, LedgerBounds, ApprovedRefunded
  <2>2. money = [ledger[o] EXCEPT !.collected = @ + splits[s].amount]
    BY <1>1, CanPay
  <2>3. money.collected = orders[o].total
    BY <1>1, CanPay
  <2> HIDE DEF money
  <2> QED BY <1>3, <1>4, <2>1, <2>2, <2>3 DEF LedgerSums, OrderRow
<1>6. orders' = [orders EXCEPT ![o] = row] /\ ledger' = [ledger EXCEPT ![o] = money]
  BY DEF PayLastSplit
<1>7. /\ splits' \in [Splits -> SplitRow]
      /\ \A z \in Splits : splits'[z].order = splits[z].order
           /\ (splits'[z].status # "absent" => splits[z].status # "absent")
  <2>1. /\ RetirePendingSplits(o) \in [Splits -> SplitRow]
        /\ \A z \in Splits : RetirePendingSplits(o)[z].order = splits[z].order
             /\ (RetirePendingSplits(o)[z].status # "absent" => splits[z].status # "absent")
    BY <1>2, EffectTypes
  <2>2. splits' = [RetirePendingSplits(o) EXCEPT ![s].status = "paid"]
    BY DEF PayLastSplit
  <2>3. splits[s].status # "absent"
    BY <1>1 DEF CanPaySplit
  <2> HIDE DEF o
  <2> QED BY <2>1, <2>2, <2>3 DEF SplitRow
<1>8. stock' \in [Orders -> StockHistory] /\ points' \in [Orders -> PointHistory] /\ PointsBound'
  <2>1. orders[o].member \in BOOLEAN
    BY <1>3 DEF OrderRow
  <2>2. CASE orders[o].paymentStatus # "paid"
    BY <1>2, <2>1, <2>2, EffectTypes DEF PayLastSplit
  <2>3. CASE orders[o].paymentStatus = "paid"
    BY <2>3 DEF PayLastSplit, Books, TypeOK, PointsBound
  <2> QED BY <2>2, <2>3
<1>9. jobs' \in [Orders -> JobCounts]
  <2>1. EnqueueOrderJobs(o)
    BY DEF PayLastSplit
  <2> HIDE DEF o
  <2> QED BY <1>2, <2>1, EffectTypes
<1> HIDE DEF o, row, money
<1> QED BY <1>2, <1>4, <1>5, <1>6, <1>7, <1>8, <1>9, MoneyBooks DEF PayLastSplit, Books, TypeOK

-----------------------------------------------------------------------------
(* Sales returns keep the books. *)

(* Rounding a share of naturals gives a natural. *)
LEMMA ShareIsNatural ==
  ASSUME NEW total \in Nat, NEW units \in Nat
  PROVE  RefundShare(total, units) \in Nat
<1>1. 2 * total * units + Units \in Nat /\ 2 * Units \in Nat \ {0}
  <2>1. \A a, b \in Nat : a * b \in Nat
    OBVIOUS
  <2>2. 2 * total * units \in Nat
    BY <2>1
  <2> QED BY <2>2, UnitsAssumption
<1>2. \A a \in Nat, b \in Nat \ {0} : a \div b \in Nat
  OBVIOUS
<1> QED BY <1>1, <1>2 DEF RefundShare

LEMMA ReturnSalesOrderBooks ==
  ASSUME Books, NEW r \in Returns, NEW o \in Orders, NEW repeats \in LineRepeats,
         NEW qty \in 1..Units, ReturnSalesOrder(r, o, repeats, qty)
  PROVE  Books'
<1>1. repeats * qty \in Nat
  BY LineRepeatsAssumption, UnitsAssumption
<1>2. RefundShare(orders[o].total, repeats * qty) \in Nat
  BY <1>1, ShareIsNatural DEF Books, TypeOK, OrderRow
<1> DEFINE row == [order |-> o, units |-> repeats * qty,
                   amount |-> RefundShare(orders[o].total, repeats * qty),
                   status |-> "pending"]
<1>3. row \in ReturnRow
  BY <1>1, <1>2 DEF ReturnRow
<1>4. returns' = [returns EXCEPT ![r] = row] /\ row.order = o /\ Exists(o)
  BY DEF ReturnSalesOrder
<1> HIDE DEF row
<1>5. returns' \in [Returns -> ReturnRow]
  BY <1>3, <1>4 DEF Books, TypeOK
<1>6. \A z \in Returns : returns'[z].status # "absent" =>
        returns'[z].order \in Orders /\ Exists(returns'[z].order)
  BY <1>4 DEF Books, RowsHaveOrder, TypeOK
<1> QED BY <1>5, <1>6, RowsBooks DEF ReturnSalesOrder, Books, RowsHaveOrder, TypeOK

LEMMA RejectReturnBooks ==
  ASSUME Books, NEW r \in Returns, RejectReturn(r)
  PROVE  Books'
<1>1. returns' \in [Returns -> ReturnRow]
  BY DEF RejectReturn, Books, TypeOK, ReturnRow
<1>2. \A z \in Returns : returns'[z].status # "absent" =>
        returns'[z].order \in Orders /\ Exists(returns'[z].order)
  BY DEF RejectReturn, Books, RowsHaveOrder, TypeOK, ReturnRow
<1> QED BY <1>1, <1>2, RowsBooks DEF RejectReturn, Books, RowsHaveOrder, TypeOK

LEMMA Refunding ==
  ASSUME NEW before \in LedgerSums, NEW amount \in Nat
  PROVE  LET after == [before EXCEPT !.refunded = @ + amount, !.approved = @ + amount]
         IN  /\ after \in LedgerSums /\ after.collected = before.collected
             /\ after.refunded = before.refunded + amount
             /\ after.approved = before.approved + amount
<1> DEFINE half == [before EXCEPT !.refunded = @ + amount]
           after == [before EXCEPT !.refunded = @ + amount, !.approved = @ + amount]
<1>1. /\ half \in LedgerSums /\ half.collected = before.collected
      /\ half.refunded = before.refunded + amount /\ half.approved = before.approved
  BY DEF LedgerSums
<1>2. after = [half EXCEPT !.approved = @ + amount]
  OBVIOUS
<1> HIDE DEF half, after
<1>3. /\ after \in LedgerSums /\ after.collected = half.collected
      /\ after.refunded = half.refunded /\ after.approved = half.approved + amount
  BY <1>1, <1>2 DEF LedgerSums
<1>4. QED
  BY <1>1, <1>3 DEF after

LEMMA ApproveReturnBooks ==
  ASSUME Books, NEW r \in Returns, ApproveReturn(r)
  PROVE  Books'
<1> DEFINE o == returns[r].order
           amount == returns[r].amount
           money == [ledger[o] EXCEPT !.refunded = @ + amount, !.approved = @ + amount]
           state == FinancialState(orders[o], money)
           row == IF state = "INVALID" THEN orders[o]
                  ELSE [orders[o] EXCEPT !.paymentStatus = LegacyPaymentStatus[state]]
<1>1. o \in Orders /\ Exists(o) /\ amount \in Nat /\ returns[r].units \in Nat
  BY DEF ApproveReturn, Books, RowsHaveOrder, TypeOK, ReturnRow
<1>2. orders[o] \in OrderRow /\ ledger[o] \in LedgerSums
  BY <1>1 DEF Books, TypeOK
<1>3. /\ money \in LedgerSums /\ money.collected = ledger[o].collected
      /\ money.approved <= money.refunded /\ money.refunded <= money.collected
      /\ money.collected <= orders[o].total
  <2>1. ledger[o].approved <= ledger[o].refunded /\ ledger[o].collected <= orders[o].total
    BY <1>1 DEF Books, ApprovedRefunded, LedgerBounds
  <2>2. amount <= ledger[o].collected - ledger[o].refunded
    BY DEF ApproveReturn, NetCollected
  <2> HIDE DEF o, amount
  <2>3. /\ money \in LedgerSums /\ money.collected = ledger[o].collected
        /\ money.refunded = ledger[o].refunded + amount
        /\ money.approved = ledger[o].approved + amount
    BY <1>1, <1>2, Refunding
  <2> HIDE DEF money
  <2> QED BY <1>1, <1>2, <2>1, <2>2, <2>3 DEF LedgerSums, OrderRow
<1>4. orders[o].paymentStatus = "paid" => money.collected = orders[o].total
  BY <1>1, <1>3 DEF Books, PaidIsCollected
<1>5. /\ row \in OrderRow /\ row.status # "absent" /\ row.total = orders[o].total
      /\ row.paymentStatus = "paid" => money.collected = row.total
  <2> HIDE DEF money, o
  <2>1. CASE state = "INVALID"
    BY <1>1, <1>2, <1>4, <2>1 DEF Exists
  <2>2. CASE state # "INVALID"
    <3>1. state \in FinancialStates \ {"INVALID"} /\ state = LedgerState(orders[o], money)
      BY <1>2, <1>3, <2>2, StateTypes
    <3>2. LegacyPaymentStatus[state] \in PaymentStatuses
      BY <1>2, <1>3, <2>2, <3>1, StateTypes
    <3>3. row \in OrderRow /\ row.status # "absent" /\ row.total = orders[o].total
      BY <1>1, <1>2, <2>2, <3>2 DEF OrderRow, Exists
    <3>4. ASSUME row.paymentStatus = "paid" PROVE money.collected = row.total
      <4>1. row.paymentStatus = LegacyPaymentStatus[state]
        BY <1>2, <2>2 DEF OrderRow
      <4>2. state = "PAID"
        BY <3>1, <3>4, <4>1 DEF LegacyPaymentStatus, FinancialStates
      <4>3. LedgerState(orders[o], money) = "PAID"
        BY <3>1, <4>2
      <4> HIDE DEF state, row
      <4>4. PaidMeansCollected(orders[o], money)
        BY <1>2, <1>3, <4>3, PaidState
      <4> QED BY <3>3, <4>4 DEF PaidMeansCollected
    <3> QED BY <3>3, <3>4
  <2> QED BY <2>1, <2>2
<1>6. orders' = [orders EXCEPT ![o] = row]
  <2>1. CASE state = "INVALID"
    <3>1. orders' = orders /\ row = orders[o]
      BY <2>1 DEF ApproveReturn
    <3> HIDE DEF o, row
    <3> QED BY <3>1, <1>1 DEF Books, TypeOK
  <2>2. CASE state # "INVALID"
    BY <2>2 DEF ApproveReturn
  <2> QED BY <2>1, <2>2
<1>7. ledger' = [ledger EXCEPT ![o] = money]
  BY DEF ApproveReturn
<1>8. /\ returns' \in [Returns -> ReturnRow]
      /\ \A z \in Returns : returns'[z].order = returns[z].order
           /\ (returns'[z].status # "absent" => returns[z].status # "absent")
  BY DEF ApproveReturn, Books, TypeOK, ReturnRow
<1>9. stock' \in [Orders -> StockHistory]
  <2>1. \/ stock' = stock
        \/ stock' = [stock EXCEPT ![o].restored = @ + returns[r].units]
    BY DEF ApproveReturn
  <2> HIDE DEF o
  <2> QED BY <1>1, <2>1 DEF Books, TypeOK, StockHistory
<1>10. points' \in [Orders -> PointHistory] /\ PointsBound'
  BY <1>1, EffectTypes DEF ApproveReturn
<1>11. jobs' \in [Orders -> JobCounts]
  <2>1. jobs' = [jobs EXCEPT ![o].return = @ + 1]
    BY DEF ApproveReturn
  <2> HIDE DEF o
  <2> QED BY <1>1, <2>1 DEF Books, TypeOK, JobCounts
<1>12. /\ splits' \in [Splits -> SplitRow] /\ splits' = splits
       /\ requests' \in [Workers -> Request \cup {Idle}]
  BY DEF ApproveReturn, Books, TypeOK
<1> HIDE DEF o, amount, money, state, row
<1> QED BY <1>1, <1>3, <1>5, <1>6, <1>7, <1>8, <1>9, <1>10, <1>11, <1>12, MoneyBooks

-----------------------------------------------------------------------------
(* Status requests keep the books. *)

LEMMA RequestTypes ==
  ASSUME Books, NEW w \in Workers, requests[w] # Idle
  PROVE  /\ requests[w] \in Request /\ requests[w].order \in Orders
         /\ [requests EXCEPT ![w] = Idle] \in [Workers -> Request \cup {Idle}]
BY DEF Books, TypeOK, Request

(* A request answered without effect. *)
LEMMA RequestsBooks ==
  ASSUME Books, requests' \in [Workers -> Request \cup {Idle}],
         UNCHANGED <<orders, ledger, splits, returns, stock, points, jobs>>
  PROVE  Books'
BY RowsBooks DEF Books, TypeOK, RowsHaveOrder

LEMMA LoadOrderBooks ==
  ASSUME Books, NEW w \in Workers, NEW kind \in {"update", "cascade"}, NEW o \in Orders,
         NEW target \in Statuses, NEW attach \in BOOLEAN,
         LoadOrder(w, kind, o, target, attach)
  PROVE  Books'
<1> DEFINE q == [kind |-> kind, order |-> o, target |-> target, attach |-> attach,
                 status |-> orders[o].status, paymentStatus |-> orders[o].paymentStatus,
                 aborts |-> 0]
<1>1. orders[o].status \in Statuses /\ orders[o].paymentStatus \in PaymentStatuses
  BY DEF LoadOrder, Exists, Books, TypeOK, OrderRow
<1>2. q \in Request
  BY <1>1, MaxDeadlocksAssumption DEF Request
<1>3. requests' = [requests EXCEPT ![w] = q]
  BY DEF LoadOrder
<1> HIDE DEF q
<1>4. requests' \in [Workers -> Request \cup {Idle}]
  BY <1>2, <1>3 DEF Books, TypeOK
<1> QED BY <1>4, RequestsBooks DEF LoadOrder

LEMMA AbortByDeadlockBooks ==
  ASSUME Books, NEW w \in Workers, NEW cacheSaved \in BOOLEAN,
         AbortByDeadlock(w, cacheSaved)
  PROVE  Books'
<1> DEFINE q == requests[w]
           cache == IF q.target = "paid" THEN "paid"
                    ELSE IF q.target = "void" THEN "refunded" ELSE "unpaid"
           after == [q EXCEPT !.status = q.target, !.aborts = @ + 1,
                              !.paymentStatus = IF cacheSaved THEN cache ELSE @]
<1>1. q \in Request /\ q.aborts < MaxDeadlocks
  BY RequestTypes DEF AbortByDeadlock
<1>2. after \in Request
  <2> DEFINE a == [q EXCEPT !.status = q.target]
             b == [a EXCEPT !.aborts = @ + 1]
             value == IF cacheSaved THEN cache ELSE b.paymentStatus
  <2>1. a \in Request /\ a.aborts = q.aborts /\ a.paymentStatus = q.paymentStatus
    BY <1>1 DEF Request
  <2> HIDE DEF a
  <2>2. b \in Request /\ b.paymentStatus = q.paymentStatus
    BY <1>1, <2>1, MaxDeadlocksAssumption DEF Request
  <2>3. value \in PaymentStatuses
    BY <2>2 DEF Request, PaymentStatuses
  <2> HIDE DEF b, value
  <2>4. [b EXCEPT !.paymentStatus = value] \in Request
    BY <2>2, <2>3 DEF Request
  <2>5. after = [b EXCEPT !.paymentStatus = value]
    BY <2>2 DEF a, b, value
  <2> QED BY <2>4, <2>5
<1>3. requests' = [requests EXCEPT ![w] = after]
  BY DEF AbortByDeadlock
<1> HIDE DEF after
<1>4. requests' \in [Workers -> Request \cup {Idle}]
  BY <1>2, <1>3 DEF Books, TypeOK
<1> QED BY <1>4, RequestsBooks DEF AbortByDeadlock

LEMMA RefuseBooks ==
  ASSUME Books, NEW w \in Workers, Refuse(w)
  PROVE  Books'
BY RequestTypes, RequestsBooks DEF Refuse

(* What a status write leaves in the row. *)
LEMMA SavedStatus ==
  ASSUME Books, NEW q \in Request, Exists(q.order)
  PROVE  /\ SaveStatus(q) \in OrderRow /\ SaveStatus(q).status # "absent"
         /\ SaveStatus(q).status \in {orders[q.order].status, q.target}
         /\ SaveStatus(q).total = orders[q.order].total
         /\ SaveStatus(q).paymentStatus = orders[q.order].paymentStatus
<1> DEFINE o == q.order
<1>1. o \in Orders /\ q.target \in Statuses /\ q.attach \in BOOLEAN
  BY DEF Request
<1>2. orders[o] \in OrderRow
  BY <1>1 DEF Books, TypeOK
<1>3. "absent" \notin Statuses
  BY FulfilmentAssumption DEF Statuses, TerminalFulfilment
<1> DEFINE value == Saved(orders[o].status, q.status, q.target)
           member == orders[o].member \/ (q.attach /\ q.aborts = 0)
           half == [orders[o] EXCEPT !.status = value]
<1>4. value \in Statuses /\ value \in {orders[o].status, q.target}
  BY <1>1, <1>2 DEF Saved, OrderRow, Exists
<1>5. member \in BOOLEAN
  BY <1>1, <1>2 DEF OrderRow
<1>6. SaveStatus(q) = [half EXCEPT !.member = member]
  BY <1>2 DEF SaveStatus, OrderRow
<1> HIDE DEF value, member
<1>7. /\ half \in OrderRow /\ half.status = value
      /\ half.total = orders[o].total /\ half.paymentStatus = orders[o].paymentStatus
  BY <1>2, <1>4 DEF OrderRow
<1> HIDE DEF half
<1>8. /\ SaveStatus(q) \in OrderRow /\ SaveStatus(q).status = value
      /\ SaveStatus(q).total = half.total /\ SaveStatus(q).paymentStatus = half.paymentStatus
  BY <1>5, <1>6, <1>7 DEF OrderRow
<1> QED BY <1>3, <1>4, <1>7, <1>8

LEMMA SavedCache ==
  ASSUME Books, NEW q \in Request, Exists(q.order),
         NEW state \in FinancialStates \ {"INVALID"}
  PROVE  LET row == SaveStatusAndCache(q, state)
         IN  /\ row \in OrderRow /\ row.status # "absent"
             /\ row.status = SaveStatus(q).status
             /\ row.total = orders[q.order].total
             /\ row.paymentStatus \in {orders[q.order].paymentStatus, LegacyPaymentStatus[state]}
             /\ row.paymentStatus = Saved(orders[q.order].paymentStatus, q.paymentStatus,
                                          LegacyPaymentStatus[state])
<1>1. /\ SaveStatus(q) \in OrderRow /\ SaveStatus(q).status # "absent"
      /\ SaveStatus(q).total = orders[q.order].total
      /\ SaveStatus(q).paymentStatus = orders[q.order].paymentStatus
  BY SavedStatus
<1>2. LegacyPaymentStatus[state] \in PaymentStatuses
  BY DEF LegacyPaymentStatus, PaymentStatuses, FinancialStates
<1> DEFINE before == SaveStatus(q)
           value == Saved(before.paymentStatus, q.paymentStatus, LegacyPaymentStatus[state])
<1>3. value \in PaymentStatuses /\ value \in {before.paymentStatus, LegacyPaymentStatus[state]}
  BY <1>1, <1>2 DEF Saved, OrderRow
<1>4. SaveStatusAndCache(q, state) = [before EXCEPT !.paymentStatus = value]
  BY DEF SaveStatusAndCache
<1>5. value = Saved(orders[q.order].paymentStatus, q.paymentStatus, LegacyPaymentStatus[state])
  BY <1>1
<1> HIDE DEF before, value
<1>6. before = SaveStatus(q)
  BY DEF before
<1> QED BY <1>1, <1>3, <1>4, <1>5, <1>6 DEF OrderRow

(* What is outstanding when a settlement may proceed. *)
LEMMA SettlementDue ==
  ASSUME Books, NEW q \in Request, MaySettle(q)
  PROVE  /\ Exists(q.order) /\ Live(q.order) /\ Due(q.order) \in Nat
         /\ ledger[q.order].refunded = 0 /\ ledger[q.order].approved = 0
         /\ Due(q.order) = orders[q.order].total - ledger[q.order].collected
<1> DEFINE o == q.order
<1>1. o \in Orders /\ Live(o) /\ Exists(o)
  BY DEF Request, MaySettle, Live
<1>2. orders[o] \in OrderRow /\ ledger[o] \in LedgerSums
  BY <1>1 DEF Books, TypeOK
<1>3. ledger[o].approved <= ledger[o].refunded
  BY <1>1 DEF Books, ApprovedRefunded
<1>4. LedgerState(orders[o], ledger[o]) \in {"UNPAID", "PARTIALLY_PAID", "PAID"}
  BY <1>2, StateTypes DEF MaySettle, StateOf, FinancialStates
<1>5. ledger[o].refunded = 0 /\ ledger[o].approved = 0
  BY <1>2, <1>3, <1>4 DEF LedgerState, DeriveFinancialState, LedgerSums
<1>6. Due(o) = orders[o].total - ledger[o].collected
  BY <1>1, <1>2, <1>5 DEF Due, Live, Outstanding, ReversedValue, OrderRow, LedgerSums
<1>7. Due(o) > 0 \/ (orders[o].total = 0 /\ ledger[o].collected = 0)
  BY DEF MaySettle
<1>8. Due(o) \in Nat
  BY <1>2, <1>6, <1>7 DEF OrderRow, LedgerSums
<1> QED BY <1>1, <1>5, <1>6, <1>8

LEMMA Collecting1 ==
  ASSUME NEW before \in LedgerSums, NEW amount \in Nat
  PROVE  LET after == [before EXCEPT !.collected = @ + amount]
         IN  /\ after \in LedgerSums /\ after.collected = before.collected + amount
             /\ after.refunded = before.refunded /\ after.approved = before.approved
BY DEF LedgerSums

LEMMA FinalStateTypes ==
  ASSUME Books, NEW q \in Request, NEW money \in LedgerSums
  PROVE  /\ [orders[q.order] EXCEPT !.status = q.target] \in OrderRow
         /\ FinalState(q, money) \in FinancialStates
<1>1. orders[q.order] \in OrderRow /\ q.target \in Statuses
  BY DEF Books, TypeOK, Request
<1>2. [orders[q.order] EXCEPT !.status = q.target] \in OrderRow
  BY <1>1 DEF OrderRow
<1> QED BY <1>2, StateTypes DEF FinalState

LEMMA SettleBooks ==
  ASSUME Books, NEW w \in Workers, NEW shortfall \in Shortfalls, Settle(w, shortfall)
  PROVE  Books'
<1> DEFINE q == requests[w]
           o == q.order
           money == [ledger[o] EXCEPT !.collected = @ + Due(o)]
           row == SaveStatusAndCache(q, FinalState(q, money))
<1>1. q \in Request /\ o \in Orders /\ MaySettle(q) /\ Commits(q, money)
  BY RequestTypes DEF Settle
<1>2. orders[o] \in OrderRow /\ ledger[o] \in LedgerSums
  BY <1>1 DEF Books, TypeOK
<1>3. /\ Exists(o) /\ Due(o) \in Nat /\ ledger[o].refunded = 0 /\ ledger[o].approved = 0
      /\ Due(o) = orders[o].total - ledger[o].collected
  BY <1>1, SettlementDue
<1>4. /\ money \in LedgerSums /\ money.collected = ledger[o].collected + Due(o)
      /\ money.refunded = 0 /\ money.approved = 0
  <2>1. /\ money \in LedgerSums /\ money.collected = ledger[o].collected + Due(o)
        /\ money.refunded = ledger[o].refunded /\ money.approved = ledger[o].approved
    BY <1>2, <1>3, Collecting1
  <2> QED BY <1>3, <2>1
<1>5. money.collected = orders[o].total
  BY <1>2, <1>3, <1>4 DEF OrderRow, LedgerSums
<1>6. FinalState(q, money) \in FinancialStates \ {"INVALID"}
  BY <1>1, <1>4, FinalStateTypes DEF Commits
<1>7. row \in OrderRow /\ row.status # "absent" /\ row.total = orders[o].total
  BY <1>1, <1>3, <1>6, SavedCache
<1>8. orders' = [orders EXCEPT ![o] = row] /\ ledger' = [ledger EXCEPT ![o] = money]
  BY DEF Settle
<1>9. /\ splits' \in [Splits -> SplitRow]
      /\ \A z \in Splits : splits'[z].order = splits[z].order
           /\ (splits'[z].status # "absent" => splits[z].status # "absent")
  <2>1. splits' = RetirePendingSplits(o)
    BY DEF Settle
  <2> HIDE DEF o
  <2> QED BY <1>1, <2>1, EffectTypes
<1>10. stock' \in [Orders -> StockHistory]
  <2>1. DeductStock(o, shortfall) \/ UNCHANGED stock
    BY DEF Settle
  <2> HIDE DEF o
  <2> QED BY <1>1, <2>1, EffectTypes DEF Books, TypeOK
<1>11. points' \in [Orders -> PointHistory] /\ PointsBound'
  <2>1. AwardOnce(o, orders[o].member \/ q.attach) \/ UNCHANGED points
    BY DEF Settle
  <2>2. (orders[o].member \/ q.attach) \in BOOLEAN
    BY <1>1, <1>2 DEF OrderRow, Request
  <2> HIDE DEF o, q
  <2> QED BY <1>1, <2>1, <2>2, EffectTypes DEF Books, TypeOK, PointsBound
<1>12. jobs' \in [Orders -> JobCounts]
  <2>1. EnqueueOrderJobs(o)
    BY DEF Settle
  <2> HIDE DEF o
  <2> QED BY <1>1, <2>1, EffectTypes
<1>13. requests' \in [Workers -> Request \cup {Idle}] /\ returns' = returns
  BY RequestTypes DEF Settle
<1>14. /\ money.approved <= money.refunded /\ money.refunded <= money.collected
       /\ money.collected <= row.total /\ money.collected = row.total
  <2>1. orders[o].total \in Nat
    BY <1>2 DEF OrderRow
  <2> HIDE DEF money, row
  <2> QED BY <1>4, <1>5, <1>7, <2>1
<1> HIDE DEF o, money, row, q
<1> QED BY <1>1, <1>3, <1>4, <1>7, <1>8, <1>9, <1>10, <1>11, <1>12, <1>13, <1>14,
           MoneyBooks DEF Books, TypeOK

LEMMA EndOrderBooks ==
  ASSUME Books, NEW w \in Workers, EndOrder(w)
  PROVE  Books'
<1> DEFINE q == requests[w]
           o == q.order
           money == IF q.target = "void"
                    THEN [ledger[o] EXCEPT !.refunded = @ + ledger[o].collected]
                    ELSE ledger[o]
           row == SaveStatusAndCache(q, FinalState(q, money))
<1>1. q \in Request /\ o \in Orders /\ MayEnd(q) /\ Commits(q, money)
  BY RequestTypes DEF EndOrder
<1>2. orders[o] \in OrderRow /\ ledger[o] \in LedgerSums /\ Exists(o)
  BY <1>1 DEF Books, TypeOK, MayEnd, Live
<1>3. /\ ledger[o].approved <= ledger[o].refunded
      /\ ledger[o].refunded <= ledger[o].collected /\ ledger[o].collected <= orders[o].total
      /\ orders[o].paymentStatus = "paid" => ledger[o].collected = orders[o].total
  BY <1>1 DEF Books, ApprovedRefunded, LedgerBounds, PaidIsCollected
<1>4. q.target = "void" => ledger[o].refunded = 0
  <2>1. SUFFICES ASSUME q.target = "void" PROVE ledger[o].refunded = 0
    OBVIOUS
  <2>2. StateOf(o) \in {"PAID", "PARTIALLY_PAID"}
    BY <1>1, <2>1 DEF MayEnd
  <2>3. LedgerState(orders[o], ledger[o]) \in {"PAID", "PARTIALLY_PAID"}
    BY <1>2, <2>2, StateTypes DEF StateOf, FinancialStates
  <2> QED BY <1>2, <2>3 DEF LedgerState, DeriveFinancialState, LedgerSums
<1>5. /\ money \in LedgerSums /\ money.collected = ledger[o].collected
      /\ money.approved <= money.refunded /\ money.refunded <= money.collected
  <2>1. CASE q.target = "void"
    <3>1. /\ money \in LedgerSums /\ money.collected = ledger[o].collected
          /\ money.refunded = ledger[o].refunded + ledger[o].collected
          /\ money.approved = ledger[o].approved
      BY <1>2, <2>1 DEF LedgerSums
    <3> HIDE DEF money
    <3> QED BY <1>2, <1>3, <1>4, <2>1, <3>1 DEF LedgerSums
  <2>2. CASE q.target # "void"
    BY <1>2, <1>3, <2>2
  <2> QED BY <2>1, <2>2
<1> DEFINE state == FinalState(q, money)
<1>6. state \in FinancialStates \ {"INVALID"}
  BY <1>1, <1>5, FinalStateTypes DEF Commits
<1>7. /\ row \in OrderRow /\ row.status # "absent" /\ row.total = orders[o].total
      /\ row.paymentStatus \in {orders[o].paymentStatus, LegacyPaymentStatus[state]}
  BY <1>1, <1>2, <1>6, SavedCache
<1>8. ASSUME row.paymentStatus = "paid" PROVE money.collected = row.total
  <2>1. CASE orders[o].paymentStatus = "paid"
    BY <1>3, <1>5, <1>7, <2>1
  <2>2. CASE orders[o].paymentStatus # "paid"
    <3>1. LegacyPaymentStatus[state] = "paid"
      BY <1>7, <1>8, <2>2
    <3>2. state = "PAID"
      BY <1>6, <3>1 DEF LegacyPaymentStatus, FinancialStates
    <3> DEFINE final == [orders[o] EXCEPT !.status = q.target]
    <3>3. final \in OrderRow /\ final.total = orders[o].total
      BY <1>1, <1>2, <1>5, FinalStateTypes DEF OrderRow
    <3>4. LedgerState(final, money) = "PAID"
      BY <3>2 DEF FinalState
    <3> HIDE DEF final, money
    <3> QED BY <1>3, <1>5, <1>7, <3>3, <3>4, PaidState DEF PaidMeansCollected
  <2> QED BY <2>1, <2>2
<1>9. orders' = [orders EXCEPT ![o] = row] /\ ledger' = [ledger EXCEPT ![o] = money]
  BY DEF EndOrder
<1>10. /\ splits' \in [Splits -> SplitRow]
       /\ \A z \in Splits : splits'[z].order = splits[z].order
            /\ (splits'[z].status # "absent" => splits[z].status # "absent")
  <2>1. splits' = RetirePendingSplits(o)
    BY DEF EndOrder
  <2> HIDE DEF o
  <2> QED BY <1>1, <2>1, EffectTypes
<1>11. stock' \in [Orders -> StockHistory]
  <2>1. ReverseStock(o) \/ UNCHANGED stock
    BY DEF EndOrder
  <2> HIDE DEF o
  <2> QED BY <1>1, <2>1, EffectTypes DEF Books, TypeOK
<1>12. points' \in [Orders -> PointHistory] /\ PointsBound'
  <2>1. ReversePoints(o, Units)
    BY DEF EndOrder
  <2> HIDE DEF o, q
  <2> QED BY <1>1, <2>1, UnitsAssumption, EffectTypes
<1>13. jobs' \in [Orders -> JobCounts]
  <2>1. jobs' = [jobs EXCEPT ![o].reversal = @ + 1]
    BY DEF EndOrder
  <2> HIDE DEF o
  <2> QED BY <1>1, <2>1 DEF Books, TypeOK, JobCounts
<1>14. requests' \in [Workers -> Request \cup {Idle}] /\ returns' = returns
  BY RequestTypes DEF EndOrder
<1> HIDE DEF o, money, row, q, state
<1> QED BY <1>1, <1>2, <1>3, <1>5, <1>7, <1>8, <1>9, <1>10, <1>11, <1>12, <1>13, <1>14,
           MoneyBooks DEF Books, TypeOK

LEMMA SetStatusBooks ==
  ASSUME Books, NEW w \in Workers, SetStatus(w)
  PROVE  Books'
<1> DEFINE q == requests[w]
           o == q.order
           row == SaveStatus(q)
<1>1. q \in Request /\ o \in Orders
  BY RequestTypes DEF SetStatus
<1>2. Exists(o)
  BY DEF SetStatus, Live, Exists, TerminalFulfilment
<1>3. /\ row \in OrderRow /\ row.status # "absent" /\ row.total = orders[o].total
      /\ row.paymentStatus = orders[o].paymentStatus
  BY <1>1, <1>2, SavedStatus
<1>4. orders' = [orders EXCEPT ![o] = row]
  BY DEF SetStatus
<1>5. requests' \in [Workers -> Request \cup {Idle}]
  BY RequestTypes DEF SetStatus
<1>6. UNCHANGED <<ledger, splits, returns, stock, points, jobs>>
  BY DEF SetStatus
<1> HIDE DEF q, o, row
<1> QED BY <1>1, <1>2, <1>3, <1>4, <1>5, <1>6, StatusBooks

LEMMA CascadeItemStatusBooks ==
  ASSUME Books, NEW w \in Workers, CascadeItemStatus(w)
  PROVE  Books'
<1> DEFINE q == requests[w]
           o == q.order
           row == [orders[o] EXCEPT !.status = q.target]
<1>1. q \in Request /\ o \in Orders /\ q.target \in Statuses /\ Exists(o)
  BY RequestTypes DEF CascadeItemStatus, Request, Live
<1>2. orders[o] \in OrderRow
  BY <1>1 DEF Books, TypeOK
<1>3. /\ row \in OrderRow /\ row.status # "absent" /\ row.total = orders[o].total
      /\ row.paymentStatus = orders[o].paymentStatus
  BY <1>1, <1>2, FulfilmentAssumption DEF OrderRow, Statuses, TerminalFulfilment
<1>4. orders' = [orders EXCEPT ![o] = row]
  BY DEF CascadeItemStatus
<1>5. requests' \in [Workers -> Request \cup {Idle}]
  BY RequestTypes DEF CascadeItemStatus
<1>6. UNCHANGED <<ledger, splits, returns, stock, points, jobs>>
  BY DEF CascadeItemStatus
<1> HIDE DEF q, o, row
<1> QED BY <1>1, <1>3, <1>4, <1>5, <1>6, StatusBooks

-----------------------------------------------------------------------------
LEMMA InitBooks ==
  ASSUME Init
  PROVE  Books
<1>1. TypeOK
  BY DEF Init, TypeOK, OrderRow, PaymentStatuses, LedgerSums, SplitRow, ReturnRow,
         StockHistory, PointHistory, JobCounts
<1>2. RowsHaveOrder /\ AbsentIsEmpty
  BY DEF Init, RowsHaveOrder, AbsentIsEmpty, Exists
<1>3. PointsBound /\ LedgerBounds /\ ApprovedRefunded /\ PaidIsCollected
  BY DEF Init, PointsBound, LedgerBounds, ApprovedRefunded, PaidIsCollected
<1> QED BY <1>1, <1>2, <1>3 DEF Books

LEMMA StutterBooks ==
  ASSUME Books, UNCHANGED vars
  PROVE  Books'
BY RequestsBooks DEF vars, Books, TypeOK

(* No step of any handler unbalances the books. *)
LEMMA NextBooks ==
  ASSUME Books, Next
  PROVE  Books'
<1>1. CASE Create
  BY <1>1, CreateOrderBooks, CreateCustomerOrderBooks DEF Create
<1>2. CASE \E o \in Orders : ExpireQrOrder(o)
  BY <1>2, ExpireQrOrderBooks
<1>3. CASE SplitBill
  <2>1. CASE \E o \in Orders, new \in SUBSET {s \in Splits : splits[s].status = "absent"} :
               \E amount \in [new -> 0..orders[o].total] :
                 new # {} /\ CreateSplits(o, new, amount)
    BY <2>1, CreateSplitsBooks
  <2>2. CASE \E s \in Splits : \/ PaySplit(s)
                               \/ \E shortfall \in Shortfalls : PayLastSplit(s, shortfall)
                               \/ CancelSplit(s)
    BY <2>2, PaySplitBooks, PayLastSplitBooks, CancelSplitBooks
  <2>3. CASE \E o \in Orders : \E old \in SUBSET PendingSplits(o), new \in Splits :
               MergeSplits(o, old, new)
    BY <2>3, MergeSplitsBooks
  <2> QED BY <1>3, <2>1, <2>2, <2>3 DEF SplitBill
<1>4. CASE SalesReturn
  BY <1>4, ReturnSalesOrderBooks, ApproveReturnBooks, RejectReturnBooks DEF SalesReturn
<1>5. CASE UpdateStatus
  <2> SUFFICES ASSUME NEW w \in Workers,
                 \/ \E o \in Orders, target \in Statuses, attach \in BOOLEAN :
                      LoadOrder(w, "update", o, target, attach)
                 \/ \E o \in Orders, target \in Fulfilment \ {"confirmed"} :
                      LoadOrder(w, "cascade", o, target, FALSE)
                 \/ \E shortfall \in Shortfalls : Settle(w, shortfall)
                 \/ EndOrder(w) \/ SetStatus(w) \/ CascadeItemStatus(w)
                 \/ \E cacheSaved \in BOOLEAN : AbortByDeadlock(w, cacheSaved)
                 \/ Refuse(w)
               PROVE  Books'
    BY <1>5 DEF UpdateStatus
  <2>1. CASE \E o \in Orders, target \in Statuses, attach \in BOOLEAN :
               LoadOrder(w, "update", o, target, attach)
    BY <2>1, LoadOrderBooks
  <2>2. CASE \E o \in Orders, target \in Fulfilment \ {"confirmed"} :
               LoadOrder(w, "cascade", o, target, FALSE)
    <3>1. Fulfilment \ {"confirmed"} \subseteq Statuses
      BY DEF Statuses
    <3> QED BY <2>2, <3>1, LoadOrderBooks
  <2>3. CASE \E shortfall \in Shortfalls : Settle(w, shortfall)
    BY <2>3, SettleBooks
  <2>4. CASE EndOrder(w) \/ SetStatus(w) \/ CascadeItemStatus(w) \/ Refuse(w)
    BY <2>4, EndOrderBooks, SetStatusBooks, CascadeItemStatusBooks, RefuseBooks
  <2>5. CASE \E cacheSaved \in BOOLEAN : AbortByDeadlock(w, cacheSaved)
    BY <2>5, AbortByDeadlockBooks
  <2> QED BY <2>1, <2>2, <2>3, <2>4, <2>5
<1> QED BY <1>1, <1>2, <1>3, <1>4, <1>5 DEF Next

LEMMA BooksBalance == Spec => []Books
<1>1. Books /\ [Next]_vars => Books'
  BY NextBooks, StutterBooks
<1> QED BY <1>1, InitBooks, PTL DEF Spec

(* Every row keeps its type whatever handlers run and are killed. *)
THEOREM TypeCorrect == Spec => []TypeOK
BY BooksBalance, PTL DEF Books

(* For every set of requests, retries and totals, an order never refunds   *)
(* more than it collected nor collects more than its total.                *)
THEOREM LedgerStaysBounded == Spec => []LedgerBounds
BY BooksBalance, PTL DEF Books

-----------------------------------------------------------------------------
(* Terminal orders. *)

EndedStay ==
  \A o \in Orders : orders[o].status \in TerminalFulfilment =>
    orders'[o].status = orders[o].status /\ ledger'[o] = ledger[o]

(* A step that touches one live order, or keeps the status of the one it   *)
(* touches and no ledger, keeps the ended ones.                            *)
LEMMA OneOrderStays ==
  ASSUME TypeOK, NEW o \in Orders,
         \/ orders[o].status \notin TerminalFulfilment
         \/ orders'[o].status = orders[o].status /\ ledger' = ledger,
         \A z \in Orders : z # o =>
           orders'[z].status = orders[z].status /\ ledger'[z] = ledger[z]
  PROVE  EndedStay
BY DEF EndedStay

LEMMA NextEndedStay ==
  ASSUME Books, Next
  PROVE  EndedStay
<1> USE DEF Books
<1>1. ASSUME NEW o \in Orders, NEW total \in Totals, NEW member \in BOOLEAN,
             CreateOrder(o, total, member) \/ CreateCustomerOrder(o, total)
      PROVE  EndedStay
  BY <1>1, OneOrderStays
     DEF CreateOrder, CreateCustomerOrder, TypeOK, Exists, TerminalFulfilment
<1>2. ASSUME NEW o \in Orders, ExpireQrOrder(o) PROVE EndedStay
  BY <1>2, OneOrderStays DEF ExpireQrOrder, Live, TypeOK
<1>3. ASSUME UNCHANGED <<orders, ledger>> PROVE EndedStay
  BY <1>3 DEF EndedStay
<1>4. ASSUME NEW s \in Splits, NEW shortfall \in Shortfalls,
             PaySplit(s) \/ PayLastSplit(s, shortfall)
      PROVE  EndedStay
  <2>1. splits[s].order \in Orders /\ Collecting(splits[s].order)
    BY <1>4, CanPay DEF PaySplit, PayLastSplit
  <2>2. \A z \in Orders : z # splits[s].order =>
          orders'[z].status = orders[z].status /\ ledger'[z] = ledger[z]
    BY <1>4 DEF PaySplit, PayLastSplit, TypeOK
  <2> QED BY <2>1, <2>2, OneOrderStays DEF Collecting
<1>5. ASSUME NEW r \in Returns, ApproveReturn(r) PROVE EndedStay
  <2>1. returns[r].order \in Orders /\ orders[returns[r].order].status \notin TerminalFulfilment
    BY <1>5 DEF ApproveReturn, RowsHaveOrder
  <2>2. \A z \in Orders : z # returns[r].order =>
          orders'[z].status = orders[z].status /\ ledger'[z] = ledger[z]
    BY <1>5 DEF ApproveReturn, TypeOK
  <2> QED BY <2>1, <2>2, OneOrderStays
<1>6. ASSUME NEW w \in Workers, NEW shortfall \in Shortfalls,
             \/ Settle(w, shortfall) \/ EndOrder(w) \/ CascadeItemStatus(w)
      PROVE  EndedStay
  <2>1. requests[w].order \in Orders
    BY <1>6, RequestTypes DEF Settle, EndOrder, CascadeItemStatus
  <2>2. Live(requests[w].order)
    BY <1>6 DEF Settle, MaySettle, EndOrder, MayEnd, CascadeItemStatus
  <2>3. \A z \in Orders : z # requests[w].order =>
          orders'[z].status = orders[z].status /\ ledger'[z] = ledger[z]
    BY <1>6 DEF Settle, EndOrder, CascadeItemStatus, TypeOK
  <2> QED BY <2>1, <2>2, <2>3, OneOrderStays DEF Live
<1>7. ASSUME NEW w \in Workers, SetStatus(w) PROVE EndedStay
  <2> DEFINE q == requests[w]
             o == q.order
  <2>1. q \in Request /\ o \in Orders /\ Exists(o)
    BY <1>7, RequestTypes DEF SetStatus, Live, Exists, TerminalFulfilment
  <2>2. Live(o) \/ orders[o].status = q.target
    BY <1>7 DEF SetStatus
  <2>3. orders' = [orders EXCEPT ![o] = SaveStatus(q)] /\ ledger' = ledger
    BY <1>7 DEF SetStatus
  <2>4. SaveStatus(q).status \in {orders[o].status, q.target}
    BY <2>1, SavedStatus
  <2> HIDE DEF q, o
  <2>5. \A z \in Orders : z # o => orders'[z].status = orders[z].status /\ ledger'[z] = ledger[z]
    BY <2>1, <2>3 DEF TypeOK
  <2>6. \/ orders[o].status \notin TerminalFulfilment
        \/ orders'[o].status = orders[o].status /\ ledger' = ledger
    BY <2>1, <2>2, <2>3, <2>4 DEF TypeOK, Live
  <2> QED BY <2>1, <2>5, <2>6, OneOrderStays
<1>8. ASSUME Create PROVE EndedStay
  BY <1>1, <1>8 DEF Create
<1>9. ASSUME SplitBill PROVE EndedStay
  BY <1>3, <1>4, <1>9, ShortfallsAssumption
     DEF SplitBill, CreateSplits, CancelSplit, MergeSplits
<1>10. ASSUME SalesReturn PROVE EndedStay
  BY <1>3, <1>5, <1>10 DEF SalesReturn, ReturnSalesOrder, RejectReturn
<1>11. ASSUME UpdateStatus PROVE EndedStay
  BY <1>3, <1>6, <1>7, <1>11, ShortfallsAssumption
     DEF UpdateStatus, LoadOrder, AbortByDeadlock, Refuse
<1> QED BY <1>2, <1>8, <1>9, <1>10, <1>11 DEF Next

(* Nothing reopens an ended order or moves its money, for any number of    *)
(* concurrent requests, cascades and retries.                              *)
THEOREM EndedOrdersStay == Spec => TerminalStays
<1>1. Books /\ [Next]_vars => [EndedStay]_vars
  BY NextEndedStay
<1>2. Spec => [][EndedStay]_vars
  BY <1>1, BooksBalance, PTL DEF Spec
<1> QED BY <1>2 DEF TerminalStays, EndedStay

-----------------------------------------------------------------------------
(* Ledger rows are only ever added, and an order keeps its total.          *)

MoneyMoves ==
  \A o \in Orders : Exists(o) =>
    /\ Exists(o)' /\ orders'[o].total = orders[o].total
    /\ ledger[o].collected <= ledger'[o].collected
    /\ ledger[o].refunded <= ledger'[o].refunded

LEMMA OneOrderMoves ==
  ASSUME TypeOK, NEW o \in Orders,
         Exists(o) => /\ orders'[o].status # "absent"
                      /\ orders'[o].total = orders[o].total
                      /\ ledger[o].collected <= ledger'[o].collected
                      /\ ledger[o].refunded <= ledger'[o].refunded,
         \A z \in Orders : z # o => orders'[z] = orders[z] /\ ledger'[z] = ledger[z]
  PROVE  MoneyMoves
<1>1. \A z \in Orders : /\ ledger[z].collected <= ledger[z].collected
                        /\ ledger[z].refunded <= ledger[z].refunded
  BY DEF TypeOK, LedgerSums
<1> QED BY <1>1 DEF MoneyMoves, Exists

LEMMA SameMoney ==
  ASSUME TypeOK, orders' = orders, ledger' = ledger
  PROVE  MoneyMoves
<1>1. \A z \in Orders : /\ ledger[z].collected <= ledger[z].collected
                        /\ ledger[z].refunded <= ledger[z].refunded
  BY DEF TypeOK, LedgerSums
<1> QED BY <1>1 DEF MoneyMoves, Exists

LEMMA NextMoneyMoves ==
  ASSUME Books, Next
  PROVE  MoneyMoves
<1>0. TypeOK
  BY DEF Books
<1>1. ASSUME Create PROVE MoneyMoves
  BY <1>0, <1>1, OneOrderMoves DEF Create, CreateOrder, CreateCustomerOrder, TypeOK
<1>2. ASSUME NEW o \in Orders, ExpireQrOrder(o) PROVE MoneyMoves
  <2>1. /\ orders'[o].status # "absent" /\ orders'[o].total = orders[o].total
        /\ ledger[o].collected <= ledger[o].collected
        /\ ledger[o].refunded <= ledger[o].refunded
    BY <1>0, <1>2 DEF ExpireQrOrder, TypeOK, OrderRow, LedgerSums
  <2> QED BY <1>0, <1>2, <2>1, OneOrderMoves DEF ExpireQrOrder, TypeOK
<1>3. ASSUME NEW s \in Splits, NEW shortfall \in Shortfalls,
             PaySplit(s) \/ PayLastSplit(s, shortfall)
      PROVE  MoneyMoves
  <2> DEFINE o == splits[s].order
  <2>1. CanPaySplit(s) /\ o \in Orders /\ Exists(o)
    BY <1>3, CanPay DEF PaySplit, PayLastSplit
  <2>2. ledger' = [ledger EXCEPT ![o] = [ledger[o] EXCEPT !.collected = @ + splits[s].amount]]
    BY <1>3, <2>1, CanPay DEF PaySplit, PayLastSplit
  <2>3. ledger[o] \in LedgerSums /\ splits[s].amount \in Nat /\ orders[o] \in OrderRow
    BY <1>0, <2>1 DEF TypeOK, SplitRow
  <2>4. ledger[o].collected <= ledger'[o].collected /\ ledger[o].refunded <= ledger'[o].refunded
    <3> HIDE DEF o
    <3> QED BY <1>0, <2>1, <2>2, <2>3 DEF TypeOK, LedgerSums
  <2>5. orders'[o].status # "absent" /\ orders'[o].total = orders[o].total
    BY <1>0, <1>3, <2>1, <2>3 DEF PaySplit, PayLastSplit, TypeOK, OrderRow, Exists
  <2>6. \A z \in Orders : z # o => orders'[z] = orders[z] /\ ledger'[z] = ledger[z]
    BY <1>0, <1>3 DEF PaySplit, PayLastSplit, TypeOK
  <2> HIDE DEF o
  <2> QED BY <1>0, <2>1, <2>4, <2>5, <2>6, OneOrderMoves
<1>4. ASSUME NEW r \in Returns, ApproveReturn(r) PROVE MoneyMoves
  <2> DEFINE o == returns[r].order
             amount == returns[r].amount
             money == [ledger[o] EXCEPT !.refunded = @ + amount, !.approved = @ + amount]
  <2>1. o \in Orders /\ Exists(o) /\ amount \in Nat
    BY <1>4 DEF ApproveReturn, Books, RowsHaveOrder, TypeOK, ReturnRow
  <2>2. ledger' = [ledger EXCEPT ![o] = money]
    BY <1>4 DEF ApproveReturn
  <2>3. ledger[o] \in LedgerSums /\ orders[o] \in OrderRow
    BY <1>0, <2>1 DEF TypeOK
  <2>4. money.collected = ledger[o].collected /\ money.refunded = ledger[o].refunded + amount
    BY <2>1, <2>3, Refunding
  <2>5. orders'[o].status # "absent" /\ orders'[o].total = orders[o].total
    BY <1>0, <1>4, <2>1, <2>3 DEF ApproveReturn, TypeOK, OrderRow, Exists
  <2>6. \A z \in Orders : z # o => orders'[z] = orders[z] /\ ledger'[z] = ledger[z]
    BY <1>0, <1>4 DEF ApproveReturn, TypeOK
  <2> HIDE DEF o, amount, money
  <2>7. ledger[o].collected <= ledger'[o].collected /\ ledger[o].refunded <= ledger'[o].refunded
    BY <1>0, <2>1, <2>2, <2>3, <2>4 DEF TypeOK, LedgerSums
  <2> QED BY <1>0, <2>1, <2>5, <2>6, <2>7, OneOrderMoves
<1>5. ASSUME NEW w \in Workers, NEW shortfall \in Shortfalls, Settle(w, shortfall)
      PROVE  MoneyMoves
  <2> DEFINE q == requests[w]
             o == q.order
             money == [ledger[o] EXCEPT !.collected = @ + Due(o)]
             state == FinalState(q, money)
             row == SaveStatusAndCache(q, state)
  <2>1. q \in Request /\ o \in Orders /\ MaySettle(q) /\ Commits(q, money)
    BY <1>5, RequestTypes DEF Settle
  <2>2. Exists(o) /\ Due(o) \in Nat /\ ledger[o] \in LedgerSums
    BY <1>0, <2>1, SettlementDue DEF TypeOK
  <2>3. /\ money \in LedgerSums /\ money.collected = ledger[o].collected + Due(o)
        /\ money.refunded = ledger[o].refunded
    BY <2>2, Collecting1
  <2>4. state \in FinancialStates \ {"INVALID"}
    BY <2>1, <2>3, FinalStateTypes DEF Commits
  <2>5. row.status # "absent" /\ row.total = orders[o].total
    BY <2>1, <2>2, <2>4, SavedCache
  <2>6. orders' = [orders EXCEPT ![o] = row] /\ ledger' = [ledger EXCEPT ![o] = money]
    BY <1>5 DEF Settle
  <2> HIDE DEF q, o, money, row
  <2>7. ledger[o].collected <= ledger'[o].collected /\ ledger[o].refunded <= ledger'[o].refunded
    BY <1>0, <2>1, <2>2, <2>3, <2>6 DEF TypeOK, LedgerSums
  <2> QED BY <1>0, <2>1, <2>5, <2>6, <2>7, OneOrderMoves DEF TypeOK
<1>6. ASSUME NEW w \in Workers, EndOrder(w) PROVE MoneyMoves
  <2> DEFINE q == requests[w]
             o == q.order
             money == IF q.target = "void"
                      THEN [ledger[o] EXCEPT !.refunded = @ + ledger[o].collected]
                      ELSE ledger[o]
             state == FinalState(q, money)
             row == SaveStatusAndCache(q, state)
  <2>1. q \in Request /\ o \in Orders /\ Exists(o) /\ Commits(q, money)
    BY <1>6, RequestTypes DEF EndOrder, MayEnd, Live
  <2>2. ledger[o] \in LedgerSums
    BY <1>0, <2>1 DEF TypeOK
  <2>3. /\ money \in LedgerSums /\ money.collected = ledger[o].collected
        /\ money.refunded = ledger[o].refunded + (IF q.target = "void" THEN ledger[o].collected ELSE 0)
    BY <2>2 DEF LedgerSums
  <2>4. state \in FinancialStates \ {"INVALID"}
    BY <2>1, <2>3, FinalStateTypes DEF Commits
  <2>5. row.status # "absent" /\ row.total = orders[o].total
    BY <2>1, <2>4, SavedCache
  <2>6. orders' = [orders EXCEPT ![o] = row] /\ ledger' = [ledger EXCEPT ![o] = money]
    BY <1>6 DEF EndOrder
  <2> HIDE DEF q, o, money, row
  <2>7. ledger[o].collected <= ledger'[o].collected /\ ledger[o].refunded <= ledger'[o].refunded
    BY <1>0, <2>1, <2>2, <2>3, <2>6 DEF TypeOK, LedgerSums
  <2> QED BY <1>0, <2>1, <2>5, <2>6, <2>7, OneOrderMoves DEF TypeOK
<1>7. ASSUME NEW w \in Workers, SetStatus(w) \/ CascadeItemStatus(w) PROVE MoneyMoves
  <2> DEFINE q == requests[w]
             o == q.order
  <2>1. q \in Request /\ o \in Orders /\ Exists(o) /\ q.target \in Statuses
    BY <1>7, RequestTypes
       DEF SetStatus, CascadeItemStatus, Live, Exists, TerminalFulfilment, Request
  <2>2. ledger' = ledger /\ ledger[o] \in LedgerSums /\ orders[o] \in OrderRow
    BY <1>0, <1>7, <2>1 DEF SetStatus, CascadeItemStatus, TypeOK
  <2>3. \/ orders' = [orders EXCEPT ![o] = SaveStatus(q)]
        \/ orders' = [orders EXCEPT ![o] = [orders[o] EXCEPT !.status = q.target]]
    BY <1>7 DEF SetStatus, CascadeItemStatus
  <2>4. SaveStatus(q).status # "absent" /\ SaveStatus(q).total = orders[o].total
    BY <2>1, SavedStatus
  <2>5. [orders[o] EXCEPT !.status = q.target].status # "absent"
        /\ [orders[o] EXCEPT !.status = q.target].total = orders[o].total
    BY <2>1, <2>2, FulfilmentAssumption DEF OrderRow, Statuses, TerminalFulfilment
  <2> HIDE DEF q, o
  <2>6. orders'[o].status # "absent" /\ orders'[o].total = orders[o].total
        /\ \A z \in Orders : z # o => orders'[z] = orders[z]
    BY <1>0, <2>1, <2>3, <2>4, <2>5 DEF TypeOK
  <2>7. ledger[o].collected <= ledger'[o].collected /\ ledger[o].refunded <= ledger'[o].refunded
    BY <2>2 DEF LedgerSums
  <2> QED BY <1>0, <2>1, <2>2, <2>6, <2>7, OneOrderMoves
<1>8. ASSUME SplitBill PROVE MoneyMoves
  BY <1>0, <1>3, <1>8, SameMoney, ShortfallsAssumption
     DEF SplitBill, CreateSplits, CancelSplit, MergeSplits
<1>9. ASSUME SalesReturn PROVE MoneyMoves
  BY <1>0, <1>4, <1>9, SameMoney DEF SalesReturn, ReturnSalesOrder, RejectReturn
<1>10. ASSUME UpdateStatus PROVE MoneyMoves
  BY <1>0, <1>5, <1>6, <1>7, <1>10, SameMoney
     DEF UpdateStatus, LoadOrder, AbortByDeadlock, Refuse
<1> QED BY <1>1, <1>2, <1>8, <1>9, <1>10 DEF Next

(* Money not being collected is never collected again. *)
LEMMA NeverReopens ==
  ASSUME Books, Books', Next, NEW o \in Orders, Exists(o), ~Collecting(o)
  PROVE  ~Collecting(o)'
<1>1. /\ orders'[o].total = orders[o].total
      /\ ledger[o].collected <= ledger'[o].collected
      /\ ledger[o].refunded <= ledger'[o].refunded
  BY NextMoneyMoves DEF MoneyMoves
<1>2. orders[o].status \in TerminalFulfilment => orders'[o].status = orders[o].status
  BY NextEndedStay DEF EndedStay
<1>3. /\ orders[o].total \in Nat /\ ledger[o] \in LedgerSums /\ ledger'[o] \in LedgerSums
  BY DEF Books, TypeOK, OrderRow
<1> QED BY <1>1, <1>2, <1>3 DEF Collecting, LedgerSums

-----------------------------------------------------------------------------
(***************************************************************************)
(* Pending splits can always all be paid, for every number of splits and   *)
(* amounts: the sums behind SplitsCovered.                                 *)
(***************************************************************************)

Room(o) == orders[o].total - ledger[o].collected

(* SplitsCovered in terms of the ledger alone. *)
Covered(o) ==
  PendingSplits(o) # {} => Collecting(o) /\ PendingTotal(o) <= Room(o)

(* A return waits for approval only once collection is over. *)
ReturnsWait ==
  \A r \in Returns : returns[r].status = "pending" => ~Collecting(returns[r].order)

(* A cascade only ever asks for a kitchen status. *)
CascadeTargets ==
  \A w \in Workers : requests[w] # Idle /\ requests[w].kind = "cascade"
                       => requests[w].target \in Fulfilment

SplitInv ==
  Books /\ ReturnsWait /\ CascadeTargets /\ \A o \in Orders : Covered(o)

LEMMA OpenIsCollecting ==
  ASSUME Books, NEW o \in Orders
  PROVE  /\ OpenForCollection(orders[o], ledger[o]) <=> Collecting(o)
         /\ Collecting(o) => Due(o) = Room(o) /\ Room(o) \in Nat \ {0}
<1>1. /\ orders[o] \in OrderRow /\ ledger[o] \in LedgerSums
      /\ ledger[o].approved <= ledger[o].refunded
      /\ orders[o].paymentStatus = "paid" => ledger[o].collected = orders[o].total
  BY DEF Books, TypeOK, ApprovedRefunded, PaidIsCollected
<1>2. Collecting(o) => Room(o) \in Nat \ {0}
  BY <1>1 DEF Collecting, Room, OrderRow, LedgerSums
<1> QED BY <1>1, <1>2, OpenIff DEF Collecting, Room, Due

LEMMA CoveredMeans ==
  ASSUME Books
  PROVE  SplitsCovered <=> \A o \in Orders : Covered(o)
BY OpenIsCollecting DEF SplitsCovered, Covered

Amounts == [s \in Splits |-> splits[s].amount]

(* Sums of pending amounts are sums of naturals. *)
LEMMA PendingSums ==
  ASSUME Books, NEW o \in Orders
  PROVE  /\ PendingTotal(o) = SumFunctionOnSet(Amounts, PendingSplits(o))
         /\ PendingTotal(o) \in Nat
         /\ PendingSplits(o) \in SUBSET Splits
         /\ \A A \in SUBSET Splits : IsFiniteSet(A) /\ \A s \in A : Amounts[s] \in Nat
<1>1. PendingSplits(o) \in SUBSET Splits
  BY DEF PendingSplits
<1>2. \A A \in SUBSET Splits : IsFiniteSet(A) /\ \A s \in A : Amounts[s] \in Nat
  BY RowsAssumption, FS_Subset DEF Amounts, Books, TypeOK, SplitRow
<1>3. PendingTotal(o) = SumFunctionOnSet(Amounts, PendingSplits(o))
  BY DEF PendingTotal, Amounts
<1> QED BY <1>1, <1>2, <1>3, SumNat

(* The order's pending splits are as they were. *)
LEMMA SameSplits ==
  ASSUME Books, NEW o \in Orders,
         PendingSplits(o)' = PendingSplits(o),
         \A s \in PendingSplits(o) : splits'[s].amount = splits[s].amount
  PROVE  PendingTotal(o)' = PendingTotal(o)
<1> DEFINE f == [s \in Splits |-> splits[s].amount]
           g == [s \in Splits |-> splits'[s].amount]
           P == PendingSplits(o)
<1>1. PendingTotal(o)' = SumFunctionOnSet(g, P)
  BY DEF PendingTotal
<1>2. PendingTotal(o) = SumFunctionOnSet(f, P)
  BY DEF PendingTotal
<1>3. IsFiniteSet(P) /\ \A s \in P : f[s] \in Nat
  BY PendingSums DEF Amounts
<1>4. \A s \in P : g[s] = f[s]
  BY PendingSums
<1> HIDE DEF f, g, P
<1> QED BY <1>1, <1>2, <1>3, <1>4, SumSame

(* A step that leaves the splits alone keeps every order covered if no     *)
(* order with pending splits stops collecting or loses room.               *)
LEMMA CoveredKept ==
  ASSUME SplitInv, splits' = splits,
         \A o \in Orders : PendingSplits(o) # {} => Collecting(o)' /\ Room(o)' = Room(o)
  PROVE  \A o \in Orders : Covered(o)'
<1> SUFFICES ASSUME NEW o \in Orders, PendingSplits(o)' # {}
             PROVE  Collecting(o)' /\ PendingTotal(o)' <= Room(o)'
  BY DEF Covered
<1>1. PendingSplits(o)' = PendingSplits(o) /\ PendingTotal(o)' = PendingTotal(o)
  BY DEF PendingSplits, PendingTotal
<1> QED BY <1>1 DEF SplitInv, Covered

(* A step that retires the pending splits of one order and leaves the      *)
(* other orders alone.                                                     *)
LEMMA CoveredRetired ==
  ASSUME SplitInv, NEW o \in Orders,
         \A s \in Splits : \/ splits'[s].status # "pending"
                           \/ splits'[s] = splits[s] /\ splits[s].order # o,
         \A s \in Splits : splits[s].order # o => splits'[s] = splits[s],
         \A z \in Orders : z # o => orders'[z] = orders[z] /\ ledger'[z] = ledger[z],
         \A s \in Splits : splits'[s].order = splits[s].order
  PROVE  \A z \in Orders : Covered(z)'
<1>1. PendingSplits(o)' = {}
  BY DEF PendingSplits
<1>2. ASSUME NEW z \in Orders, z # o PROVE Covered(z)'
  <2>1. PendingSplits(z)' = PendingSplits(z)
    BY <1>2 DEF PendingSplits
  <2>2. \A s \in PendingSplits(z) : splits'[s].amount = splits[s].amount
    BY <1>2 DEF PendingSplits
  <2>3. PendingTotal(z)' = PendingTotal(z)
    BY <2>1, <2>2, SameSplits DEF SplitInv
  <2>4. (Collecting(z)' <=> Collecting(z)) /\ Room(z)' = Room(z)
    BY <1>2 DEF Collecting, Room
  <2> QED BY <2>1, <2>3, <2>4 DEF SplitInv, Covered
<1> QED BY <1>1, <1>2 DEF Covered

-----------------------------------------------------------------------------
(* Each handler keeps the pending splits covered. *)

LEMMA CreateSplitsCovers ==
  ASSUME SplitInv, NEW o \in Orders,
         NEW new \in SUBSET {s \in Splits : splits[s].status = "absent"},
         NEW amount \in [new -> 0..orders[o].total],
         CreateSplits(o, new, amount)
  PROVE  \A z \in Orders : Covered(z)'
<1> DEFINE P == PendingSplits(o)
           g == [s \in Splits |-> splits'[s].amount]
<1> USE DEF SplitInv
<1>1. Collecting(o) /\ Due(o) = Room(o)
  BY OpenIsCollecting DEF CreateSplits
<1>2. splits' = [s \in Splits |->
        IF s \in new THEN [order |-> o, amount |-> amount[s], status |-> "pending"]
        ELSE splits[s]]
  BY DEF CreateSplits
<1>3. PendingSplits(o)' = P \cup new /\ P \cap new = {}
  BY <1>2 DEF PendingSplits
<1>4. PendingTotal(o)' = SumFunctionOnSet(g, P \cup new)
  BY <1>3 DEF PendingTotal
<1>5. /\ P \cup new \in SUBSET Splits /\ IsFiniteSet(P \cup new) /\ IsFiniteSet(P) /\ IsFiniteSet(new)
      /\ \A s \in P : Amounts[s] \in Nat
  <2>1. P \in SUBSET Splits /\ P \cup new \in SUBSET Splits /\ new \in SUBSET Splits
    BY DEF PendingSplits
  <2> HIDE DEF P
  <2> QED BY <2>1, PendingSums
<1>6. \A s \in new : amount[s] \in Nat /\ g[s] = amount[s]
  <2>1. orders[o].total \in Nat
    BY DEF Books, TypeOK, OrderRow
  <2> QED BY <1>2, <2>1
<1>7. \A s \in P : g[s] = Amounts[s] /\ g[s] \in Nat
  BY <1>2, <1>3, <1>5 DEF Amounts, PendingSplits
<1>8. SumFunctionOnSet(g, P) = PendingTotal(o)
  <2>1. SumFunctionOnSet(Amounts, P) = SumFunctionOnSet(g, P)
    <3> HIDE DEF P, g
    <3> QED BY <1>5, <1>7, SumSame
  <2> QED BY <2>1, PendingSums
<1>9. SumFunctionOnSet(g, new) = SumFunctionOnSet(amount, new)
  <2> HIDE DEF g
  <2> QED BY <1>5, <1>6, SumSame
<1>10. SumFunctionOnSet(g, P \cup new) = SumFunctionOnSet(g, P) + SumFunctionOnSet(g, new)
  <2>1. \A s \in P \cup new : g[s] \in Nat
    BY <1>6, <1>7
  <2>2. (P \cup new) \ P = new /\ P \in SUBSET (P \cup new)
    BY <1>3
  <2> HIDE DEF P, g
  <2> QED BY <1>5, <2>1, <2>2, SumDisjoint
<1>11. PendingTotal(o) + SumFunctionOnSet(amount, new) <= Due(o)
  BY DEF CreateSplits
<1>12. Covered(o)'
  <2>1. Collecting(o)' /\ Room(o)' = Room(o)
    BY <1>1 DEF CreateSplits, Collecting, Room
  <2>2. PendingTotal(o)' <= Room(o)
    <3> HIDE DEF P, g
    <3> QED BY <1>1, <1>4, <1>8, <1>9, <1>10, <1>11
  <2> QED BY <2>1, <2>2 DEF Covered
<1>13. ASSUME NEW z \in Orders, z # o PROVE Covered(z)'
  <2>1. PendingSplits(z)' = PendingSplits(z)
    BY <1>2, <1>13 DEF PendingSplits
  <2>2. \A s \in PendingSplits(z) : splits'[s].amount = splits[s].amount
    BY <1>2 DEF PendingSplits
  <2>3. PendingTotal(z)' = PendingTotal(z)
    BY <2>1, <2>2, SameSplits
  <2>4. (Collecting(z)' <=> Collecting(z)) /\ Room(z)' = Room(z)
    BY DEF CreateSplits, Collecting, Room
  <2> QED BY <2>1, <2>3, <2>4 DEF Covered
<1> QED BY <1>12, <1>13

(* One pending split of the order goes; its amount with it. *)
LEMMA SplitGone ==
  ASSUME SplitInv, NEW s \in Splits, splits[s].status = "pending",
         NEW status \in {"paid", "retired"}, NEW o \in Orders, splits[s].order = o,
         splits' = [splits EXCEPT ![s].status = status]
  PROVE  /\ PendingTotal(o) = splits[s].amount + PendingTotal(o)'
         /\ PendingTotal(o)' \in Nat
         /\ \A z \in Orders : z # o =>
              PendingSplits(z)' = PendingSplits(z) /\ PendingTotal(z)' = PendingTotal(z)
<1> DEFINE P == PendingSplits(o)
           g == [z \in Splits |-> splits'[z].amount]
<1> USE DEF SplitInv
<1>1. s \in P
  BY DEF PendingSplits
<1>2. splits \in [Splits -> SplitRow]
  BY DEF Books, TypeOK
<1>3. \A z \in Splits : /\ splits'[z].order = splits[z].order
                        /\ splits'[z].amount = splits[z].amount
                        /\ z # s => splits'[z].status = splits[z].status
                        /\ splits'[s].status = status
  BY <1>2 DEF SplitRow
<1>4. PendingSplits(o)' = P \ {s}
  BY <1>3 DEF PendingSplits
<1>5. g = Amounts
  BY <1>3 DEF Amounts
<1>6. PendingTotal(o)' = SumFunctionOnSet(Amounts, P \ {s})
  BY <1>4, <1>5 DEF PendingTotal
<1>7. PendingTotal(o) = SumFunctionOnSet(Amounts, P)
  BY <1>1, PendingSums
<1>8. P \in SUBSET Splits /\ IsFiniteSet(P) /\ (\A z \in P : Amounts[z] \in Nat)
      /\ IsFiniteSet(P \ {s}) /\ (\A z \in P \ {s} : Amounts[z] \in Nat)
  <2>1. P \in SUBSET Splits /\ P \ {s} \in SUBSET Splits
    BY DEF PendingSplits
  <2> HIDE DEF P
  <2> QED BY <1>1, <2>1, PendingSums
<1>9. SumFunctionOnSet(Amounts, P) = Amounts[s] + SumFunctionOnSet(Amounts, P \ {s})
  <2> HIDE DEF P
  <2> QED BY <1>1, <1>8, SumRemove
<1>10. Amounts[s] = splits[s].amount
  BY DEF Amounts
<1>11. PendingTotal(o)' \in Nat
  <2> HIDE DEF P
  <2> QED BY <1>6, <1>8, SumNat
<1>12. ASSUME NEW z \in Orders, z # o
       PROVE  PendingSplits(z)' = PendingSplits(z) /\ PendingTotal(z)' = PendingTotal(z)
  <2>1. PendingSplits(z)' = PendingSplits(z)
    BY <1>3, <1>12 DEF PendingSplits
  <2> QED BY <1>3, <2>1, SameSplits DEF PendingSplits
<1> QED BY <1>1, <1>6, <1>7, <1>9, <1>10, <1>11, <1>12

LEMMA CancelSplitCovers ==
  ASSUME SplitInv, NEW s \in Splits, CancelSplit(s)
  PROVE  \A z \in Orders : Covered(z)'
<1>0. PICK o \in Orders : splits[s].order = o
  BY DEF CancelSplit, SplitInv, Books, RowsHaveOrder
<1>1. /\ PendingTotal(o) = splits[s].amount + PendingTotal(o)'
      /\ PendingTotal(o)' \in Nat
      /\ \A z \in Orders : z # o =>
           PendingSplits(z)' = PendingSplits(z) /\ PendingTotal(z)' = PendingTotal(z)
  BY <1>0, SplitGone DEF CancelSplit
<1>2. \A z \in Orders : (Collecting(z)' <=> Collecting(z)) /\ Room(z)' = Room(z)
  BY DEF CancelSplit, Collecting, Room
<1>3. s \in PendingSplits(o) /\ splits[s].amount \in Nat
  BY <1>0 DEF CancelSplit, PendingSplits, SplitInv, Books, TypeOK, SplitRow
<1>4. Collecting(o) /\ PendingTotal(o) <= Room(o)
  BY <1>1, <1>3 DEF SplitInv, Covered
<1>5. Room(o) \in Nat
  BY <1>1, <1>4, OpenIsCollecting DEF SplitInv
<1>6. Covered(o)'
  <2>1. PendingTotal(o)' <= Room(o)
    <3> QED BY <1>1, <1>3, <1>4, <1>5
  <2> QED BY <1>1, <1>2, <1>4, <2>1 DEF Covered
<1> QED BY <1>1, <1>2, <1>6 DEF SplitInv, Covered

LEMMA PaySplitCovers ==
  ASSUME SplitInv, Books', NEW s \in Splits, PaySplit(s)
  PROVE  \A z \in Orders : Covered(z)'
<1> PICK o \in Orders : splits[s].order = o
  BY DEF PaySplit, CanPaySplit, SplitInv, Books, RowsHaveOrder
<1> DEFINE money == MoneyAfter(s)
<1>0. Books /\ Books' /\ CanPaySplit(s) /\ StateAfter(s) # "PAID"
  BY DEF SplitInv, PaySplit
<1>1. /\ PendingTotal(o) = splits[s].amount + PendingTotal(o)'
      /\ PendingTotal(o)' \in Nat
      /\ \A z \in Orders : z # o =>
           PendingSplits(z)' = PendingSplits(z) /\ PendingTotal(z)' = PendingTotal(z)
  BY SplitGone DEF PaySplit, CanPaySplit
<1>2. \A z \in Orders : z # o => (Collecting(z)' <=> Collecting(z)) /\ Room(z)' = Room(z)
  BY <1>0 DEF PaySplit, Collecting, Room, Books, TypeOK
<1>3. s \in PendingSplits(o) /\ splits[s].amount \in Nat
  BY DEF PaySplit, CanPaySplit, PendingSplits, SplitInv, Books, TypeOK, SplitRow
<1>4. Collecting(o) /\ PendingTotal(o) <= Room(o)
  BY <1>1, <1>3 DEF SplitInv, Covered
<1>5. orders[o] \in OrderRow /\ ledger[o] \in LedgerSums /\ ledger[o].approved <= ledger[o].refunded
  BY <1>0, <1>1 DEF Books, TypeOK, ApprovedRefunded
<1>6. /\ money \in LedgerSums /\ money.collected = ledger[o].collected + splits[s].amount
      /\ money.refunded = 0 /\ money.approved = 0
  <2>1. money = [ledger[o] EXCEPT !.collected = @ + splits[s].amount]
    BY <1>0, CanPay
  <2> HIDE DEF money
  <2> QED BY <1>3, <1>4, <1>5, <2>1, Collecting1 DEF Collecting, LedgerSums
<1>7. /\ orders' = [orders EXCEPT ![o] =
           [orders[o] EXCEPT !.paymentStatus = LegacyPaymentStatus[StateAfter(s)]]]
      /\ ledger' = [ledger EXCEPT ![o] = money]
  BY DEF PaySplit
<1>8. Room(o)' = Room(o) - splits[s].amount
  <2> HIDE DEF money
  <2> QED BY <1>0, <1>1, <1>3, <1>5, <1>6, <1>7 DEF Room, Books, TypeOK, OrderRow, LedgerSums
<1>9. money.collected # orders[o].total
  <2>1. LedgerState(orders[o], money) # "PAID"
    BY <1>0 DEF StateAfter, FinancialState, OpenStates
  <2>2. orders[o].status \notin TerminalFulfilment /\ orders[o].total \in Nat \ {0}
    BY <1>4, <1>5 DEF Collecting, OrderRow, LedgerSums
  <2> HIDE DEF money
  <2> QED BY <1>5, <1>6, <2>1, <2>2
         DEF LedgerState, DeriveFinancialState, Outstanding, ReversedValue, LedgerSums
<1>10. Collecting(o)'
  <2>1. money.collected <= orders[o].total
    BY <1>0, <1>3, <1>5, <1>6, CanPay DEF LedgerSums
  <2>2. /\ orders'[o].status = orders[o].status /\ orders'[o].total = orders[o].total
        /\ ledger'[o] = money
    BY <1>0, <1>1, <1>5, <1>7 DEF Books, TypeOK, OrderRow
  <2> HIDE DEF money
  <2> QED BY <1>4, <1>5, <1>6, <1>9, <2>1, <2>2 DEF Collecting, OrderRow, LedgerSums
<1>11. Covered(o)'
  <2>1. Room(o) \in Nat
    BY <1>0, <1>1, <1>4, OpenIsCollecting
  <2>2. PendingTotal(o)' <= Room(o)'
    <3> QED BY <1>1, <1>3, <1>4, <1>8, <2>1
  <2> QED BY <1>10, <2>2 DEF Covered
<1> QED BY <1>1, <1>2, <1>11 DEF SplitInv, Covered

LEMMA MergeSplitsCovers ==
  ASSUME SplitInv, NEW o \in Orders, NEW old \in SUBSET PendingSplits(o), NEW new \in Splits,
         MergeSplits(o, old, new)
  PROVE  \A z \in Orders : Covered(z)'
<1> DEFINE P == PendingSplits(o)
           rest == P \ old
           g == [s \in Splits |-> splits'[s].amount]
           total == SumFunctionOnSet(Amounts, old)
<1> USE DEF SplitInv
<1>1. splits' = [s \in Splits |->
         IF s \in old THEN [splits[s] EXCEPT !.status = "retired"]
         ELSE IF s = new
              THEN [order |-> o, status |-> "pending", amount |-> total]
              ELSE splits[s]]
  BY DEF MergeSplits, Amounts
<1>2. new \notin P /\ old \subseteq P /\ P \subseteq Splits /\ new \notin old
  BY DEF MergeSplits, PendingSplits
<1>3. splits \in [Splits -> SplitRow]
  BY DEF Books, TypeOK
<1>4. PendingSplits(o)' = rest \cup {new}
  BY <1>1, <1>2, <1>3 DEF PendingSplits, SplitRow
<1>5. (\A s \in rest : g[s] = Amounts[s]) /\ g[new] = total
  BY <1>1, <1>2 DEF Amounts
<1>6. /\ IsFiniteSet(P) /\ IsFiniteSet(rest) /\ IsFiniteSet(old) /\ IsFiniteSet(rest \cup {new})
      /\ \A s \in P : Amounts[s] \in Nat
  <2>1. /\ P \in SUBSET Splits /\ rest \in SUBSET Splits /\ old \in SUBSET Splits
        /\ rest \cup {new} \in SUBSET Splits
    BY <1>2
  <2> HIDE DEF P, rest
  <2> QED BY <2>1, PendingSums
<1>7. total \in Nat
  <2> HIDE DEF P
  <2> QED BY <1>2, <1>6, SumNat
<1>8. SumFunctionOnSet(g, rest \cup {new}) = total + SumFunctionOnSet(g, rest)
  <2>1. \A s \in rest \cup {new} : g[s] \in Nat
    BY <1>5, <1>6, <1>7
  <2>2. (rest \cup {new}) \ {new} = rest
    BY <1>2
  <2> HIDE DEF rest, g, total
  <2> QED BY <1>5, <1>6, <2>1, <2>2, SumRemove
<1>9. SumFunctionOnSet(g, rest) = SumFunctionOnSet(Amounts, rest)
  <2>1. \A s \in rest : Amounts[s] \in Nat
    BY <1>6
  <2> HIDE DEF rest, g
  <2> QED BY <1>5, <1>6, <2>1, SumSame
<1>10. SumFunctionOnSet(Amounts, P) = total + SumFunctionOnSet(Amounts, rest)
  <2> HIDE DEF P
  <2> QED BY <1>2, <1>6, SumDisjoint
<1>11. PendingTotal(o)' = PendingTotal(o)
  <2>1. PendingTotal(o)' = SumFunctionOnSet(g, rest \cup {new})
    BY <1>4 DEF PendingTotal
  <2> QED BY <1>8, <1>9, <1>10, <2>1, PendingSums
<1>12. P # {}
  <2>1. old # {}
    <3>1. Cardinality({}) = 0 /\ Cardinality(old) >= 2
      BY FS_EmptySet DEF MergeSplits
    <3> QED BY <3>1
  <2> QED BY <1>2, <2>1
<1>13. \A z \in Orders : (Collecting(z)' <=> Collecting(z)) /\ Room(z)' = Room(z)
  BY DEF MergeSplits, Collecting, Room
<1>14. Covered(o)'
  BY <1>11, <1>12, <1>13 DEF Covered
<1>15. ASSUME NEW z \in Orders, z # o PROVE Covered(z)'
  <2>1. \A s \in PendingSplits(z) : splits'[s] = splits[s]
    BY <1>1, <1>2, <1>15 DEF PendingSplits, MergeSplits
  <2>2. PendingSplits(z)' = PendingSplits(z)
    BY <1>1, <1>2, <1>3, <1>15, <2>1 DEF PendingSplits, SplitRow
  <2>3. PendingTotal(z)' = PendingTotal(z)
    BY <2>1, <2>2, SameSplits
  <2> QED BY <1>13, <2>2, <2>3 DEF Covered
<1> QED BY <1>14, <1>15

LEMMA PayLastSplitCovers ==
  ASSUME SplitInv, NEW s \in Splits, NEW shortfall \in Shortfalls, PayLastSplit(s, shortfall)
  PROVE  \A z \in Orders : Covered(z)'
<1> PICK o \in Orders : splits[s].order = o
  BY DEF PayLastSplit, CanPaySplit, SplitInv, Books, RowsHaveOrder
<1>1. splits \in [Splits -> SplitRow] /\ TypeOK
  BY DEF SplitInv, Books, TypeOK
<1>2. splits' = [RetirePendingSplits(o) EXCEPT ![s].status = "paid"]
  BY DEF PayLastSplit
<1>3. \A z \in Splits : splits'[z].order = splits[z].order
  BY <1>1, <1>2 DEF RetirePendingSplits, SplitRow
<1>4. \A z \in Splits : \/ splits'[z].status # "pending"
                        \/ splits'[z] = splits[z] /\ splits[z].order # o
  BY <1>1, <1>2 DEF RetirePendingSplits, PendingSplits, SplitRow
<1>5. \A z \in Splits : splits[z].order # o => splits'[z] = splits[z]
  BY <1>1, <1>2 DEF RetirePendingSplits, PendingSplits
<1>6. \A z \in Orders : z # o => orders'[z] = orders[z] /\ ledger'[z] = ledger[z]
  BY <1>1 DEF PayLastSplit, TypeOK
<1> QED BY <1>3, <1>4, <1>5, <1>6, CoveredRetired

LEMMA EndingCovers ==
  ASSUME SplitInv, NEW w \in Workers, NEW shortfall \in Shortfalls,
         Settle(w, shortfall) \/ EndOrder(w)
  PROVE  \A z \in Orders : Covered(z)'
<1> PICK o \in Orders : requests[w].order = o
  BY RequestTypes DEF Settle, EndOrder, SplitInv
<1>1. splits \in [Splits -> SplitRow] /\ TypeOK
  BY DEF SplitInv, Books, TypeOK
<1>2. splits' = RetirePendingSplits(o)
  BY DEF Settle, EndOrder
<1>3. \A z \in Splits : splits'[z].order = splits[z].order
  BY <1>1, <1>2 DEF RetirePendingSplits, SplitRow
<1>4. \A z \in Splits : \/ splits'[z].status # "pending"
                        \/ splits'[z] = splits[z] /\ splits[z].order # o
  BY <1>1, <1>2 DEF RetirePendingSplits, PendingSplits, SplitRow
<1>5. \A z \in Splits : splits[z].order # o => splits'[z] = splits[z]
  BY <1>1, <1>2 DEF RetirePendingSplits, PendingSplits
<1>6. \A z \in Orders : z # o => orders'[z] = orders[z] /\ ledger'[z] = ledger[z]
  BY <1>1 DEF Settle, EndOrder, TypeOK
<1> QED BY <1>3, <1>4, <1>5, <1>6, CoveredRetired

(* The other handlers leave the splits alone. *)
LEMMA OthersCover ==
  ASSUME SplitInv,
         \/ Create
         \/ \E o \in Orders : ExpireQrOrder(o)
         \/ SalesReturn
         \/ \E w \in Workers : SetStatus(w) \/ CascadeItemStatus(w)
         \/ UNCHANGED <<orders, ledger, splits>>
  PROVE  \A z \in Orders : Covered(z)'
<1> DEFINE Keeps == \A o \in Orders :
             PendingSplits(o) # {} => Collecting(o)' /\ Room(o)' = Room(o)
<1> USE DEF SplitInv
<1>0. TypeOK /\ \A o \in Orders : PendingSplits(o) # {} => Collecting(o) /\ Exists(o)
  BY DEF Books, Covered, RowsHaveOrder, PendingSplits
<1>1. CASE Create
  <2>1. splits' = splits
    BY <1>1 DEF Create, CreateOrder, CreateCustomerOrder
  <2>2. \A o \in Orders : Exists(o) => orders'[o] = orders[o] /\ ledger'[o] = ledger[o]
    BY <1>0, <1>1 DEF Create, CreateOrder, CreateCustomerOrder, TypeOK
  <2>3. Keeps
    BY <1>0, <2>2 DEF Collecting, Room
  <2> QED BY <2>1, <2>3, CoveredKept
<1>2. CASE \E o \in Orders : ExpireQrOrder(o)
  <2>1. PICK o \in Orders : ExpireQrOrder(o)
    BY <1>2
  <2>2. splits' = splits /\ ledger' = ledger /\ PendingSplits(o) = {}
    BY <2>1 DEF ExpireQrOrder, PendingSplits
  <2>3. \A z \in Orders : z # o => orders'[z] = orders[z]
    BY <1>0, <2>1 DEF ExpireQrOrder, TypeOK
  <2>4. Keeps
    BY <1>0, <2>2, <2>3 DEF Collecting, Room
  <2> QED BY <2>2, <2>4, CoveredKept
<1>3. CASE SalesReturn
  <2>1. CASE \E r \in Returns : ApproveReturn(r)
    <3>1. PICK r \in Returns : ApproveReturn(r)
      BY <2>1
    <3>2. PICK o \in Orders : returns[r].order = o
      BY <3>1 DEF ApproveReturn, Books, RowsHaveOrder
    <3>3. ~Collecting(o) /\ PendingSplits(o) = {}
      BY <1>0, <3>1, <3>2 DEF ApproveReturn, ReturnsWait
    <3>4. \A z \in Orders : z # o => orders'[z] = orders[z] /\ ledger'[z] = ledger[z]
      BY <1>0, <3>1, <3>2 DEF ApproveReturn, TypeOK
    <3>5. splits' = splits
      BY <3>1 DEF ApproveReturn
    <3>6. Keeps
      BY <1>0, <3>3, <3>4 DEF Collecting, Room
    <3> QED BY <3>5, <3>6, CoveredKept
  <2>2. CASE UNCHANGED <<orders, ledger, splits>>
    <3>1. Keeps
      BY <1>0, <2>2 DEF Collecting, Room
    <3> QED BY <2>2, <3>1, CoveredKept
  <2> QED BY <1>3, <2>1, <2>2 DEF SalesReturn, ReturnSalesOrder, RejectReturn
<1>4. CASE \E w \in Workers : SetStatus(w) \/ CascadeItemStatus(w)
  <2>1. PICK w \in Workers : SetStatus(w) \/ CascadeItemStatus(w)
    BY <1>4
  <2>2. PICK o \in Orders : requests[w].order = o
    BY <2>1, RequestTypes DEF SetStatus, CascadeItemStatus
  <2>3. requests[w] \in Request /\ Exists(o) /\ orders[o] \in OrderRow
    BY <1>0, <2>1, <2>2, RequestTypes
       DEF SetStatus, CascadeItemStatus, Live, Exists, TerminalFulfilment, TypeOK
  <2>4. /\ SaveStatus(requests[w]).status \in {orders[o].status, requests[w].target}
        /\ SaveStatus(requests[w]).total = orders[o].total
    BY <2>2, <2>3, SavedStatus
  <2>5. splits' = splits /\ ledger' = ledger
    BY <2>1 DEF SetStatus, CascadeItemStatus
  <2>6. \A z \in Orders : z # o => orders'[z] = orders[z]
    BY <1>0, <2>1, <2>2 DEF SetStatus, CascadeItemStatus, TypeOK
  <2>7. orders'[o].total = orders[o].total /\ orders'[o].status \in {orders[o].status, requests[w].target}
    <3>1. CASE SetStatus(w)
      BY <1>0, <2>2, <2>4, <3>1 DEF SetStatus, TypeOK
    <3>2. CASE CascadeItemStatus(w)
      BY <1>0, <2>2, <2>3, <3>2 DEF CascadeItemStatus, TypeOK, OrderRow
    <3> QED BY <2>1, <3>1, <3>2
  <2>8. ASSUME Collecting(o) PROVE orders'[o].status \notin TerminalFulfilment
    <3>1. CASE SetStatus(w)
      BY <2>2, <2>7, <2>8, <3>1, FulfilmentAssumption DEF SetStatus, Collecting
    <3>2. CASE CascadeItemStatus(w)
      BY <2>2, <2>7, <2>8, <3>2, FulfilmentAssumption
         DEF CascadeItemStatus, Collecting, CascadeTargets
    <3> QED BY <2>1, <3>1, <3>2
  <2>9. Keeps
    BY <1>0, <2>5, <2>6, <2>7, <2>8 DEF Collecting, Room
  <2> QED BY <2>5, <2>9, CoveredKept
<1>5. CASE UNCHANGED <<orders, ledger, splits>>
  <2>1. Keeps
    BY <1>0, <1>5 DEF Collecting, Room
  <2> QED BY <1>5, <2>1, CoveredKept
<1> QED BY <1>1, <1>2, <1>3, <1>4, <1>5

(* A return stays pending or is new; a new one is of a settled order. *)
LEMMA NextReturnsWait ==
  ASSUME SplitInv, Books', Next
  PROVE  ReturnsWait'
<1> USE DEF SplitInv
<1> SUFFICES ASSUME NEW r \in Returns, returns'[r].status = "pending"
             PROVE  ~Collecting(returns[r].order)'
  BY DEF ReturnsWait
<1>1. PICK o \in Orders : returns'[r].order = o
  BY DEF Books, RowsHaveOrder
<1>2. \/ returns[r].status = "pending" /\ returns[r].order = o
      \/ Exists(o) /\ ~Collecting(o)
  <2>1. CASE returns' = returns
    BY <1>1, <2>1
  <2>2. CASE \E z \in Returns : ApproveReturn(z) \/ RejectReturn(z)
    BY <1>1, <2>2 DEF ApproveReturn, RejectReturn, Books, TypeOK, ReturnRow
  <2>3. CASE \E z \in Returns, y \in Orders, repeats \in LineRepeats, qty \in 1..Units :
               ReturnSalesOrder(z, y, repeats, qty)
    <3>1. PICK z \in Returns, y \in Orders, repeats \in LineRepeats, qty \in 1..Units :
                 ReturnSalesOrder(z, y, repeats, qty)
      BY <2>3
    <3>2. Exists(y) /\ ~Collecting(y)
      <4>1. Exists(y) /\ Due(y) <= 0
        BY <3>1 DEF ReturnSalesOrder
      <4>2. Collecting(y) => Due(y) \in Nat \ {0}
        BY OpenIsCollecting
      <4> QED BY <4>1, <4>2
    <3>3. z # r => returns'[r] = returns[r]
      BY <3>1 DEF ReturnSalesOrder
    <3>4. z = r => returns'[r].order = y
      BY <3>1 DEF ReturnSalesOrder, Books, TypeOK
    <3> QED BY <1>1, <3>2, <3>3, <3>4
  <2>4. \/ returns' = returns
        \/ \E z \in Returns : ApproveReturn(z) \/ RejectReturn(z)
        \/ \E z \in Returns, y \in Orders, repeats \in LineRepeats, qty \in 1..Units :
             ReturnSalesOrder(z, y, repeats, qty)
    <3>1. Create \/ (\E z \in Orders : ExpireQrOrder(z)) => returns' = returns
      BY DEF Create, CreateOrder, CreateCustomerOrder, ExpireQrOrder
    <3>2. SplitBill => returns' = returns
      BY DEF SplitBill, CreateSplits, PaySplit, PayLastSplit, CancelSplit, MergeSplits
    <3>3. UpdateStatus => returns' = returns
      BY DEF UpdateStatus, LoadOrder, Settle, EndOrder, SetStatus, CascadeItemStatus,
             AbortByDeadlock, Refuse
    <3> QED BY <3>1, <3>2, <3>3 DEF Next, SalesReturn
  <2> QED BY <2>1, <2>2, <2>3, <2>4
<1>3. Exists(o) /\ ~Collecting(o)
  BY <1>2 DEF Books, RowsHaveOrder, ReturnsWait
<1> QED BY <1>1, <1>3, NeverReopens

LEMMA NextCascadeTargets ==
  ASSUME TypeOK, CascadeTargets, Next
  PROVE  CascadeTargets'
<1> SUFFICES ASSUME NEW w \in Workers, requests'[w] # Idle, requests'[w].kind = "cascade"
             PROVE  requests'[w].target \in Fulfilment
  BY DEF CascadeTargets
<1>1. CASE requests'[w] = requests[w]
  BY <1>1 DEF CascadeTargets
<1>2. CASE \E cacheSaved \in BOOLEAN : AbortByDeadlock(w, cacheSaved)
  <2>1. requests[w] \in Request
    BY <1>2 DEF AbortByDeadlock, TypeOK
  <2> QED BY <1>2, <2>1 DEF AbortByDeadlock, CascadeTargets, TypeOK, Request
<1>3. CASE \E o \in Orders, target \in Statuses, attach \in BOOLEAN :
             LoadOrder(w, "update", o, target, attach)
  BY <1>3 DEF LoadOrder, TypeOK
<1>4. CASE \E o \in Orders, target \in Fulfilment \ {"confirmed"} :
             LoadOrder(w, "cascade", o, target, FALSE)
  BY <1>4 DEF LoadOrder, TypeOK
<1>5. CASE requests'[w] = Idle
  BY <1>5
<1>6. \/ requests'[w] = requests[w] \/ requests'[w] = Idle
      \/ \E cacheSaved \in BOOLEAN : AbortByDeadlock(w, cacheSaved)
      \/ \E o \in Orders, target \in Statuses, attach \in BOOLEAN :
           LoadOrder(w, "update", o, target, attach)
      \/ \E o \in Orders, target \in Fulfilment \ {"confirmed"} :
           LoadOrder(w, "cascade", o, target, FALSE)
  <2>1. Create \/ (\E z \in Orders : ExpireQrOrder(z)) => requests' = requests
    BY DEF Create, CreateOrder, CreateCustomerOrder, ExpireQrOrder
  <2>2. SplitBill => requests' = requests
    BY DEF SplitBill, CreateSplits, PaySplit, PayLastSplit, CancelSplit, MergeSplits
  <2>3. SalesReturn => requests' = requests
    BY DEF SalesReturn, ReturnSalesOrder, ApproveReturn, RejectReturn
  <2>4. ASSUME NEW v \in Workers,
               \/ \E shortfall \in Shortfalls : Settle(v, shortfall)
               \/ EndOrder(v) \/ SetStatus(v) \/ CascadeItemStatus(v) \/ Refuse(v)
        PROVE  requests'[w] = requests[w] \/ requests'[w] = Idle
    BY <2>4 DEF Settle, EndOrder, SetStatus, CascadeItemStatus, Refuse, TypeOK
  <2>5. ASSUME NEW v \in Workers, v # w,
               \/ \E o \in Orders, target \in Statuses, attach \in BOOLEAN :
                    LoadOrder(v, "update", o, target, attach)
               \/ \E o \in Orders, target \in Fulfilment \ {"confirmed"} :
                    LoadOrder(v, "cascade", o, target, FALSE)
               \/ \E cacheSaved \in BOOLEAN : AbortByDeadlock(v, cacheSaved)
        PROVE  requests'[w] = requests[w]
    BY <2>5 DEF LoadOrder, AbortByDeadlock, TypeOK
  <2> QED BY <2>1, <2>2, <2>3, <2>4, <2>5 DEF Next, UpdateStatus
<1> QED BY <1>1, <1>2, <1>3, <1>4, <1>5, <1>6

LEMMA NextCovers ==
  ASSUME SplitInv, Books', Next
  PROVE  \A o \in Orders : Covered(o)'
<1>1. ASSUME SplitBill PROVE \A o \in Orders : Covered(o)'
  BY <1>1, CreateSplitsCovers, PaySplitCovers, PayLastSplitCovers, CancelSplitCovers,
     MergeSplitsCovers DEF SplitBill
<1>2. ASSUME UpdateStatus PROVE \A o \in Orders : Covered(o)'
  <2>1. CASE \E w \in Workers : \E shortfall \in Shortfalls : Settle(w, shortfall) \/ EndOrder(w)
    BY <2>1, EndingCovers
  <2>2. CASE \/ \E w \in Workers : SetStatus(w) \/ CascadeItemStatus(w)
             \/ UNCHANGED <<orders, ledger, splits>>
    BY <2>2, OthersCover
  <2> QED BY <1>2, <2>1, <2>2, ShortfallsAssumption
          DEF UpdateStatus, LoadOrder, AbortByDeadlock, Refuse
<1> QED BY <1>1, <1>2, OthersCover DEF Next

LEMMA SplitInvHolds == Spec => []SplitInv
<1>1. Init => SplitInv
  <2> SUFFICES ASSUME Init PROVE SplitInv
    OBVIOUS
  <2>1. Books
    BY InitBooks
  <2>2. ReturnsWait /\ CascadeTargets
    BY DEF Init, ReturnsWait, CascadeTargets
  <2>3. \A o \in Orders : Covered(o)
    BY DEF Init, Covered, PendingSplits
  <2> QED BY <2>1, <2>2, <2>3 DEF SplitInv
<1>2. SplitInv /\ Books' /\ [Next]_vars => SplitInv'
  <2> SUFFICES ASSUME SplitInv, Books', [Next]_vars PROVE SplitInv'
    OBVIOUS
  <2>1. CASE Next
    BY <2>1, NextReturnsWait, NextCascadeTargets, NextCovers DEF SplitInv, Books
  <2>2. CASE UNCHANGED vars
    <3>1. ReturnsWait' /\ CascadeTargets'
      BY <2>2 DEF SplitInv, ReturnsWait, CascadeTargets, Collecting, vars
    <3>2. \A o \in Orders : Covered(o)'
      BY <2>2, OthersCover DEF vars
    <3> QED BY <3>1, <3>2 DEF SplitInv
  <2> QED BY <2>1, <2>2
<1> QED BY <1>1, <1>2, BooksBalance, PTL DEF Spec

(* Whatever splits a cashier opens, merges, cancels or lets a concurrent   *)
(* settlement, void or return overtake, the pending ones are of an order   *)
(* still open for collection and together ask for no more than it owes.    *)
THEOREM SplitsStayCovered == Spec => []SplitsCovered
<1>1. SplitInv => SplitsCovered
  BY CoveredMeans DEF SplitInv
<1> QED BY <1>1, SplitInvHolds, PTL

-----------------------------------------------------------------------------
(***************************************************************************)
(* What moves with an order's money: the cache of its state, stock, points *)
(* and journal jobs, and the returns that wait.  These hold until some     *)
(* transaction is run again, however many retries MaxDeadlocks allows: a   *)
(* retry loses the status (README, instances that fail).                   *)
(***************************************************************************)
NoRetry == \A w \in Workers : \A cacheSaved \in BOOLEAN : ~AbortByDeadlock(w, cacheSaved)

(* The behaviours, or the part of one, in which withDeadlockRetry has      *)
(* nothing to do.                                                          *)
UntilRetry == Spec /\ [][NoRetry]_vars

(* Every request in flight is in its first attempt. *)
Fresh == \A w \in Workers : requests[w] # Idle => requests[w].aborts = 0

(* All of the order's money came in, and the cache has heard of it. *)
SoldOut(o) ==
  ledger[o].collected = orders[o].total /\ orders[o].paymentStatus # "unpaid"

(* The cache the ledger calls for, where there is something to pay. *)
CacheOf(money, total) ==
  IF money.collected = 0 THEN "unpaid"
  ELSE IF money.refunded = money.collected THEN "refunded"
  ELSE IF money.refunded > 0 \/ money.collected < total THEN "partial" ELSE "paid"

Reconciled(o) ==
  /\ Live(o) => /\ ledger[o].refunded = ledger[o].approved
                /\ ledger[o].refunded > 0 => ledger[o].collected = orders[o].total
  /\ ~Live(o) => ledger[o].refunded = ledger[o].collected
  /\ Exists(o) =>
       IF orders[o].total > 0
       THEN orders[o].paymentStatus = CacheOf(ledger[o], orders[o].total)
       ELSE orders[o].paymentStatus \in {"unpaid", "paid"}

Approved(o) == ReturnsOf(o, {"approved"})
Claims(o) == ReturnsOf(o, {"pending", "approved"})
ApprovedUnits(o) == ReturnedUnits(o, {"approved"})

GoodsMoved(o) ==
  /\ ~Exists(o) => stock[o].deductions = 0 /\ jobs[o].reversal = 0
  /\ stock[o].deductions = 0 => stock[o].sold = 0 /\ points[o].earned = 0
  /\ stock[o].deductions = 1 /\ Shortfalls = {0} => stock[o].sold = Units
  /\ Live(o) => /\ stock[o].deductions = IF SoldOut(o) THEN 1 ELSE 0
                /\ stock[o].restored = IF stock[o].sold > 0 THEN ApprovedUnits(o) ELSE 0
  /\ ~Live(o) => stock[o].restored = stock[o].sold /\ stock[o].deductions <= 1

PointsMoved(o) ==
  /\ points[o].earned \in {0, Units}
  /\ points[o].earned > 0 => orders[o].member
  /\ points[o].reversed = IF ~Live(o) \/ points[o].earned < ApprovedUnits(o)
                          THEN points[o].earned ELSE ApprovedUnits(o)

JobsSent(o) ==
  /\ jobs[o].order = stock[o].deductions
  /\ jobs[o].return = Cardinality(Approved(o))
  /\ Live(o) => jobs[o].reversal = 0
  /\ ~Live(o) => jobs[o].order <= jobs[o].reversal /\ jobs[o].reversal <= 1

(* A return is of a completed order; what waits is covered by what the     *)
(* order holds, and what is claimed by what it sold.                       *)
ReturnsOK(o) ==
  /\ Live(o) /\ Claims(o) # {} => SoldOut(o)
  /\ Live(o) /\ ledger[o].refunded > 0 => Approved(o) # {}
  /\ Live(o) => PendingRefunds(o) <= NetCollected(ledger[o])
  /\ LineRepeats = {1} => ClaimedUnits(o) <= Units

OrderOK(o) ==
  Reconciled(o) /\ GoodsMoved(o) /\ PointsMoved(o) /\ JobsSent(o) /\ ReturnsOK(o)

(* What a request loaded says little, but nothing false, of its order. *)
Informed(w) ==
  requests[w] # Idle =>
    LET q == requests[w]
        o == q.order
    IN  /\ Exists(o)
        /\ q.status \in TerminalFulfilment => ~Live(o)
        /\ q.paymentStatus = "paid" => ~Live(o) \/ SoldOut(o)
        /\ q.paymentStatus = "refunded" => ledger[o].refunded > 0

(* The inductive invariant, with SplitInv. *)
GoodsInv == (\A o \in Orders : OrderOK(o)) /\ (\A w \in Workers : Informed(w))

(* What a step does to every order: a completed one stays so until it ends. *)
OrderStep(o) ==
  OrderOK(o)' /\ (Exists(o) /\ SoldOut(o) => SoldOut(o)' \/ ~Live(o)')

-----------------------------------------------------------------------------
(* The money state in terms of the ledger. *)

LEMMA LiveState ==
  ASSUME NEW row \in OrderRow, NEW money \in LedgerSums,
         row.status \notin TerminalFulfilment,
         money.refunded = money.approved, money.refunded <= money.collected,
         money.collected <= row.total,
         money.refunded > 0 => money.collected = row.total
  PROVE  /\ Outstanding(row, money) = row.total - money.collected
         /\ LedgerState(row, money) # "INVALID"
         /\ row.total = 0 => LedgerState(row, money) = "PAID"
         /\ row.total > 0 =>
              LegacyPaymentStatus[LedgerState(row, money)] = CacheOf(money, row.total)
         /\ LedgerState(row, money) \in OpenStates <=> money.collected < row.total
<1> DEFINE G == row.total
           C == money.collected
           R == money.refunded
           state == LedgerState(row, money)
<1>1. G \in Nat /\ C \in Nat /\ R \in Nat /\ money.approved \in Nat
  BY DEF OrderRow, LedgerSums
<1>2. Outstanding(row, money) = G - C
  BY <1>1 DEF Outstanding, ReversedValue
<1>3. state = DeriveFinancialState(G, C, R, G - C, FALSE)
  BY <1>1, <1>2 DEF LedgerState, DeriveFinancialState
<1> HIDE DEF state
<1>4. CASE G = 0
  <2>1. state = "PAID"
    BY <1>1, <1>3, <1>4 DEF DeriveFinancialState
  <2> QED BY <1>1, <1>2, <1>4, <2>1 DEF state, OpenStates
<1>5. CASE G > 0 /\ C = 0
  <2>1. state = "UNPAID"
    BY <1>1, <1>3, <1>5 DEF DeriveFinancialState
  <2> QED BY <1>1, <1>2, <1>5, <2>1 DEF state, OpenStates, LegacyPaymentStatus, CacheOf
<1>6. CASE G > 0 /\ C > 0 /\ R = C
  <2>1. state = "REFUNDED"
    BY <1>1, <1>3, <1>6 DEF DeriveFinancialState
  <2> QED BY <1>1, <1>2, <1>6, <2>1 DEF state, OpenStates, LegacyPaymentStatus, CacheOf
<1>7. CASE G > 0 /\ C > 0 /\ R # C /\ R > 0
  <2>1. state = "PARTIALLY_REFUNDED"
    BY <1>1, <1>3, <1>7 DEF DeriveFinancialState
  <2> QED BY <1>1, <1>2, <1>7, <2>1 DEF state, OpenStates, LegacyPaymentStatus, CacheOf
<1>8. CASE G > 0 /\ C > 0 /\ R = 0 /\ C < G
  <2>1. state = "PARTIALLY_PAID"
    BY <1>1, <1>3, <1>8 DEF DeriveFinancialState
  <2> QED BY <1>1, <1>2, <1>8, <2>1 DEF state, OpenStates, LegacyPaymentStatus, CacheOf
<1>9. CASE G > 0 /\ C > 0 /\ R = 0 /\ C = G
  <2>1. state = "PAID"
    BY <1>1, <1>3, <1>9 DEF DeriveFinancialState
  <2> QED BY <1>1, <1>2, <1>9, <2>1 DEF state, OpenStates, LegacyPaymentStatus, CacheOf
<1> QED BY <1>1, <1>4, <1>5, <1>6, <1>7, <1>8, <1>9

LEMMA EndedState ==
  ASSUME NEW row \in OrderRow, NEW money \in LedgerSums,
         row.status \in TerminalFulfilment, money.refunded = money.collected
  PROVE  /\ Outstanding(row, money) = 0
         /\ LedgerState(row, money) = IF money.collected = 0 THEN "UNPAID" ELSE "REFUNDED"
         /\ LegacyPaymentStatus[LedgerState(row, money)] = CacheOf(money, row.total)
<1> DEFINE state == LedgerState(row, money)
<1>1. row.total \in Nat /\ money.collected \in Nat
  BY DEF OrderRow, LedgerSums
<1>2. Outstanding(row, money) = 0
  BY <1>1 DEF Outstanding, ReversedValue
<1>3. state = IF money.collected = 0 THEN "UNPAID" ELSE "REFUNDED"
  BY <1>1, <1>2 DEF LedgerState, DeriveFinancialState
<1> HIDE DEF state
<1>4. LegacyPaymentStatus[state] = CacheOf(money, row.total)
  BY <1>1, <1>3 DEF LegacyPaymentStatus, CacheOf
<1> QED BY <1>2, <1>3, <1>4 DEF state

(* The ledger of a live order. *)
LEMMA LiveLedger ==
  ASSUME Books, NEW o \in Orders, Live(o), Reconciled(o)
  PROVE  /\ orders[o] \in OrderRow /\ ledger[o] \in LedgerSums
         /\ orders[o].status \notin TerminalFulfilment
         /\ ledger[o].refunded = ledger[o].approved
         /\ ledger[o].refunded <= ledger[o].collected
         /\ ledger[o].collected <= orders[o].total
         /\ ledger[o].refunded > 0 => ledger[o].collected = orders[o].total
         /\ Due(o) = orders[o].total - ledger[o].collected
         /\ StateOf(o) = LedgerState(orders[o], ledger[o])
<1>1. /\ orders[o] \in OrderRow /\ ledger[o] \in LedgerSums
      /\ orders[o].status \notin TerminalFulfilment
      /\ ledger[o].refunded = ledger[o].approved
      /\ ledger[o].refunded <= ledger[o].collected
      /\ ledger[o].collected <= orders[o].total
      /\ ledger[o].refunded > 0 => ledger[o].collected = orders[o].total
      /\ orders[o].paymentStatus = "paid" => ledger[o].collected = orders[o].total
  BY DEF Books, TypeOK, LedgerBounds, PaidIsCollected, Live, Reconciled
<1>2. Due(o) = orders[o].total - ledger[o].collected
  BY <1>1, LiveState DEF Due
<1>3. StateOf(o) = LedgerState(orders[o], ledger[o])
  <2>1. LedgerState(orders[o], ledger[o]) \in OpenStates =>
          ledger[o].collected < orders[o].total
    BY <1>1, LiveState
  <2>2. ledger[o].collected \in Nat /\ orders[o].total \in Nat
    BY <1>1 DEF LedgerSums, OrderRow
  <2> QED BY <1>1, <2>1, <2>2 DEF StateOf, FinancialState
<1> QED BY <1>1, <1>2, <1>3

-----------------------------------------------------------------------------
(* The returns of an order. *)

ClaimsKept(o) ==
  /\ Approved(o)' = Approved(o) /\ Claims(o)' = Claims(o)
  /\ ApprovedUnits(o)' = ApprovedUnits(o)
  /\ ClaimedUnits(o)' = ClaimedUnits(o)
  /\ PendingRefunds(o)' = PendingRefunds(o)

LEMMA SameReturns ==
  ASSUME returns' = returns, NEW o
  PROVE  ClaimsKept(o)
BY DEF ClaimsKept, Approved, Claims, ApprovedUnits, ClaimedUnits, PendingRefunds,
       ReturnedUnits, ReturnsOf

(* The sums over an order's returns, and what nothing sums to. *)
LEMMA ReturnSums ==
  ASSUME Books, NEW o \in Orders
  PROVE  /\ IsFiniteSet(Approved(o)) /\ IsFiniteSet(Claims(o))
         /\ ApprovedUnits(o) \in Nat /\ ClaimedUnits(o) \in Nat
         /\ PendingRefunds(o) \in Nat
         /\ ApprovedUnits(o) <= ClaimedUnits(o)
         /\ Approved(o) = {} => ApprovedUnits(o) = 0 /\ Cardinality(Approved(o)) = 0
         /\ Claims(o) = {} => /\ Approved(o) = {} /\ PendingRefunds(o) = 0
                              /\ ClaimedUnits(o) = 0
<1> DEFINE units == [r \in Returns |-> returns[r].units]
           amounts == [r \in Returns |-> returns[r].amount]
           Pending == ReturnsOf(o, {"pending"})
<1>1. /\ ApprovedUnits(o) = SumFunctionOnSet(units, Approved(o))
      /\ ClaimedUnits(o) = SumFunctionOnSet(units, Claims(o))
      /\ PendingRefunds(o) = SumFunctionOnSet(amounts, Pending)
  BY DEF ApprovedUnits, ClaimedUnits, PendingRefunds, ReturnedUnits, Approved, Claims
<1>2. /\ Approved(o) \in SUBSET Claims(o) /\ Pending \in SUBSET Claims(o)
      /\ Claims(o) \in SUBSET Returns
  BY DEF Approved, Claims, ReturnsOf
<1>3. \A r \in Returns : units[r] \in Nat /\ amounts[r] \in Nat
  BY DEF Books, TypeOK, ReturnRow
<1> HIDE DEF units, amounts, Pending
<1>4. IsFiniteSet(Claims(o)) /\ IsFiniteSet(Approved(o)) /\ IsFiniteSet(Pending)
  BY <1>2, RowsAssumption, FS_Subset
<1>5. ApprovedUnits(o) \in Nat /\ ClaimedUnits(o) \in Nat /\ PendingRefunds(o) \in Nat
  BY <1>1, <1>2, <1>3, <1>4, SumNat
<1>6. ApprovedUnits(o) <= ClaimedUnits(o)
  BY <1>1, <1>2, <1>3, <1>4, SumSubset
<1>7. Approved(o) = {} => ApprovedUnits(o) = 0 /\ Cardinality(Approved(o)) = 0
  BY <1>1, SumEmpty, FS_EmptySet
<1>8. Claims(o) = {} => Approved(o) = {} /\ PendingRefunds(o) = 0 /\ ClaimedUnits(o) = 0
  BY <1>1, <1>2, SumEmpty
<1> QED BY <1>4, <1>5, <1>6, <1>7, <1>8

LEMMA NextReturnSums ==
  ASSUME Books', NEW o \in Orders
  PROVE  /\ ApprovedUnits(o)' \in Nat /\ ClaimedUnits(o)' \in Nat
         /\ PendingRefunds(o)' \in Nat
<1>1. \A x \in Returns : returns'[x].units \in Nat /\ returns'[x].amount \in Nat
  BY DEF Books, TypeOK, ReturnRow
<1>2. ASSUME NEW A \in SUBSET Returns
      PROVE  /\ SumFunctionOnSet([x \in Returns |-> returns'[x].units], A) \in Nat
             /\ SumFunctionOnSet([x \in Returns |-> returns'[x].amount], A) \in Nat
  BY <1>1, RowsAssumption, FS_Subset, SumNat
<1>3. /\ Approved(o)' \in SUBSET Returns /\ Claims(o)' \in SUBSET Returns
      /\ ReturnsOf(o, {"pending"})' \in SUBSET Returns
  BY DEF Approved, Claims, ReturnsOf
<1> QED BY <1>2, <1>3
     DEF ApprovedUnits, ClaimedUnits, PendingRefunds, ReturnedUnits, Approved, Claims

(* An order no step touched, or of which one changed the status only. *)
LEMMA Unmoved ==
  ASSUME NEW o \in Orders, OrderOK(o), ClaimsKept(o),
         Live(o)' <=> Live(o), Exists(o)' <=> Exists(o),
         orders'[o].total = orders[o].total,
         orders'[o].paymentStatus = orders[o].paymentStatus,
         orders[o].member => orders'[o].member,
         ledger'[o] = ledger[o], stock'[o] = stock[o], points'[o] = points[o],
         jobs'[o] = jobs[o]
  PROVE  OrderStep(o)
<1>1. SoldOut(o)' <=> SoldOut(o)
  BY DEF SoldOut
<1>2. Reconciled(o)'
  BY DEF OrderOK, Reconciled
<1>3. GoodsMoved(o)'
  BY <1>1 DEF OrderOK, GoodsMoved, ClaimsKept
<1>4. PointsMoved(o)'
  BY DEF OrderOK, PointsMoved, ClaimsKept
<1>5. JobsSent(o)'
  BY DEF OrderOK, JobsSent, ClaimsKept
<1>6. ReturnsOK(o)'
  BY <1>1 DEF OrderOK, ReturnsOK, ClaimsKept, NetCollected
<1> QED BY <1>1, <1>2, <1>3, <1>4, <1>5, <1>6 DEF OrderStep, OrderOK

(* What a step of one order leaves alone. *)
OthersAlone(o) ==
  \A z \in Orders : z # o =>
    /\ orders'[z] = orders[z] /\ ledger'[z] = ledger[z] /\ stock'[z] = stock[z]
    /\ points'[z] = points[z] /\ jobs'[z] = jobs[z]

LEMMA OneOrder ==
  ASSUME GoodsInv, NEW o \in Orders, OthersAlone(o), OrderStep(o),
         \A z \in Orders : z # o => ClaimsKept(z)
  PROVE  \A z \in Orders : OrderStep(z)
<1> SUFFICES ASSUME NEW z \in Orders, z # o PROVE OrderStep(z)
  OBVIOUS
<1>1. (Live(z)' <=> Live(z)) /\ (Exists(z)' <=> Exists(z))
  BY DEF OthersAlone, Live, Exists
<1> QED BY <1>1, Unmoved DEF OthersAlone, GoodsInv

(* Before an order completes nothing of it has moved. *)
LEMMA Untouched ==
  ASSUME SplitInv, NEW o \in Orders, OrderOK(o), ~SoldOut(o),
         orders[o].status \notin TerminalFulfilment
  PROVE  /\ stock[o].deductions = 0 /\ stock[o].sold = 0 /\ stock[o].restored = 0
         /\ points[o].earned = 0 /\ points[o].reversed = 0
         /\ jobs[o].order = 0 /\ jobs[o].reversal = 0
         /\ Claims(o) = {} /\ Approved(o) = {}
<1>1. Claims(o) = {}
  <2>1. CASE Live(o)
    BY <2>1 DEF OrderOK, ReturnsOK
  <2>2. CASE ~Live(o)
    BY <2>2 DEF Live, SplitInv, Books, RowsHaveOrder, Claims, ReturnsOf
  <2> QED BY <2>1, <2>2
<1>2. Approved(o) = {} /\ ApprovedUnits(o) = 0
  BY <1>1, ReturnSums DEF SplitInv
<1>3. stock[o].deductions = 0 /\ jobs[o].reversal = 0
  BY DEF OrderOK, GoodsMoved, JobsSent, Live
<1>4. stock[o].sold = 0 /\ points[o].earned = 0 /\ stock[o].restored = 0 /\ jobs[o].order = 0
  BY <1>3 DEF OrderOK, GoodsMoved, JobsSent
<1>5. points[o].reversed = 0
  BY <1>2, <1>4 DEF OrderOK, PointsMoved
<1> QED BY <1>1, <1>2, <1>3, <1>4, <1>5

-----------------------------------------------------------------------------
(* The four ways an order moves: it opens, pays down, completes and ends.  *)

(* All of the money is in: goods and points move, the books are told. *)
LEMMA Completes ==
  ASSUME SplitInv, Books', GoodsInv, NEW o \in Orders, NEW shortfall \in Shortfalls,
         ~SoldOut(o), orders[o].status \notin TerminalFulfilment,
         Live(o)', orders'[o].paymentStatus = "paid",
         ledger'[o].collected = orders'[o].total, ledger'[o].refunded = 0,
         DeductStock(o, shortfall), EnqueueOrderJobs(o),
         points'[o].earned \in {points[o].earned, Units},
         points'[o].reversed = points[o].reversed,
         points'[o].earned > 0 => orders'[o].member,
         returns' = returns, OthersAlone(o)
  PROVE  \A z \in Orders : OrderStep(z)
<1>1. OrderOK(o) /\ TypeOK
  BY DEF GoodsInv, SplitInv, Books
<1>2. /\ stock[o].deductions = 0 /\ stock[o].sold = 0 /\ stock[o].restored = 0
      /\ points[o].earned = 0 /\ points[o].reversed = 0
      /\ jobs[o].order = 0 /\ jobs[o].reversal = 0
      /\ Claims(o) = {} /\ Approved(o) = {}
  BY <1>1, Untouched
<1>3. ClaimsKept(o) /\ \A z \in Orders : ClaimsKept(z)
  BY SameReturns
<1>4. /\ Approved(o)' = {} /\ Claims(o)' = {} /\ ApprovedUnits(o)' = 0
      /\ PendingRefunds(o)' = 0 /\ ClaimedUnits(o)' = 0
  BY <1>2, <1>3, ReturnSums DEF ClaimsKept, SplitInv
<1>5. /\ stock'[o].deductions = 1 /\ stock'[o].sold = Units - shortfall
      /\ stock'[o].restored = 0
  BY <1>1, <1>2, UnitsAssumption, ShortfallsAssumption DEF DeductStock, TypeOK, StockHistory
<1>6. /\ jobs'[o].order = 1 /\ jobs'[o].reversal = 0 /\ jobs'[o].return = jobs[o].return
  BY <1>1, <1>2 DEF EnqueueOrderJobs, TypeOK, JobCounts
<1>7. /\ orders'[o].total \in Nat /\ ledger'[o].approved = 0
      /\ ledger'[o].approved \in Nat
  BY DEF Books, TypeOK, OrderRow, LedgerSums, ApprovedRefunded
<1>8. SoldOut(o)'
  BY DEF SoldOut
<1>9. Reconciled(o)'
  BY <1>7 DEF Reconciled, CacheOf
<1>10. GoodsMoved(o)'
  BY <1>4, <1>5, <1>8, UnitsAssumption DEF GoodsMoved, Live, Exists
<1>11. PointsMoved(o)'
  BY <1>2, <1>4, UnitsAssumption DEF PointsMoved
<1>12. JobsSent(o)'
  BY <1>1, <1>3, <1>5, <1>6 DEF OrderOK, JobsSent, ClaimsKept
<1>13. ReturnsOK(o)'
  BY <1>4, <1>7, <1>8, UnitsAssumption DEF ReturnsOK, NetCollected
<1>14. OrderStep(o)
  BY <1>8, <1>9, <1>10, <1>11, <1>12, <1>13 DEF OrderStep, OrderOK
<1> QED BY <1>3, <1>14, OneOrder

(* A live order without approved returns ends empty: what it sold and      *)
(* earned came back.                                                       *)
LEMMA Ends ==
  ASSUME SplitInv, Books', GoodsInv, NEW o \in Orders,
         Live(o), Approved(o) = {}, orders'[o].status \in TerminalFulfilment,
         orders[o].member => orders'[o].member,
         ledger'[o].refunded = ledger'[o].collected,
         IF orders'[o].total > 0
         THEN orders'[o].paymentStatus = CacheOf(ledger'[o], orders'[o].total)
         ELSE orders'[o].paymentStatus \in {"unpaid", "paid"},
         stock'[o].sold = stock[o].sold, stock'[o].deductions = stock[o].deductions,
         stock'[o].restored = stock[o].sold,
         points'[o].earned = points[o].earned, points'[o].reversed = points[o].earned,
         jobs'[o].order = jobs[o].order, jobs'[o].return = jobs[o].return,
         jobs[o].order <= jobs'[o].reversal, jobs'[o].reversal <= 1,
         returns' = returns, OthersAlone(o)
  PROVE  \A z \in Orders : OrderStep(z)
<1>1. OrderOK(o)
  BY DEF GoodsInv
<1>2. ~Live(o)' /\ Exists(o)'
  BY DEF Live, Exists, TerminalFulfilment
<1>3. ClaimsKept(o) /\ \A z \in Orders : ClaimsKept(z)
  BY SameReturns
<1>4. Reconciled(o)'
  BY <1>2 DEF Reconciled
<1>5. GoodsMoved(o)'
  BY <1>1, <1>2 DEF OrderOK, GoodsMoved
<1>6. PointsMoved(o)'
  BY <1>1, <1>2 DEF OrderOK, PointsMoved
<1>7. JobsSent(o)'
  BY <1>1, <1>2, <1>3 DEF OrderOK, JobsSent, ClaimsKept
<1>8. ReturnsOK(o)'
  BY <1>1, <1>2, <1>3 DEF OrderOK, ReturnsOK, ClaimsKept
<1>9. OrderStep(o)
  BY <1>2, <1>4, <1>5, <1>6, <1>7, <1>8 DEF OrderStep, OrderOK
<1> QED BY <1>3, <1>9, OneOrder

LEMMA CreateOrderMoves ==
  ASSUME SplitInv, Books', GoodsInv, NEW o \in Orders, NEW total \in Totals,
         NEW member \in BOOLEAN, CreateOrder(o, total, member)
  PROVE  \A z \in Orders : OrderStep(z)
<1>1. TypeOK /\ AbsentIsEmpty /\ PointsBound
  BY DEF SplitInv, Books
<1>2. OrderOK(o) /\ ~SoldOut(o) /\ orders[o].status \notin TerminalFulfilment
  BY <1>1 DEF GoodsInv, CreateOrder, AbsentIsEmpty, SoldOut, Exists, TerminalFulfilment
<1>3. /\ orders'[o].status = "paid" /\ orders'[o].paymentStatus = "paid"
      /\ orders'[o].total = total /\ orders'[o].member = member
  BY <1>1 DEF CreateOrder, TypeOK
<1>4. Live(o)'
  BY <1>3 DEF Live, Exists, TerminalFulfilment
<1>5. ledger'[o].collected = total /\ ledger'[o].refunded = 0
  BY <1>1 DEF CreateOrder, AbsentIsEmpty, TypeOK, LedgerSums
<1>6. points[o].earned = 0 /\ points[o] \in PointHistory
  BY <1>1, <1>2, Untouched DEF TypeOK
<1>7. /\ points'[o].earned = (IF member THEN Units ELSE 0)
      /\ points'[o].reversed = points[o].reversed
  BY <1>1, <1>6 DEF CreateOrder, AwardOnce, TypeOK, PointHistory
<1>8. OthersAlone(o)
  BY <1>1 DEF CreateOrder, DeductStock, AwardOnce, EnqueueOrderJobs, OthersAlone, TypeOK
<1>9. points'[o].earned > 0 => orders'[o].member
  BY <1>3, <1>7, UnitsAssumption
<1> QED
  BY <1>2, <1>3, <1>4, <1>5, <1>6, <1>7, <1>8, <1>9, ShortfallsAssumption, Completes
     DEF CreateOrder

LEMMA CreateCustomerOrderMoves ==
  ASSUME SplitInv, Books', GoodsInv, NEW o \in Orders, NEW total \in Totals,
         CreateCustomerOrder(o, total)
  PROVE  \A z \in Orders : OrderStep(z)
<1>1. TypeOK /\ AbsentIsEmpty
  BY DEF SplitInv, Books
<1>2. OrderOK(o) /\ ~SoldOut(o) /\ orders[o].status \notin TerminalFulfilment
  BY <1>1 DEF GoodsInv, CreateCustomerOrder, AbsentIsEmpty, SoldOut, Exists, TerminalFulfilment
<1>3. /\ orders'[o].status = "pending" /\ orders'[o].paymentStatus = "unpaid"
      /\ orders'[o].total = total /\ total \in Nat
  BY <1>1, TotalsAssumption DEF CreateCustomerOrder, TypeOK
<1>4. Live(o)' /\ Exists(o)' /\ ~SoldOut(o)' /\ ~Exists(o)
  BY <1>3 DEF Live, Exists, TerminalFulfilment, SoldOut, CreateCustomerOrder
<1>5. /\ ledger'[o].collected = 0 /\ ledger'[o].refunded = 0 /\ ledger'[o].approved = 0
      /\ stock'[o] = stock[o] /\ points'[o] = points[o] /\ jobs'[o] = jobs[o]
  BY <1>1, <1>4 DEF CreateCustomerOrder, AbsentIsEmpty
<1>6. ClaimsKept(o) /\ \A z \in Orders : ClaimsKept(z)
  BY SameReturns DEF CreateCustomerOrder
<1>7. /\ stock[o].deductions = 0 /\ stock[o].sold = 0 /\ stock[o].restored = 0
      /\ points[o].earned = 0 /\ points[o].reversed = 0
      /\ jobs[o].order = 0 /\ jobs[o].reversal = 0
      /\ Claims(o) = {} /\ Approved(o) = {}
  BY <1>2, Untouched
<1>8. /\ Approved(o)' = {} /\ Claims(o)' = {} /\ ApprovedUnits(o)' = 0
      /\ PendingRefunds(o)' = 0 /\ ClaimedUnits(o)' = 0
  BY <1>6, <1>7, ReturnSums DEF ClaimsKept, SplitInv
<1>9. Reconciled(o)'
  BY <1>3, <1>4, <1>5 DEF Reconciled, CacheOf
<1>10. GoodsMoved(o)'
  BY <1>4, <1>5, <1>7 DEF GoodsMoved
<1>11. PointsMoved(o)'
  BY <1>5, <1>7, <1>8 DEF PointsMoved
<1>12. JobsSent(o)'
  BY <1>2, <1>4, <1>5, <1>6, <1>7 DEF OrderOK, JobsSent, ClaimsKept
<1>13. ReturnsOK(o)'
  BY <1>5, <1>8, UnitsAssumption DEF ReturnsOK, NetCollected
<1>14. OrderStep(o)
  BY <1>4, <1>9, <1>10, <1>11, <1>12, <1>13 DEF OrderStep, OrderOK
<1>15. OthersAlone(o)
  BY <1>1 DEF CreateCustomerOrder, OthersAlone, TypeOK
<1> QED BY <1>6, <1>14, <1>15, OneOrder

LEMMA PaySplitMoves ==
  ASSUME SplitInv, Books', GoodsInv, NEW s \in Splits, PaySplit(s)
  PROVE  \A z \in Orders : OrderStep(z)
<1> PICK o \in Orders : splits[s].order = o
  BY DEF PaySplit, CanPaySplit, SplitInv, Books, RowsHaveOrder
<1>0. Books /\ TypeOK /\ CanPaySplit(s)
  BY DEF SplitInv, Books, PaySplit
<1>1. /\ Exists(o) /\ Collecting(o) /\ orders[o].paymentStatus # "paid"
      /\ MoneyAfter(s) \in LedgerSums
      /\ MoneyAfter(s) = [ledger[o] EXCEPT !.collected = @ + splits[s].amount]
      /\ splits[s].amount + ledger[o].collected <= orders[o].total
      /\ StateAfter(s) \in FinancialStates \ {"INVALID"}
  BY <1>0, CanPay
<1>2. OrderOK(o) /\ ~SoldOut(o) /\ Live(o) /\ orders[o].status \notin TerminalFulfilment
      /\ orders[o] \in OrderRow /\ ledger[o] \in LedgerSums /\ splits[s].amount \in Nat
  BY <1>0, <1>1 DEF GoodsInv, Collecting, SoldOut, Live, TypeOK, SplitRow, OrderRow, LedgerSums
<1> DEFINE money == MoneyAfter(s)
           row == [orders[o] EXCEPT !.paymentStatus = LegacyPaymentStatus[StateAfter(s)]]
<1>3. /\ money.collected = ledger[o].collected + splits[s].amount
      /\ money.refunded = 0 /\ money.approved = 0 /\ money \in LedgerSums
  BY <1>0, <1>1, <1>2 DEF Collecting, LedgerSums, Books, ApprovedRefunded
<1>4. orders'[o] = row /\ ledger'[o] = money
  BY <1>0 DEF PaySplit, TypeOK
<1>5. StateAfter(s) = LedgerState(orders[o], money)
  BY <1>1 DEF StateAfter, FinancialState
<1>6. orders[o].total > 0 /\ orders[o].total \in Nat /\ money.collected <= orders[o].total
  BY <1>1, <1>2, <1>3 DEF Collecting, OrderRow, LedgerSums
<1> HIDE DEF money
<1>7. /\ LegacyPaymentStatus[StateAfter(s)] = CacheOf(money, orders[o].total)
      /\ StateAfter(s) # "PAID" => money.collected # orders[o].total
  <2>1. /\ LegacyPaymentStatus[StateAfter(s)] = CacheOf(money, orders[o].total)
        /\ StateAfter(s) \in OpenStates <=> money.collected < orders[o].total
    <3>1. money.refunded <= money.collected
      BY <1>3 DEF LedgerSums
    <3> QED BY <1>2, <1>3, <1>5, <1>6, <3>1, LiveState
  <2>2. StateAfter(s) \in {"UNPAID", "PARTIALLY_PAID", "PAID"}
    BY <1>1, <1>3, <1>5, <1>6 DEF LedgerState, DeriveFinancialState, FinancialStates, money, LedgerSums
  <2>3. money.collected \in Nat
    BY <1>1 DEF money, LedgerSums
  <2> QED BY <1>6, <2>1, <2>2, <2>3 DEF OpenStates
<1>8. StateAfter(s) # "PAID"
  BY DEF PaySplit
<1>9. /\ row.status = orders[o].status /\ row.total = orders[o].total
      /\ row.member = orders[o].member
      /\ row.paymentStatus = CacheOf(money, orders[o].total)
  BY <1>2, <1>7 DEF OrderRow
<1> HIDE DEF row
<1>10. Live(o)' /\ Exists(o)' /\ ~SoldOut(o)'
  BY <1>2, <1>4, <1>7, <1>8, <1>9 DEF Live, Exists, SoldOut
<1>11. Reconciled(o)'
  BY <1>3, <1>4, <1>6, <1>9, <1>10 DEF Reconciled
<1>12. /\ stock'[o] = stock[o] /\ points'[o] = points[o] /\ jobs'[o] = jobs[o]
       /\ returns' = returns
  BY DEF PaySplit
<1>13. ClaimsKept(o) /\ \A z \in Orders : ClaimsKept(z)
  BY <1>12, SameReturns
<1>14. Claims(o)' = {} /\ Claims(o) = {} /\ PendingRefunds(o)' = 0
  BY <1>0, <1>2, <1>13, Untouched, ReturnSums DEF ClaimsKept
<1>15. GoodsMoved(o)'
  BY <1>2, <1>10, <1>12, <1>13 DEF OrderOK, GoodsMoved, ClaimsKept
<1>16. PointsMoved(o)'
  BY <1>2, <1>4, <1>9, <1>10, <1>12, <1>13 DEF OrderOK, PointsMoved, ClaimsKept
<1>17. JobsSent(o)'
  BY <1>2, <1>10, <1>12, <1>13 DEF OrderOK, JobsSent, ClaimsKept
<1>18. ReturnsOK(o)'
  <2>1. ledger'[o].refunded = 0 /\ NetCollected(ledger'[o]) >= 0
    BY <1>1, <1>3, <1>4 DEF NetCollected, LedgerSums, money
  <2> QED BY <1>2, <1>13, <1>14, <2>1 DEF OrderOK, ReturnsOK, ClaimsKept
<1>19. OrderStep(o)
  BY <1>2, <1>11, <1>15, <1>16, <1>17, <1>18 DEF OrderStep, OrderOK
<1>20. OthersAlone(o)
  BY <1>0 DEF PaySplit, OthersAlone, TypeOK
<1> QED BY <1>13, <1>19, <1>20, OneOrder

LEMMA PayLastSplitMoves ==
  ASSUME SplitInv, Books', GoodsInv, NEW s \in Splits, NEW shortfall \in Shortfalls,
         PayLastSplit(s, shortfall)
  PROVE  \A z \in Orders : OrderStep(z)
<1> PICK o \in Orders : splits[s].order = o
  BY DEF PayLastSplit, CanPaySplit, SplitInv, Books, RowsHaveOrder
<1>0. Books /\ TypeOK /\ CanPaySplit(s) /\ StateAfter(s) = "PAID"
  BY DEF SplitInv, Books, PayLastSplit
<1>1. /\ Exists(o) /\ Collecting(o) /\ orders[o].paymentStatus # "paid"
      /\ MoneyAfter(s) = [ledger[o] EXCEPT !.collected = @ + splits[s].amount]
      /\ MoneyAfter(s).collected = orders[o].total
  BY <1>0, CanPay
<1>2. /\ OrderOK(o) /\ ~SoldOut(o) /\ orders[o].status \notin TerminalFulfilment
      /\ orders[o] \in OrderRow /\ ledger[o] \in LedgerSums /\ points[o] \in PointHistory
  BY <1>0, <1>1 DEF GoodsInv, Collecting, SoldOut, TypeOK, OrderRow, LedgerSums
<1>3. ledger'[o].collected = orders[o].total /\ ledger'[o].refunded = 0
  BY <1>0, <1>1, <1>2 DEF PayLastSplit, Collecting, TypeOK, LedgerSums
<1>4. /\ orders'[o].status = "paid" /\ orders'[o].paymentStatus = "paid"
      /\ orders'[o].total = orders[o].total /\ orders'[o].member = orders[o].member
  BY <1>0, <1>2 DEF PayLastSplit, TypeOK, OrderRow
<1>5. Live(o)'
  BY <1>4 DEF Live, Exists, TerminalFulfilment
<1>6. DeductStock(o, shortfall) /\ AwardOnce(o, orders[o].member) /\ EnqueueOrderJobs(o)
  BY <1>1 DEF PayLastSplit
<1>7. /\ points'[o].earned = IF orders[o].member /\ points[o].earned = 0 THEN Units
                             ELSE points[o].earned
      /\ points'[o].reversed = points[o].reversed
  BY <1>0, <1>2, <1>6 DEF AwardOnce, TypeOK, PointHistory
<1>8. points'[o].earned > 0 => orders'[o].member
  BY <1>2, <1>4, <1>7 DEF OrderOK, PointsMoved
<1>9. OthersAlone(o)
  BY <1>0, <1>6
     DEF PayLastSplit, DeductStock, AwardOnce, EnqueueOrderJobs, OthersAlone, TypeOK
<1>10. returns' = returns
  BY DEF PayLastSplit
<1> QED
  BY <1>2, <1>3, <1>4, <1>5, <1>6, <1>7, <1>8, <1>9, <1>10, Completes

(* The member a status write attaches, and the status it leaves. *)
LEMMA SavedMember ==
  ASSUME Books, NEW q \in Request, Exists(q.order), NEW state
  PROVE  /\ SaveStatus(q).member = (orders[q.order].member \/ (q.attach /\ q.aborts = 0))
         /\ SaveStatus(q).status = Saved(orders[q.order].status, q.status, q.target)
         /\ SaveStatusAndCache(q, state).member = SaveStatus(q).member
<1> DEFINE o == q.order
           value == Saved(orders[o].status, q.status, q.target)
           member == orders[o].member \/ (q.attach /\ q.aborts = 0)
           half == [orders[o] EXCEPT !.status = value]
<1>1. orders[o] \in OrderRow /\ q.attach \in BOOLEAN /\ q.target \in Statuses
  BY DEF Books, TypeOK, Request
<1>2. value \in Statuses
  BY <1>1 DEF Saved, OrderRow, Exists
<1>3. member \in BOOLEAN
  BY <1>1 DEF OrderRow
<1>4. SaveStatus(q) = [half EXCEPT !.member = member]
  BY <1>1 DEF SaveStatus, OrderRow
<1> HIDE DEF value, member
<1>5. half \in OrderRow /\ half.status = value
  BY <1>1, <1>2 DEF OrderRow
<1> HIDE DEF half
<1>6. SaveStatus(q).member = member /\ SaveStatus(q).status = value
  BY <1>3, <1>4, <1>5 DEF OrderRow
<1>7. SaveStatus(q) \in OrderRow
  BY SavedStatus
<1>8. SaveStatusAndCache(q, state).member = SaveStatus(q).member
  BY <1>7 DEF SaveStatusAndCache, OrderRow
<1> QED BY <1>6, <1>8 DEF value, member

LEMMA SettleMoves ==
  ASSUME Fresh, SplitInv, Books', GoodsInv, NEW w \in Workers,
         NEW shortfall \in Shortfalls, Settle(w, shortfall)
  PROVE  \A z \in Orders : OrderStep(z)
<1> DEFINE q == requests[w]
           o == q.order
           money == [ledger[o] EXCEPT !.collected = @ + Due(o)]
           state == FinalState(q, money)
           row == SaveStatusAndCache(q, state)
<1>0. Books /\ TypeOK
  BY DEF SplitInv, Books
<1>1. q \in Request /\ o \in Orders /\ MaySettle(q) /\ Commits(q, money) /\ q # Idle
  BY <1>0, RequestTypes DEF Settle
<1>2. /\ Exists(o) /\ Live(o) /\ Due(o) \in Nat
      /\ ledger[o].refunded = 0 /\ ledger[o].approved = 0
      /\ Due(o) = orders[o].total - ledger[o].collected
  BY <1>0, <1>1, SettlementDue
<1>3. /\ OrderOK(o) /\ Informed(w)
      /\ orders[o] \in OrderRow /\ ledger[o] \in LedgerSums /\ points[o] \in PointHistory
  BY <1>0, <1>1 DEF GoodsInv, TypeOK
<1>4. /\ money \in LedgerSums /\ money.collected = ledger[o].collected + Due(o)
      /\ money.refunded = 0 /\ money.approved = 0
  <2>1. /\ money \in LedgerSums /\ money.collected = ledger[o].collected + Due(o)
        /\ money.refunded = ledger[o].refunded /\ money.approved = ledger[o].approved
    BY <1>2, <1>3, Collecting1
  <2> QED BY <1>2, <2>1
<1>5. money.collected = orders[o].total
  BY <1>2, <1>3, <1>4 DEF OrderRow, LedgerSums
<1>6. ~SoldOut(o) /\ orders[o].paymentStatus # "paid"
  <2>1. CASE Due(o) > 0
    BY <1>0, <1>1, <1>2, <1>3, <2>1
       DEF SoldOut, Books, PaidIsCollected, OrderRow, LedgerSums
  <2>2. CASE ~(Due(o) > 0)
    BY <1>1, <1>3, <2>2 DEF MaySettle, OrderOK, Reconciled, SoldOut, Live
  <2> QED BY <2>1, <2>2
<1>7. LegacyPaymentStatus[state] = "paid" /\ state \in FinancialStates \ {"INVALID"}
  <2> DEFINE final == [orders[o] EXCEPT !.status = q.target]
  <2>1. final \in OrderRow /\ final.status = "paid" /\ final.total = orders[o].total
    BY <1>0, <1>1, <1>3, <1>4, FinalStateTypes DEF MaySettle, OrderRow
  <2>2. state \in FinancialStates /\ state # "INVALID"
    BY <1>0, <1>1, <1>4, FinalStateTypes DEF Commits
  <2>3. state = LedgerState(final, money)
    BY DEF FinalState
  <2> HIDE DEF final, money, state
  <2>4. state = "PAID"
    <3>1. orders[o].total \in Nat
      BY <1>3 DEF OrderRow
    <3>2. Outstanding(final, money) = 0
      BY <1>4, <1>5, <2>1, <3>1, LiveState DEF TerminalFulfilment
    <3> QED BY <1>4, <1>5, <2>1, <2>3, <3>1, <3>2
             DEF LedgerState, DeriveFinancialState, TerminalFulfilment
  <2> QED BY <2>2, <2>4 DEF LegacyPaymentStatus
<1>8. q.paymentStatus # "paid" /\ q.status \notin TerminalFulfilment
  BY <1>1, <1>2, <1>3, <1>6 DEF Informed
<1>9. /\ row.status = SaveStatus(q).status /\ row.total = orders[o].total
      /\ row.paymentStatus = "paid" /\ row.member = SaveStatus(q).member
  <2>1. /\ row.status = SaveStatus(q).status /\ row.total = orders[o].total
        /\ row.paymentStatus = Saved(orders[o].paymentStatus, q.paymentStatus,
                                     LegacyPaymentStatus[state])
    BY <1>0, <1>1, <1>2, <1>7, SavedCache
  <2>2. row.paymentStatus = "paid"
    BY <1>7, <1>8, <2>1 DEF Saved
  <2>3. row.member = SaveStatus(q).member
    BY <1>0, <1>1, <1>2, SavedMember
  <2> QED BY <2>1, <2>2, <2>3
<1>10. SaveStatus(q).status \in {orders[o].status, "paid"} /\ q.target = "paid"
  BY <1>0, <1>1, <1>2, SavedStatus DEF MaySettle
<1>11. q.aborts = 0
  BY <1>1 DEF Fresh
<1>12. SaveStatus(q).member = (orders[o].member \/ q.attach)
  BY <1>0, <1>1, <1>2, <1>11, SavedMember
<1>13. orders'[o] = row /\ ledger'[o] = money
  BY <1>0, <1>1 DEF Settle, TypeOK
<1>14. DeductStock(o, shortfall) /\ EnqueueOrderJobs(o) /\ returns' = returns
  BY <1>6 DEF Settle
<1>15. AwardOnce(o, orders[o].member \/ q.attach) \/ UNCHANGED points
  BY DEF Settle
<1> HIDE DEF q, o, money, row, state
<1> PICK order \in Orders : order = o
  BY <1>1
<1>16. Live(order)' /\ orders'[order].paymentStatus = "paid"
  BY <1>2, <1>9, <1>10, <1>13 DEF Live, Exists, TerminalFulfilment
<1>17. ledger'[order].collected = orders'[order].total /\ ledger'[order].refunded = 0
  BY <1>4, <1>5, <1>9, <1>13
<1>18. /\ points'[order].earned \in {points[order].earned, Units}
       /\ points'[order].reversed = points[order].reversed
       /\ points'[order].earned > 0 => orders'[order].member
  <2>1. /\ \/ points'[order].earned = points[order].earned
           \/ points'[order].earned = Units /\ (orders[o].member \/ q.attach)
        /\ points'[order].reversed = points[order].reversed
    BY <1>0, <1>1, <1>3, <1>15 DEF AwardOnce, TypeOK, PointHistory
  <2> QED BY <1>3, <1>9, <1>12, <1>13, <2>1 DEF OrderOK, PointsMoved
<1>19. OthersAlone(order)
  <2>1. \A z \in Orders : z # order => orders'[z] = orders[z] /\ ledger'[z] = ledger[z]
    BY <1>0, <1>1 DEF Settle, TypeOK, o, q
  <2>2. \A z \in Orders : z # order => stock'[z] = stock[z] /\ jobs'[z] = jobs[z]
    BY <1>0, <1>14 DEF DeductStock, EnqueueOrderJobs, TypeOK
  <2>3. \A z \in Orders : z # order => points'[z] = points[z]
    BY <1>0, <1>15 DEF AwardOnce, TypeOK
  <2> QED BY <2>1, <2>2, <2>3 DEF OthersAlone
<1> QED
  BY <1>2, <1>6, <1>14, <1>16, <1>17, <1>18, <1>19, Completes DEF Live

(* A void refunds all, a cancel finds nothing to refund. *)
LEMMA EndOrderMoney ==
  ASSUME SplitInv, GoodsInv, NEW w \in Workers, EndOrder(w),
         NEW o \in Orders, requests[w].order = o
  PROVE  /\ Live(o) /\ Approved(o) = {} /\ requests[w] \in Request
         /\ orders'[o].status = requests[w].target
         /\ orders'[o].status \in TerminalFulfilment
         /\ orders'[o].total = orders[o].total
         /\ orders[o].member => orders'[o].member
         /\ ledger'[o].refunded = ledger'[o].collected
         /\ ledger'[o].collected = ledger[o].collected
         /\ orders[o].total > 0 =>
              orders'[o].paymentStatus = CacheOf(ledger'[o], orders[o].total)
         /\ orders[o].total = 0 => ledger[o].collected = 0 /\
              orders'[o].paymentStatus = Saved(orders[o].paymentStatus,
                                               requests[w].paymentStatus, "unpaid")
<1> DEFINE q == requests[w]
           money == IF q.target = "void"
                    THEN [ledger[o] EXCEPT !.refunded = @ + ledger[o].collected]
                    ELSE ledger[o]
           state == FinalState(q, money)
           row == SaveStatusAndCache(q, state)
<1>0. Books /\ TypeOK /\ q.order = o
  BY DEF SplitInv, Books
<1>1. q \in Request /\ MayEnd(q) /\ Commits(q, money) /\ q # Idle
  BY <1>0, RequestTypes DEF EndOrder
<1>2. /\ Live(o) /\ Exists(o) /\ Approved(o) = {} /\ OrderOK(o) /\ Informed(w)
      /\ ledger[o] \in LedgerSums /\ orders[o] \in OrderRow
  BY <1>0, <1>1 DEF MayEnd, Live, GoodsInv, TypeOK, Approved
<1>3. /\ ledger[o].refunded = ledger[o].approved
      /\ ledger[o].refunded <= ledger[o].collected
      /\ ledger[o].collected <= orders[o].total
      /\ StateOf(o) = LedgerState(orders[o], ledger[o])
  BY <1>0, <1>2, LiveLedger DEF OrderOK
<1>4. ledger[o].refunded = 0
  BY <1>2, <1>3 DEF OrderOK, ReturnsOK, LedgerSums
<1>5. q.target = "cancelled" => ledger[o].collected = 0
  BY <1>0, <1>1, <1>2, <1>4 DEF MayEnd, NetCollected, LedgerSums
<1>6. q.target = "void" => ledger[o].collected > 0
  BY <1>0, <1>1, <1>2, <1>4 DEF MayEnd, NetCollected, LedgerSums
<1>7. q.target \in {"cancelled", "void"} /\ q.target \in TerminalFulfilment
  BY <1>1 DEF MayEnd, TerminalFulfilment
<1>8. /\ money \in LedgerSums /\ money.collected = ledger[o].collected
      /\ money.refunded = money.collected
  <2>1. CASE q.target = "void"
    <3>1. /\ money \in LedgerSums /\ money.collected = ledger[o].collected
          /\ money.refunded = ledger[o].refunded + ledger[o].collected
      BY <1>2, <2>1 DEF LedgerSums
    <3> HIDE DEF money
    <3> QED BY <1>2, <1>4, <3>1 DEF LedgerSums
  <2>2. CASE q.target = "cancelled"
    BY <1>2, <1>4, <1>5, <2>2
  <2> QED BY <1>7, <2>1, <2>2
<1>9. /\ LegacyPaymentStatus[state] = CacheOf(money, orders[o].total)
      /\ state \in FinancialStates \ {"INVALID"}
  <2> DEFINE final == [orders[o] EXCEPT !.status = q.target]
  <2>1. final \in OrderRow /\ final.status = q.target /\ final.total = orders[o].total
    BY <1>0, <1>1, <1>2, <1>8, FinalStateTypes DEF OrderRow
  <2>2. state \in FinancialStates /\ state # "INVALID"
    BY <1>0, <1>1, <1>8, FinalStateTypes DEF Commits
  <2>3. state = LedgerState(final, money)
    BY <1>0 DEF FinalState
  <2> HIDE DEF final, money, state
  <2> QED BY <1>7, <1>8, <2>1, <2>2, <2>3, EndedState
<1>10. q.paymentStatus # "refunded" /\ q.status \notin TerminalFulfilment
  BY <1>0, <1>1, <1>2, <1>4 DEF Informed
<1>11. /\ row.status = SaveStatus(q).status /\ row.total = orders[o].total
       /\ row.paymentStatus = Saved(orders[o].paymentStatus, q.paymentStatus,
                                    LegacyPaymentStatus[state])
       /\ row.member = SaveStatus(q).member
  <2>1. /\ row.status = SaveStatus(q).status /\ row.total = orders[o].total
        /\ row.paymentStatus = Saved(orders[o].paymentStatus, q.paymentStatus,
                                     LegacyPaymentStatus[state])
    BY <1>0, <1>1, <1>2, <1>9, SavedCache
  <2>2. row.member = SaveStatus(q).member
    BY <1>0, <1>1, <1>2, SavedMember
  <2> QED BY <2>1, <2>2
<1>12. SaveStatus(q).status = q.target
  BY <1>0, <1>1, <1>2, <1>7, <1>10, SavedMember DEF Saved
<1>13. orders[o].member => SaveStatus(q).member
  BY <1>0, <1>1, <1>2, SavedMember
<1>14. orders'[o] = row /\ ledger'[o] = money
  BY <1>0 DEF EndOrder, TypeOK
<1> HIDE DEF money, row, state
<1>15. ASSUME orders[o].total > 0 PROVE row.paymentStatus = CacheOf(money, orders[o].total)
  <2>1. CASE q.target = "void"
    <3>1. CacheOf(money, orders[o].total) = "refunded"
      BY <1>2, <1>6, <1>8, <2>1 DEF CacheOf, LedgerSums
    <3> QED BY <1>9, <1>10, <1>11, <3>1 DEF Saved
  <2>2. CASE q.target = "cancelled"
    <3>1. CacheOf(money, orders[o].total) = "unpaid" /\ orders[o].paymentStatus = "unpaid"
      BY <1>2, <1>5, <1>8, <1>15, <2>2 DEF CacheOf, OrderOK, Reconciled
    <3> QED BY <1>9, <1>11, <3>1 DEF Saved
  <2> QED BY <1>7, <2>1, <2>2
<1>16. ASSUME orders[o].total = 0
       PROVE  /\ ledger[o].collected = 0
              /\ row.paymentStatus = Saved(orders[o].paymentStatus, q.paymentStatus, "unpaid")
  <2>1. ledger[o].collected = 0
    BY <1>2, <1>3, <1>16 DEF LedgerSums
  <2> QED BY <1>8, <1>9, <1>11, <2>1 DEF CacheOf
<1> QED BY <1>1, <1>2, <1>7, <1>8, <1>11, <1>12, <1>13, <1>14, <1>15, <1>16

LEMMA EndOrderMoves ==
  ASSUME SplitInv, Books', GoodsInv, NEW w \in Workers, EndOrder(w)
  PROVE  \A z \in Orders : OrderStep(z)
<1>0. Books /\ TypeOK
  BY DEF SplitInv, Books
<1> PICK o \in Orders : requests[w].order = o
  BY <1>0, RequestTypes DEF EndOrder
<1>1. /\ Live(o) /\ Approved(o) = {}
      /\ orders'[o].status \in TerminalFulfilment
      /\ orders'[o].total = orders[o].total
      /\ orders[o].member => orders'[o].member
      /\ ledger'[o].refunded = ledger'[o].collected
      /\ orders[o].total > 0 =>
           orders'[o].paymentStatus = CacheOf(ledger'[o], orders[o].total)
      /\ orders[o].total = 0 =>
           orders'[o].paymentStatus = Saved(orders[o].paymentStatus,
                                            requests[w].paymentStatus, "unpaid")
  BY EndOrderMoney
<1>2. /\ OrderOK(o) /\ Exists(o) /\ stock[o] \in StockHistory /\ points[o] \in PointHistory
      /\ jobs[o] \in JobCounts /\ orders[o].total \in Nat
      /\ ledger[o] \in LedgerSums /\ ledger[o].collected <= orders[o].total
  BY <1>0, <1>1 DEF GoodsInv, TypeOK, Live, OrderRow, Books, LedgerBounds
<1>3. ApprovedUnits(o) = 0
  BY <1>0, <1>1, ReturnSums
<1>4. IF orders'[o].total > 0
      THEN orders'[o].paymentStatus = CacheOf(ledger'[o], orders'[o].total)
      ELSE orders'[o].paymentStatus \in {"unpaid", "paid"}
  BY <1>1, <1>2 DEF Saved, OrderOK, Reconciled
<1>5. stock[o].restored = 0
  BY <1>1, <1>2, <1>3 DEF OrderOK, GoodsMoved
<1>6. /\ stock'[o].sold = stock[o].sold /\ stock'[o].deductions = stock[o].deductions
      /\ stock'[o].restored = stock[o].sold
  <2>1. CASE orders[o].paymentStatus = "paid"
    <3>1. ReverseStock(o)
      BY <2>1 DEF EndOrder, WasPaid
    <3> QED BY <1>0, <1>2, <1>5, <3>1 DEF ReverseStock, TypeOK, StockHistory
  <2>2. CASE orders[o].paymentStatus # "paid"
    <3>1. stock' = stock
      BY <2>2 DEF EndOrder, WasPaid
    <3>2. ledger[o].refunded = 0
      BY <1>1, <1>2 DEF OrderOK, ReturnsOK, LedgerSums
    <3>3. ~SoldOut(o)
      BY <1>2, <2>2, <3>2 DEF OrderOK, Reconciled, SoldOut, CacheOf, LedgerSums
    <3>4. stock[o].sold = 0
      BY <1>1, <1>2, <3>3 DEF OrderOK, GoodsMoved
    <3> QED BY <1>5, <3>1, <3>4
  <2> QED BY <2>1, <2>2
<1>7. points'[o].earned = points[o].earned /\ points'[o].reversed = points[o].earned
  <2>1. ReversePoints(o, Units)
    BY DEF EndOrder
  <2>2. /\ points[o].earned \in {0, Units} /\ points[o].earned \in Nat
        /\ points[o].earned > 0 => orders[o].member
    BY <1>2 DEF OrderOK, PointsMoved, PointHistory
  <2>3. points[o].reversed = 0
    BY <1>1, <1>2, <1>3, <2>2 DEF OrderOK, PointsMoved
  <2>4. CASE orders[o].member
    <3>1. points[o].earned - points[o].reversed = points[o].earned
      BY <2>2, <2>3
    <3>2. points' = [points EXCEPT ![o].reversed =
                       @ + IF Units < points[o].earned THEN Units ELSE points[o].earned]
      BY <2>1, <2>4, <3>1 DEF ReversePoints
    <3>3. PICK d \in {0, Units} : d = points[o].earned
      BY <2>2
    <3>4. (IF Units < d THEN Units ELSE d) = d /\ d \in Nat
      BY UnitsAssumption
    <3>5. points' = [points EXCEPT ![o].reversed = @ + d]
      BY <3>2, <3>3, <3>4
    <3>6. points'[o] = [points[o] EXCEPT !.reversed = @ + d]
      BY <1>0, <3>5 DEF TypeOK
    <3>7. points'[o].earned = points[o].earned /\ points'[o].reversed = 0 + d
      BY <1>2, <2>3, <3>6 DEF PointHistory
    <3> QED BY <3>3, <3>4, <3>7
  <2>5. CASE ~orders[o].member
    BY <2>1, <2>2, <2>3, <2>5, UnitsAssumption DEF ReversePoints
  <2> QED BY <2>4, <2>5
<1>8. /\ jobs'[o].order = jobs[o].order /\ jobs'[o].return = jobs[o].return
      /\ jobs'[o].reversal = 1 /\ jobs[o].order <= 1
  <2>1. jobs[o].reversal = 0 /\ jobs[o].order <= 1
    BY <1>1, <1>2 DEF OrderOK, JobsSent, GoodsMoved
  <2>2. jobs' = [jobs EXCEPT ![o].reversal = @ + 1]
    BY DEF EndOrder
  <2> QED BY <1>0, <1>2, <2>1, <2>2 DEF TypeOK, JobCounts
<1>9. OthersAlone(o) /\ returns' = returns
  BY <1>0 DEF EndOrder, ReverseStock, ReversePoints, OthersAlone, TypeOK
<1> QED
  BY <1>1, <1>2, <1>4, <1>6, <1>7, <1>8, <1>9, Ends

LEMMA ExpireQrOrderMoves ==
  ASSUME SplitInv, Books', GoodsInv, NEW o \in Orders, ExpireQrOrder(o)
  PROVE  \A z \in Orders : OrderStep(z)
<1>0. Books /\ TypeOK
  BY DEF SplitInv, Books
<1>1. /\ Live(o) /\ Exists(o) /\ orders[o].paymentStatus = "unpaid" /\ ledger[o].collected = 0
      /\ OrderOK(o) /\ ~SoldOut(o) /\ orders[o].status \notin TerminalFulfilment
      /\ orders[o] \in OrderRow /\ ledger[o] \in LedgerSums
  BY <1>0 DEF ExpireQrOrder, Live, GoodsInv, SoldOut, TypeOK
<1>2. /\ stock[o].deductions = 0 /\ stock[o].sold = 0 /\ stock[o].restored = 0
      /\ points[o].earned = 0 /\ points[o].reversed = 0
      /\ jobs[o].order = 0 /\ jobs[o].reversal = 0 /\ Approved(o) = {}
  BY <1>1, Untouched
<1>3. /\ orders'[o].status = "cancelled" /\ orders'[o].total = orders[o].total
      /\ orders'[o].paymentStatus = "unpaid" /\ orders'[o].member = orders[o].member
      /\ ledger' = ledger /\ stock' = stock /\ points' = points /\ jobs' = jobs
      /\ returns' = returns
  BY <1>0, <1>1 DEF ExpireQrOrder, TypeOK, OrderRow
<1>4. ledger[o].refunded = 0
  BY <1>0, <1>1 DEF Books, LedgerBounds, LedgerSums
<1>5. OthersAlone(o)
  BY <1>0 DEF ExpireQrOrder, OthersAlone, TypeOK
<1> QED
  BY <1>1, <1>2, <1>3, <1>4, <1>5, Ends DEF CacheOf, TerminalFulfilment

(* A kitchen status, or an ended order's status again: money stays. *)
LEMMA StatusRow ==
  ASSUME Books, CascadeTargets, NEW w \in Workers, SetStatus(w) \/ CascadeItemStatus(w),
         NEW o \in Orders, requests[w].order = o
  PROVE  /\ orders'[o].total = orders[o].total
         /\ orders'[o].paymentStatus = orders[o].paymentStatus
         /\ orders[o].member => orders'[o].member
         /\ Exists(o) /\ Exists(o)' /\ (Live(o)' <=> Live(o))
<1>0. TypeOK
  BY DEF Books
<1> DEFINE q == requests[w]
<1>1. /\ q \in Request /\ q.order = o /\ Exists(o) /\ orders[o] \in OrderRow
      /\ q.target \in Statuses
  BY <1>0, RequestTypes
     DEF SetStatus, CascadeItemStatus, Live, Exists, TerminalFulfilment, TypeOK, Request
<1>2. /\ orders'[o].total = orders[o].total
      /\ orders'[o].paymentStatus = orders[o].paymentStatus
      /\ orders[o].member => orders'[o].member
      /\ orders'[o].status # "absent"
      /\ Live(o) => orders'[o].status \notin TerminalFulfilment
      /\ ~Live(o) => orders'[o].status = orders[o].status
  <2>1. CASE SetStatus(w)
    <3>1. orders'[o] = SaveStatus(q)
      BY <1>0, <1>1, <2>1 DEF SetStatus, TypeOK
    <3>2. /\ SaveStatus(q).status # "absent"
          /\ SaveStatus(q).status \in {orders[o].status, q.target}
          /\ SaveStatus(q).total = orders[o].total
          /\ SaveStatus(q).paymentStatus = orders[o].paymentStatus
      BY <1>0, <1>1, SavedStatus
    <3>3. orders[o].member => SaveStatus(q).member
      BY <1>0, <1>1, SavedMember
    <3>4. \/ q.target \in Fulfilment /\ Live(o)
          \/ q.target \in TerminalFulfilment /\ orders[o].status = q.target
      BY <1>1, <2>1 DEF SetStatus
    <3> HIDE DEF q
    <3> QED BY <3>1, <3>2, <3>3, <3>4, FulfilmentAssumption DEF Live
  <2>2. CASE CascadeItemStatus(w)
    <3>1. orders'[o] = [orders[o] EXCEPT !.status = q.target] /\ Live(o)
      BY <1>0, <1>1, <2>2 DEF CascadeItemStatus, TypeOK
    <3>2. q.target \in Fulfilment
      BY <2>2 DEF CascadeItemStatus, CascadeTargets
    <3> HIDE DEF q
    <3> QED BY <1>1, <3>1, <3>2, FulfilmentAssumption DEF OrderRow, TerminalFulfilment
  <2> QED BY <2>1, <2>2
<1> QED BY <1>1, <1>2 DEF Live, Exists

LEMMA StatusMoves ==
  ASSUME SplitInv, GoodsInv, NEW w \in Workers, SetStatus(w) \/ CascadeItemStatus(w)
  PROVE  \A z \in Orders : OrderStep(z)
<1>0. Books /\ TypeOK /\ CascadeTargets
  BY DEF SplitInv, Books
<1> PICK o \in Orders : requests[w].order = o
  BY <1>0, RequestTypes DEF SetStatus, CascadeItemStatus
<1>1. /\ orders'[o].total = orders[o].total
      /\ orders'[o].paymentStatus = orders[o].paymentStatus
      /\ orders[o].member => orders'[o].member
      /\ Exists(o) /\ Exists(o)' /\ (Live(o)' <=> Live(o))
  BY <1>0, StatusRow
<1>2. /\ ledger' = ledger /\ stock' = stock /\ points' = points /\ jobs' = jobs
      /\ returns' = returns
  BY DEF SetStatus, CascadeItemStatus
<1>3. \A z \in Orders : ClaimsKept(z)
  BY <1>2, SameReturns
<1>4. OthersAlone(o)
  BY <1>0, <1>2 DEF SetStatus, CascadeItemStatus, OthersAlone, TypeOK
<1>5. OrderStep(o)
  BY <1>1, <1>2, <1>3, Unmoved DEF GoodsInv
<1> QED BY <1>3, <1>4, <1>5, OneOrder

-----------------------------------------------------------------------------
(* Returns move one row. *)

(* Two sums that differ in one member only. *)
LEMMA OneMember ==
  ASSUME NEW R, IsFiniteSet(R), NEW r \in R, NEW A \in SUBSET R, NEW B \in SUBSET R,
         A \ {r} = B \ {r}, NEW f, NEW g,
         \A x \in R : f[x] \in Nat /\ g[x] \in Nat,
         \A x \in R : x # r => g[x] = f[x]
  PROVE  SumFunctionOnSet(g, B) + (IF r \in A THEN f[r] ELSE 0)
           = SumFunctionOnSet(f, A) + (IF r \in B THEN g[r] ELSE 0)
<1> DEFINE rest == A \ {r}
<1>1. /\ IsFiniteSet(A) /\ IsFiniteSet(B) /\ IsFiniteSet(rest)
      /\ \A x \in A : f[x] \in Nat
      /\ \A x \in B : g[x] \in Nat
      /\ \A x \in rest : f[x] \in Nat /\ g[x] = f[x]
  BY FS_Subset
<1>2. SumFunctionOnSet(f, A) = SumFunctionOnSet(f, rest) + (IF r \in A THEN f[r] ELSE 0)
  <2>1. CASE r \in A
    <3>1. SumFunctionOnSet(f, A) = f[r] + SumFunctionOnSet(f, rest)
      BY <1>1, <2>1, SumRemove
    <3>2. SumFunctionOnSet(f, rest) \in Nat
      BY <1>1, SumNat
    <3> QED BY <2>1, <3>1, <3>2
  <2>2. CASE r \notin A
    <3>1. rest = A /\ SumFunctionOnSet(f, A) \in Nat
      BY <1>1, <2>2, SumNat
    <3> HIDE DEF rest
    <3> QED BY <2>2, <3>1
  <2> QED BY <2>1, <2>2
<1>3. SumFunctionOnSet(g, B) = SumFunctionOnSet(g, rest) + (IF r \in B THEN g[r] ELSE 0)
  <2>0. \A x \in rest : g[x] \in Nat
    BY <1>1
  <2>1. CASE r \in B
    <3>1. SumFunctionOnSet(g, B) = g[r] + SumFunctionOnSet(g, rest)
      BY <1>1, <2>1, SumRemove
    <3>2. SumFunctionOnSet(g, rest) \in Nat
      BY <1>1, <2>0, SumNat
    <3> QED BY <2>1, <3>1, <3>2
  <2>2. CASE r \notin B
    <3>1. rest = B /\ SumFunctionOnSet(g, B) \in Nat
      BY <1>1, <2>2, SumNat
    <3> QED BY <2>2, <3>1
  <2> QED BY <2>1, <2>2
<1>4. SumFunctionOnSet(f, rest) = SumFunctionOnSet(g, rest)
      /\ SumFunctionOnSet(f, rest) \in Nat
  BY <1>1, SumSame, SumNat
<1> HIDE DEF rest
<1>5. \A x \in R : f[x] \in Nat /\ g[x] \in Nat
  OBVIOUS
<1> QED BY <1>2, <1>3, <1>4, <1>5

(* The step touches row r of order o and no other return. *)
OneReturn(r, o) ==
  /\ \A x \in Returns : x # r => returns'[x] = returns[x]
  /\ returns'[r].order = o
  /\ returns[r].status = "absent" \/ returns[r].order = o

LEMMA OneReturnMoves ==
  ASSUME Books, Books', NEW o \in Orders, NEW r \in Returns, OneReturn(r, o)
  PROVE  /\ \A z \in Orders : z # o => ClaimsKept(z)
         /\ Approved(o)' \ {r} = Approved(o) \ {r}
         /\ Claims(o)' \ {r} = Claims(o) \ {r}
         /\ ApprovedUnits(o)' + (IF r \in Approved(o) THEN returns[r].units ELSE 0)
              = ApprovedUnits(o) + (IF r \in Approved(o)' THEN returns'[r].units ELSE 0)
         /\ ClaimedUnits(o)' + (IF r \in Claims(o) THEN returns[r].units ELSE 0)
              = ClaimedUnits(o) + (IF r \in Claims(o)' THEN returns'[r].units ELSE 0)
         /\ PendingRefunds(o)' + (IF returns[r].status = "pending" THEN returns[r].amount ELSE 0)
              = PendingRefunds(o) + (IF returns'[r].status = "pending" THEN returns'[r].amount ELSE 0)
<1> DEFINE units == [x \in Returns |-> returns[x].units]
           units1 == [x \in Returns |-> returns'[x].units]
           amounts == [x \in Returns |-> returns[x].amount]
           amounts1 == [x \in Returns |-> returns'[x].amount]
           Pending(z) == ReturnsOf(z, {"pending"})
<1>1. /\ \A x \in Returns : units[x] \in Nat /\ units1[x] \in Nat
      /\ \A x \in Returns : amounts[x] \in Nat /\ amounts1[x] \in Nat
  BY DEF Books, TypeOK, ReturnRow
<1>2. /\ \A x \in Returns : x # r => units1[x] = units[x]
      /\ \A x \in Returns : x # r => amounts1[x] = amounts[x]
  BY DEF OneReturn
<1>3. ASSUME NEW z \in Orders
      PROVE  /\ ApprovedUnits(z) = SumFunctionOnSet(units, Approved(z))
             /\ ClaimedUnits(z) = SumFunctionOnSet(units, Claims(z))
             /\ PendingRefunds(z) = SumFunctionOnSet(amounts, Pending(z))
             /\ ApprovedUnits(z)' = SumFunctionOnSet(units1, Approved(z)')
             /\ ClaimedUnits(z)' = SumFunctionOnSet(units1, Claims(z)')
             /\ PendingRefunds(z)' = SumFunctionOnSet(amounts1, Pending(z)')
             /\ Approved(z) \in SUBSET Returns /\ Approved(z)' \in SUBSET Returns
             /\ Claims(z) \in SUBSET Returns /\ Claims(z)' \in SUBSET Returns
             /\ Pending(z) \in SUBSET Returns /\ Pending(z)' \in SUBSET Returns
  BY DEF ApprovedUnits, ClaimedUnits, PendingRefunds, ReturnedUnits, Approved, Claims, ReturnsOf
<1>4. ASSUME NEW z \in Orders
      PROVE  /\ Approved(z)' \ {r} = Approved(z) \ {r}
             /\ Claims(z)' \ {r} = Claims(z) \ {r}
             /\ Pending(z)' \ {r} = Pending(z) \ {r}
             /\ z # o => /\ r \notin Approved(z) /\ r \notin Approved(z)'
                         /\ r \notin Claims(z) /\ r \notin Claims(z)'
                         /\ r \notin Pending(z) /\ r \notin Pending(z)'
             /\ z = o => /\ r \in Pending(z) <=> returns[r].status = "pending"
                         /\ r \in Pending(z)' <=> returns'[r].status = "pending"
  BY DEF OneReturn, Approved, Claims, ReturnsOf
<1>5. /\ units[r] = returns[r].units /\ units1[r] = returns'[r].units
      /\ amounts[r] = returns[r].amount /\ amounts1[r] = returns'[r].amount
  OBVIOUS
<1> HIDE DEF units, units1, amounts, amounts1, Pending
<1>6. ASSUME NEW z \in Orders
      PROVE  /\ ApprovedUnits(z)' + (IF r \in Approved(z) THEN units[r] ELSE 0)
                  = ApprovedUnits(z) + (IF r \in Approved(z)' THEN units1[r] ELSE 0)
             /\ ClaimedUnits(z)' + (IF r \in Claims(z) THEN units[r] ELSE 0)
                  = ClaimedUnits(z) + (IF r \in Claims(z)' THEN units1[r] ELSE 0)
             /\ PendingRefunds(z)' + (IF r \in Pending(z) THEN amounts[r] ELSE 0)
                  = PendingRefunds(z) + (IF r \in Pending(z)' THEN amounts1[r] ELSE 0)
  <2>1. \A A, B \in SUBSET Returns : A \ {r} = B \ {r} =>
          /\ SumFunctionOnSet(units1, B) + (IF r \in A THEN units[r] ELSE 0)
               = SumFunctionOnSet(units, A) + (IF r \in B THEN units1[r] ELSE 0)
          /\ SumFunctionOnSet(amounts1, B) + (IF r \in A THEN amounts[r] ELSE 0)
               = SumFunctionOnSet(amounts, A) + (IF r \in B THEN amounts1[r] ELSE 0)
    <3> SUFFICES ASSUME NEW A \in SUBSET Returns, NEW B \in SUBSET Returns,
                        A \ {r} = B \ {r}
                 PROVE  /\ SumFunctionOnSet(units1, B) + (IF r \in A THEN units[r] ELSE 0)
                             = SumFunctionOnSet(units, A) + (IF r \in B THEN units1[r] ELSE 0)
                        /\ SumFunctionOnSet(amounts1, B) + (IF r \in A THEN amounts[r] ELSE 0)
                             = SumFunctionOnSet(amounts, A) + (IF r \in B THEN amounts1[r] ELSE 0)
      OBVIOUS
    <3>1. SumFunctionOnSet(units1, B) + (IF r \in A THEN units[r] ELSE 0)
            = SumFunctionOnSet(units, A) + (IF r \in B THEN units1[r] ELSE 0)
      BY <1>1, <1>2, RowsAssumption, OneMember
    <3>2. SumFunctionOnSet(amounts1, B) + (IF r \in A THEN amounts[r] ELSE 0)
            = SumFunctionOnSet(amounts, A) + (IF r \in B THEN amounts1[r] ELSE 0)
      BY <1>1, <1>2, RowsAssumption, OneMember
    <3> QED BY <3>1, <3>2
  <2> QED BY <1>3, <1>4, <2>1
<1>7. ASSUME NEW z \in Orders, z # o PROVE ClaimsKept(z)
  <2>1. Approved(z)' = Approved(z) /\ Claims(z)' = Claims(z)
    BY <1>4, <1>7
  <2>2. /\ ApprovedUnits(z) \in Nat /\ ApprovedUnits(z)' \in Nat
        /\ ClaimedUnits(z) \in Nat /\ ClaimedUnits(z)' \in Nat
        /\ PendingRefunds(z) \in Nat /\ PendingRefunds(z)' \in Nat
    <3>1. \A A \in SUBSET Returns : /\ SumFunctionOnSet(units, A) \in Nat
                                    /\ SumFunctionOnSet(units1, A) \in Nat
                                    /\ SumFunctionOnSet(amounts, A) \in Nat
                                    /\ SumFunctionOnSet(amounts1, A) \in Nat
      <4> TAKE A \in SUBSET Returns
      <4>1. /\ IsFiniteSet(A)
            /\ \A x \in A : units[x] \in Nat /\ units1[x] \in Nat
            /\ \A x \in A : amounts[x] \in Nat /\ amounts1[x] \in Nat
        BY <1>1, RowsAssumption, FS_Subset
      <4> QED BY <4>1, SumNat
    <3> QED BY <1>3, <3>1
  <2> QED BY <1>4, <1>6, <1>7, <2>1, <2>2 DEF ClaimsKept
<1> QED BY <1>4, <1>5, <1>6, <1>7

(* A new return claims units and a refund the order still has. *)
LEMMA ReturnSalesOrderMoves ==
  ASSUME SplitInv, Books', GoodsInv, NEW r \in Returns, NEW o \in Orders,
         NEW repeats \in LineRepeats, NEW qty \in 1..Units,
         ReturnSalesOrder(r, o, repeats, qty)
  PROVE  \A z \in Orders : OrderStep(z)
<1> DEFINE units == repeats * qty
           amount == RefundShare(orders[o].total, units)
<1>0. Books /\ TypeOK /\ OrderOK(o)
  BY DEF SplitInv, Books, GoodsInv
<1>1. /\ returns'[r].order = o /\ returns'[r].status = "pending"
      /\ returns'[r].units = units /\ returns'[r].amount = amount
      /\ \A x \in Returns : x # r => returns'[x] = returns[x]
      /\ returns[r].status = "absent"
  BY <1>0 DEF ReturnSalesOrder, TypeOK
<1>2. OneReturn(r, o)
  BY <1>1 DEF OneReturn
<1>3. units \in Nat /\ amount \in Nat
  <2>1. units \in Nat
    BY LineRepeatsAssumption, UnitsAssumption
  <2> QED BY <1>0, <2>1, ShareIsNatural DEF TypeOK, OrderRow
<1>4. /\ Exists(o) /\ orders[o].paymentStatus # "unpaid" /\ Due(o) <= 0
      /\ ClaimedUnits(o) + qty <= Units /\ amount <= Returnable(o)
  BY DEF ReturnSalesOrder
<1> HIDE DEF amount
<1>5. /\ r \notin Approved(o) /\ r \notin Approved(o)'
      /\ r \notin Claims(o) /\ r \in Claims(o)'
  BY <1>1 DEF Approved, Claims, ReturnsOf
<1>6. /\ ApprovedUnits(o) \in Nat /\ ClaimedUnits(o) \in Nat /\ PendingRefunds(o) \in Nat
  BY <1>0, ReturnSums
<1>7. /\ \A z \in Orders : z # o => ClaimsKept(z)
      /\ Approved(o)' \ {r} = Approved(o) \ {r}
      /\ ApprovedUnits(o)' + 0 = ApprovedUnits(o) + 0
      /\ ClaimedUnits(o)' + 0 = ClaimedUnits(o) + units
      /\ PendingRefunds(o)' + 0 = PendingRefunds(o) + amount
  <2> HIDE DEF units
  <2> QED BY <1>0, <1>1, <1>2, <1>5, OneReturnMoves
<1>8. /\ ApprovedUnits(o)' = ApprovedUnits(o)
      /\ ClaimedUnits(o)' = ClaimedUnits(o) + units
      /\ PendingRefunds(o)' = PendingRefunds(o) + amount
  <2>1. /\ ApprovedUnits(o)' \in Nat /\ ClaimedUnits(o)' \in Nat
        /\ PendingRefunds(o)' \in Nat
    BY NextReturnSums
  <2> HIDE DEF units
  <2> QED BY <1>3, <1>6, <1>7, <2>1
<1>9. Approved(o)' = Approved(o)
  BY <1>5, <1>7
<1>10. UNCHANGED <<orders, ledger, stock, points, jobs>>
  BY DEF ReturnSalesOrder
<1>11. (SoldOut(o)' <=> SoldOut(o)) /\ (Live(o)' <=> Live(o)) /\ (Exists(o)' <=> Exists(o))
  BY <1>10 DEF SoldOut, Live, Exists
<1>12. ASSUME Live(o) PROVE SoldOut(o) /\ NetCollected(ledger[o]) \in Int
  <2>1. /\ Due(o) = orders[o].total - ledger[o].collected
        /\ ledger[o].collected <= orders[o].total
        /\ orders[o] \in OrderRow /\ ledger[o] \in LedgerSums
    BY <1>0, <1>12, LiveLedger DEF OrderOK
  <2> QED BY <1>4, <2>1 DEF SoldOut, OrderRow, LedgerSums, NetCollected
<1>13. Reconciled(o)'
  BY <1>0, <1>10, <1>11 DEF OrderOK, Reconciled
<1>14. GoodsMoved(o)'
  BY <1>0, <1>8, <1>10, <1>11 DEF OrderOK, GoodsMoved
<1>15. PointsMoved(o)'
  BY <1>0, <1>8, <1>10, <1>11 DEF OrderOK, PointsMoved
<1>16. JobsSent(o)'
  BY <1>0, <1>9, <1>10, <1>11 DEF OrderOK, JobsSent
<1>17. ReturnsOK(o)'
  <2>1. Live(o) => PendingRefunds(o)' <= NetCollected(ledger[o])
    BY <1>3, <1>4, <1>6, <1>8, <1>12 DEF Returnable
  <2>2. LineRepeats = {1} => ClaimedUnits(o)' <= Units
    BY <1>4, <1>8, UnitsAssumption
  <2> QED BY <1>0, <1>9, <1>10, <1>11, <1>12, <2>1, <2>2
         DEF OrderOK, ReturnsOK, NetCollected
<1>18. OrderStep(o)
  BY <1>11, <1>13, <1>14, <1>15, <1>16, <1>17 DEF OrderStep, OrderOK
<1>19. OthersAlone(o)
  BY <1>10 DEF OthersAlone
<1> QED BY <1>7, <1>18, <1>19, OneOrder

LEMMA RejectReturnMoves ==
  ASSUME SplitInv, Books', GoodsInv, NEW r \in Returns, RejectReturn(r)
  PROVE  \A z \in Orders : OrderStep(z)
<1> PICK o \in Orders : returns[r].order = o
  BY DEF RejectReturn, SplitInv, Books, RowsHaveOrder
<1>0. Books /\ TypeOK /\ OrderOK(o) /\ returns[r] \in ReturnRow
  BY DEF SplitInv, Books, GoodsInv, TypeOK
<1>1. /\ returns'[r].order = o /\ returns'[r].status = "rejected"
      /\ \A x \in Returns : x # r => returns'[x] = returns[x]
      /\ returns[r].status = "pending"
  BY <1>0 DEF RejectReturn, TypeOK, ReturnRow
<1>2. OneReturn(r, o)
  BY <1>1 DEF OneReturn
<1>3. /\ r \notin Approved(o) /\ r \notin Approved(o)'
      /\ r \in Claims(o) /\ r \notin Claims(o)'
  BY <1>1 DEF Approved, Claims, ReturnsOf
<1>4. /\ \A z \in Orders : z # o => ClaimsKept(z)
      /\ Approved(o)' \ {r} = Approved(o) \ {r}
      /\ ApprovedUnits(o)' + 0 = ApprovedUnits(o) + 0
      /\ ClaimedUnits(o)' + returns[r].units = ClaimedUnits(o) + 0
      /\ PendingRefunds(o)' + returns[r].amount = PendingRefunds(o) + 0
  BY <1>0, <1>1, <1>2, <1>3, OneReturnMoves
<1>5. /\ ApprovedUnits(o) \in Nat /\ ClaimedUnits(o) \in Nat /\ PendingRefunds(o) \in Nat
      /\ ApprovedUnits(o)' \in Nat /\ ClaimedUnits(o)' \in Nat /\ PendingRefunds(o)' \in Nat
      /\ returns[r].units \in Nat /\ returns[r].amount \in Nat
  BY <1>0, ReturnSums, NextReturnSums DEF ReturnRow
<1>6. /\ ApprovedUnits(o)' = ApprovedUnits(o)
      /\ ClaimedUnits(o)' <= ClaimedUnits(o)
      /\ PendingRefunds(o)' <= PendingRefunds(o)
  BY <1>4, <1>5
<1>7. Approved(o)' = Approved(o)
  BY <1>3, <1>4
<1>8. UNCHANGED <<orders, ledger, stock, points, jobs>>
  BY DEF RejectReturn
<1>9. (SoldOut(o)' <=> SoldOut(o)) /\ (Live(o)' <=> Live(o)) /\ (Exists(o)' <=> Exists(o))
  BY <1>8 DEF SoldOut, Live, Exists
<1>10. Reconciled(o)' /\ GoodsMoved(o)' /\ PointsMoved(o)' /\ JobsSent(o)'
  <2>1. Reconciled(o)'
    BY <1>0, <1>8, <1>9 DEF OrderOK, Reconciled
  <2>2. GoodsMoved(o)'
    BY <1>0, <1>6, <1>8, <1>9 DEF OrderOK, GoodsMoved
  <2>3. PointsMoved(o)'
    BY <1>0, <1>6, <1>8, <1>9 DEF OrderOK, PointsMoved
  <2>4. JobsSent(o)'
    BY <1>0, <1>7, <1>8, <1>9 DEF OrderOK, JobsSent
  <2> QED BY <2>1, <2>2, <2>3, <2>4
<1>11. ReturnsOK(o)'
  <2>1. Claims(o) # {}
    BY <1>3
  <2>2. NetCollected(ledger[o]) \in Int
    BY <1>0 DEF NetCollected, TypeOK, LedgerSums
  <2>3. Live(o) => PendingRefunds(o)' <= NetCollected(ledger[o])
    BY <1>0, <1>5, <1>6, <2>2 DEF OrderOK, ReturnsOK
  <2>4. LineRepeats = {1} => ClaimedUnits(o)' <= Units
    BY <1>0, <1>5, <1>6, UnitsAssumption DEF OrderOK, ReturnsOK
  <2> QED BY <1>0, <1>7, <1>8, <1>9, <2>1, <2>3, <2>4
         DEF OrderOK, ReturnsOK, NetCollected
<1>12. OrderStep(o)
  BY <1>9, <1>10, <1>11 DEF OrderStep, OrderOK
<1>13. OthersAlone(o)
  BY <1>8 DEF OthersAlone
<1> QED BY <1>4, <1>12, <1>13, OneOrder

(* Points come back with the units, as long as there are any. *)
LEMMA PointsTakenBack ==
  ASSUME NEW e \in Nat, NEW a \in Nat, NEW u \in Nat, NEW before,
         before = IF e < a THEN e ELSE a
  PROVE  before + (IF u < e - before THEN u ELSE e - before)
           = IF e < a + u THEN e ELSE a + u
OBVIOUS

(* An approved return refunds what waited, and takes the units back. *)
LEMMA ApproveReturnMoves ==
  ASSUME SplitInv, Books', GoodsInv, NEW r \in Returns, ApproveReturn(r)
  PROVE  \A z \in Orders : OrderStep(z)
<1> PICK o \in Orders : returns[r].order = o
  BY DEF ApproveReturn, SplitInv, Books, RowsHaveOrder
<1> DEFINE units == returns[r].units
           amount == returns[r].amount
           money == [ledger[o] EXCEPT !.refunded = @ + amount, !.approved = @ + amount]
           state == FinancialState(orders[o], money)
           row == IF state = "INVALID" THEN orders[o]
                  ELSE [orders[o] EXCEPT !.paymentStatus = LegacyPaymentStatus[state]]
<1>0. Books /\ TypeOK /\ OrderOK(o) /\ returns[r] \in ReturnRow
  BY DEF SplitInv, Books, GoodsInv, TypeOK
<1>1. /\ returns'[r].order = o /\ returns'[r].status = "approved" /\ returns'[r].units = units
      /\ \A x \in Returns : x # r => returns'[x] = returns[x]
      /\ returns[r].status = "pending"
  BY <1>0 DEF ApproveReturn, TypeOK, ReturnRow
<1>2. OneReturn(r, o)
  BY <1>1 DEF OneReturn
<1>3. /\ r \notin Approved(o) /\ r \in Approved(o)'
      /\ r \in Claims(o) /\ r \in Claims(o)'
  BY <1>1 DEF Approved, Claims, ReturnsOf
<1>4. /\ \A z \in Orders : z # o => ClaimsKept(z)
      /\ Approved(o)' = Approved(o) \cup {r} /\ Claims(o)' = Claims(o)
      /\ ApprovedUnits(o)' + 0 = ApprovedUnits(o) + units
      /\ ClaimedUnits(o)' + units = ClaimedUnits(o) + units
      /\ PendingRefunds(o)' + amount = PendingRefunds(o) + 0
  <2>1. /\ \A z \in Orders : z # o => ClaimsKept(z)
        /\ Approved(o)' \ {r} = Approved(o) \ {r} /\ Claims(o)' \ {r} = Claims(o) \ {r}
        /\ ApprovedUnits(o)' + 0 = ApprovedUnits(o) + returns'[r].units
        /\ ClaimedUnits(o)' + returns[r].units = ClaimedUnits(o) + returns'[r].units
        /\ PendingRefunds(o)' + returns[r].amount = PendingRefunds(o) + 0
    BY <1>0, <1>1, <1>2, <1>3, OneReturnMoves
  <2> QED BY <1>1, <1>3, <2>1
<1>5. /\ ApprovedUnits(o) \in Nat /\ ClaimedUnits(o) \in Nat /\ PendingRefunds(o) \in Nat
      /\ ApprovedUnits(o)' \in Nat /\ ClaimedUnits(o)' \in Nat /\ PendingRefunds(o)' \in Nat
      /\ units \in Nat /\ amount \in Nat
  BY <1>0, ReturnSums, NextReturnSums DEF ReturnRow
<1>6. /\ ApprovedUnits(o)' = ApprovedUnits(o) + units
      /\ ClaimedUnits(o)' = ClaimedUnits(o)
      /\ PendingRefunds(o)' = PendingRefunds(o) - amount
  BY <1>4, <1>5
<1>7. Cardinality(Approved(o)') = Cardinality(Approved(o)) + 1
  <2>1. IsFiniteSet(Approved(o))
    BY <1>0, ReturnSums
  <2>2. Approved(o)' = Approved(o) \cup {r}
    BY <1>4
  <2> QED BY <1>3, <2>1, <2>2, FS_AddElement
<1>8. Exists(o) /\ Live(o) /\ SoldOut(o) /\ amount <= NetCollected(ledger[o])
  BY <1>0, <1>1, <1>3
     DEF ApproveReturn, Books, RowsHaveOrder, Live, OrderOK, ReturnsOK
<1>9. /\ orders[o] \in OrderRow /\ ledger[o] \in LedgerSums
      /\ orders[o].status \notin TerminalFulfilment
      /\ ledger[o].refunded = ledger[o].approved
      /\ ledger[o].collected = orders[o].total
  BY <1>0, <1>8, LiveLedger DEF OrderOK, SoldOut
<1> HIDE DEF units, amount
<1>10. /\ money \in LedgerSums /\ money.collected = ledger[o].collected
       /\ money.refunded = ledger[o].refunded + amount
       /\ money.approved = ledger[o].approved + amount
  BY <1>5, <1>9, Refunding
<1> HIDE DEF money
<1>11. money.refunded = money.approved /\ money.refunded <= money.collected
  BY <1>5, <1>8, <1>9, <1>10 DEF NetCollected, LedgerSums
<1>12. /\ state = LedgerState(orders[o], money) /\ state # "INVALID"
       /\ orders[o].total = 0 => state = "PAID"
       /\ orders[o].total > 0 => LegacyPaymentStatus[state] = CacheOf(money, orders[o].total)
  <2>1. /\ LedgerState(orders[o], money) # "INVALID"
        /\ orders[o].total = 0 => LedgerState(orders[o], money) = "PAID"
        /\ orders[o].total > 0 => LegacyPaymentStatus[LedgerState(orders[o], money)]
                                    = CacheOf(money, orders[o].total)
        /\ LedgerState(orders[o], money) \in OpenStates <=> money.collected < orders[o].total
    BY <1>9, <1>10, <1>11, LiveState DEF OrderRow
  <2>2. LedgerState(orders[o], money) \notin OpenStates
    BY <1>9, <1>10, <2>1 DEF OrderRow
  <2>3. state = LedgerState(orders[o], money)
    BY <2>2 DEF FinancialState
  <2> QED BY <2>1, <2>3
<1>13. /\ row.status = orders[o].status /\ row.total = orders[o].total
       /\ row.member = orders[o].member
       /\ row.paymentStatus = LegacyPaymentStatus[state]
  BY <1>9, <1>12 DEF OrderRow
<1>14. orders'[o] = row /\ ledger'[o] = money
  BY <1>0, <1>12 DEF ApproveReturn, TypeOK, money, amount
<1> HIDE DEF state, row
<1>15. Exists(o)' /\ Live(o)'
  BY <1>8, <1>13, <1>14 DEF Exists, Live
<1>16. /\ orders'[o].total > 0 =>
            orders'[o].paymentStatus = CacheOf(ledger'[o], orders'[o].total)
       /\ orders'[o].total = 0 => orders'[o].paymentStatus = "paid"
       /\ orders'[o].total \in Nat
  BY <1>9, <1>12, <1>13, <1>14 DEF LegacyPaymentStatus, OrderRow
<1>17. SoldOut(o)'
  BY <1>9, <1>10, <1>13, <1>14, <1>16 DEF SoldOut, CacheOf
<1>18. Reconciled(o)'
  BY <1>10, <1>11, <1>14, <1>15, <1>16, <1>17 DEF Reconciled, SoldOut
<1>19. /\ stock'[o].sold = stock[o].sold /\ stock'[o].deductions = stock[o].deductions
       /\ stock'[o].restored = IF stock[o].sold > 0 THEN stock[o].restored + units
                               ELSE stock[o].restored
  BY <1>0 DEF ApproveReturn, TypeOK, StockHistory, units
<1>20. GoodsMoved(o)'
  BY <1>0, <1>6, <1>8, <1>15, <1>17, <1>19 DEF OrderOK, GoodsMoved
<1>21. /\ points'[o].earned = points[o].earned
       /\ points'[o].reversed = IF points[o].earned < ApprovedUnits(o)' THEN points[o].earned
                                ELSE ApprovedUnits(o)'
  <2> DEFINE e == points[o].earned
             rev == points[o].reversed
  <2>1. /\ points[o] \in PointHistory /\ points[o].earned \in Nat
        /\ points[o].earned > 0 => orders[o].member
        /\ rev = IF e < ApprovedUnits(o) THEN e ELSE ApprovedUnits(o)
    BY <1>0, <1>8 DEF TypeOK, OrderOK, PointsMoved, PointHistory
  <2>2. rev + (IF units < e - rev THEN units ELSE e - rev)
          = IF e < ApprovedUnits(o)' THEN e ELSE ApprovedUnits(o)'
    <3>1. PICK a \in Nat : a = ApprovedUnits(o)
      BY <1>5
    <3> HIDE DEF e, rev
    <3>2. rev + (IF units < e - rev THEN units ELSE e - rev) = IF e < a + units THEN e ELSE a + units
      <4>1. e \in Nat
        BY <2>1 DEF e
      <4>2. rev = IF e < a THEN e ELSE a
        BY <2>1, <3>1 DEF e, rev
      <4> QED BY <1>5, <4>1, <4>2, PointsTakenBack
    <3> QED BY <1>6, <3>1, <3>2
  <2>3. ReversePoints(o, units)
    BY DEF ApproveReturn, units
  <2>4. CASE orders[o].member
    <3>1. PICK d : d = IF units < e - rev THEN units ELSE e - rev
      OBVIOUS
    <3>2. points' = [points EXCEPT ![o].reversed = @ + d]
      BY <2>3, <2>4, <3>1 DEF ReversePoints
    <3>3. points'[o] = [points[o] EXCEPT !.reversed = @ + d]
      BY <1>0, <3>2 DEF TypeOK
    <3>4. points'[o].earned = e /\ points'[o].reversed = rev + d
      BY <2>1, <3>3 DEF PointHistory
    <3> QED BY <2>2, <3>1, <3>4
  <2>5. CASE ~orders[o].member
    <3>1. points' = points
      BY <2>3, <2>5 DEF ReversePoints
    <3>2. e = 0 /\ rev = 0
      BY <1>5, <2>1, <2>5
    <3> QED BY <1>5, <3>1, <3>2
  <2> QED BY <2>4, <2>5
<1>22. PointsMoved(o)'
  BY <1>0, <1>13, <1>14, <1>15, <1>21 DEF OrderOK, PointsMoved
<1>23. /\ jobs'[o].order = jobs[o].order /\ jobs'[o].reversal = jobs[o].reversal
       /\ jobs'[o].return = jobs[o].return + 1
  BY <1>0 DEF ApproveReturn, TypeOK, JobCounts
<1>24. JobsSent(o)'
  BY <1>0, <1>7, <1>8, <1>15, <1>19, <1>23 DEF OrderOK, JobsSent
<1>25. ReturnsOK(o)'
  <2>1. Approved(o)' # {}
    BY <1>3
  <2>2. PendingRefunds(o)' <= NetCollected(ledger'[o])
    <3>1. PendingRefunds(o) <= ledger[o].collected - ledger[o].refunded
      BY <1>0, <1>8 DEF OrderOK, ReturnsOK, NetCollected
    <3> QED BY <1>5, <1>6, <1>9, <1>10, <1>14, <3>1 DEF NetCollected, LedgerSums
  <2>3. LineRepeats = {1} => ClaimedUnits(o)' <= Units
    BY <1>0, <1>6 DEF OrderOK, ReturnsOK
  <2> QED BY <1>17, <2>1, <2>2, <2>3 DEF ReturnsOK
<1>26. OrderStep(o)
  BY <1>17, <1>18, <1>20, <1>22, <1>24, <1>25 DEF OrderStep, OrderOK
<1>27. OthersAlone(o)
  <2>1. \A z \in Orders : z # o => orders'[z] = orders[z] /\ ledger'[z] = ledger[z]
    BY <1>0 DEF ApproveReturn, TypeOK
  <2>2. \A z \in Orders : z # o => stock'[z] = stock[z] /\ jobs'[z] = jobs[z]
    BY <1>0 DEF ApproveReturn, TypeOK
  <2>3. \A z \in Orders : z # o => points'[z] = points[z]
    BY <1>0 DEF ApproveReturn, ReversePoints, TypeOK
  <2> QED BY <2>1, <2>2, <2>3 DEF OthersAlone
<1> QED BY <1>4, <1>26, <1>27, OneOrder

-----------------------------------------------------------------------------
(* The invariant. *)

LEMMA GoodsAlone ==
  ASSUME GoodsInv, UNCHANGED <<orders, ledger, returns, stock, points, jobs>>
  PROVE  \A z \in Orders : OrderStep(z)
<1> SUFFICES ASSUME NEW z \in Orders PROVE OrderStep(z)
  OBVIOUS
<1>1. (Live(z)' <=> Live(z)) /\ (Exists(z)' <=> Exists(z)) /\ ClaimsKept(z)
  BY SameReturns DEF Live, Exists
<1> QED BY <1>1, Unmoved DEF GoodsInv

LEMMA NextMoves ==
  ASSUME Fresh, SplitInv, Books', GoodsInv, Next
  PROVE  \A z \in Orders : OrderStep(z)
<1>1. ASSUME Create PROVE \A z \in Orders : OrderStep(z)
  BY <1>1, CreateOrderMoves, CreateCustomerOrderMoves DEF Create
<1>2. ASSUME NEW o \in Orders, ExpireQrOrder(o) PROVE \A z \in Orders : OrderStep(z)
  BY <1>2, ExpireQrOrderMoves
<1>3. ASSUME SplitBill PROVE \A z \in Orders : OrderStep(z)
  BY <1>3, PaySplitMoves, PayLastSplitMoves, GoodsAlone
     DEF SplitBill, CreateSplits, CancelSplit, MergeSplits
<1>4. ASSUME SalesReturn PROVE \A z \in Orders : OrderStep(z)
  BY <1>4, ReturnSalesOrderMoves, ApproveReturnMoves, RejectReturnMoves DEF SalesReturn
<1>5. ASSUME UpdateStatus PROVE \A z \in Orders : OrderStep(z)
  BY <1>5, SettleMoves, EndOrderMoves, StatusMoves, GoodsAlone
     DEF UpdateStatus, LoadOrder, AbortByDeadlock, Refuse
<1> QED BY <1>1, <1>2, <1>3, <1>4, <1>5 DEF Next

(* What becomes of one worker's request in a step. *)
LEMMA RequestSteps ==
  ASSUME TypeOK, Next, NEW w \in Workers
  PROVE  \/ requests'[w] = requests[w] \/ requests'[w] = Idle
         \/ \E cacheSaved \in BOOLEAN : AbortByDeadlock(w, cacheSaved)
         \/ \E kind \in {"update", "cascade"}, o \in Orders, target \in Statuses,
               attach \in BOOLEAN : LoadOrder(w, kind, o, target, attach)
<1>1. Create \/ (\E z \in Orders : ExpireQrOrder(z)) => requests' = requests
  BY DEF Create, CreateOrder, CreateCustomerOrder, ExpireQrOrder
<1>2. SplitBill => requests' = requests
  BY DEF SplitBill, CreateSplits, PaySplit, PayLastSplit, CancelSplit, MergeSplits
<1>3. SalesReturn => requests' = requests
  BY DEF SalesReturn, ReturnSalesOrder, ApproveReturn, RejectReturn
<1>4. ASSUME NEW v \in Workers,
             \/ \E shortfall \in Shortfalls : Settle(v, shortfall)
             \/ EndOrder(v) \/ SetStatus(v) \/ CascadeItemStatus(v) \/ Refuse(v)
      PROVE  requests'[w] = requests[w] \/ requests'[w] = Idle
  BY <1>4 DEF Settle, EndOrder, SetStatus, CascadeItemStatus, Refuse, TypeOK
<1>5. ASSUME NEW v \in Workers, NEW kind, NEW o \in Orders, NEW target \in Statuses,
             NEW attach \in BOOLEAN, LoadOrder(v, kind, o, target, attach), v # w
      PROVE  requests'[w] = requests[w]
  BY <1>5 DEF LoadOrder, TypeOK
<1>6. ASSUME NEW v \in Workers, NEW cacheSaved \in BOOLEAN, AbortByDeadlock(v, cacheSaved),
             v # w
      PROVE  requests'[w] = requests[w]
  BY <1>6 DEF AbortByDeadlock, TypeOK
<1>7. Fulfilment \ {"confirmed"} \in SUBSET Statuses
  BY DEF Statuses
<1>8. ASSUME UpdateStatus
      PROVE  \/ requests'[w] = requests[w] \/ requests'[w] = Idle
             \/ \E cacheSaved \in BOOLEAN : AbortByDeadlock(w, cacheSaved)
             \/ \E kind \in {"update", "cascade"}, o \in Orders, target \in Statuses,
                   attach \in BOOLEAN : LoadOrder(w, kind, o, target, attach)
  <2>1. PICK v \in Workers :
          \/ \E kind \in {"update", "cascade"}, o \in Orders, target \in Statuses,
                attach \in BOOLEAN : LoadOrder(v, kind, o, target, attach)
          \/ \E shortfall \in Shortfalls : Settle(v, shortfall)
          \/ EndOrder(v) \/ SetStatus(v) \/ CascadeItemStatus(v) \/ Refuse(v)
          \/ \E cacheSaved \in BOOLEAN : AbortByDeadlock(v, cacheSaved)
    BY <1>7, <1>8 DEF UpdateStatus
  <2>2. CASE v = w
    BY <1>4, <2>1, <2>2
  <2>3. CASE v # w
    BY <1>4, <1>5, <1>6, <2>1, <2>3
  <2> QED BY <2>2, <2>3
<1> QED BY <1>1, <1>2, <1>3, <1>8 DEF Next

LEMMA NextInformed ==
  ASSUME NoRetry, SplitInv, Books', GoodsInv, Next, \A z \in Orders : OrderStep(z)
  PROVE  \A w \in Workers : Informed(w)'
<1> SUFFICES ASSUME NEW w \in Workers, requests'[w] # Idle PROVE Informed(w)'
  BY DEF Informed
<1>0. Books /\ TypeOK
  BY DEF SplitInv, Books
<1>1. CASE requests'[w] = requests[w]
  <2>1. PICK q \in Request : q = requests[w]
    BY <1>0, <1>1, RequestTypes
  <2>2. PICK o \in Orders : q.order = o
    BY DEF Request
  <2>3. /\ Exists(o)
        /\ q.status \in TerminalFulfilment => ~Live(o)
        /\ q.paymentStatus = "paid" => ~Live(o) \/ SoldOut(o)
        /\ q.paymentStatus = "refunded" => ledger[o].refunded > 0
    BY <1>1, <2>1, <2>2 DEF GoodsInv, Informed
  <2>4. Exists(o)' /\ ledger[o].refunded <= ledger'[o].refunded
    BY <1>0, <2>3, NextMoneyMoves DEF MoneyMoves
  <2>5. ~Live(o) => ~Live(o)'
    BY <1>0, <2>3, NextEndedStay DEF EndedStay, Live
  <2>6. SoldOut(o) => SoldOut(o)' \/ ~Live(o)'
    BY <2>3 DEF OrderStep
  <2>7. ledger[o].refunded > 0 => ledger'[o].refunded > 0
    BY <1>0, <2>4 DEF Books, TypeOK, LedgerSums
  <2> QED BY <1>1, <2>1, <2>2, <2>3, <2>4, <2>5, <2>6, <2>7 DEF Informed
<1>2. ASSUME NEW kind \in {"update", "cascade"}, NEW o \in Orders, NEW target \in Statuses,
             NEW attach \in BOOLEAN, LoadOrder(w, kind, o, target, attach)
      PROVE  Informed(w)'
  <2>1. /\ requests'[w].order = o /\ requests'[w].status = orders[o].status
        /\ requests'[w].paymentStatus = orders[o].paymentStatus
        /\ orders' = orders /\ ledger' = ledger /\ Exists(o)
    BY <1>0, <1>2 DEF LoadOrder, TypeOK
  <2>2. orders[o].status \in TerminalFulfilment => ~Live(o)
    BY DEF Live
  <2>3. orders[o].paymentStatus = "paid" => SoldOut(o)
    BY <1>0 DEF Books, PaidIsCollected, SoldOut
  <2>4. orders[o].paymentStatus = "refunded" => ledger[o].refunded > 0
    <3>1. ledger[o] \in LedgerSums /\ orders[o] \in OrderRow /\ Reconciled(o)
      BY <1>0 DEF TypeOK, GoodsInv, OrderOK
    <3> QED BY <2>1, <3>1 DEF Reconciled, CacheOf, LedgerSums, OrderRow
  <2> QED BY <2>1, <2>2, <2>3, <2>4 DEF Informed, Exists, Live, SoldOut
<1>3. ASSUME NEW cacheSaved \in BOOLEAN, AbortByDeadlock(w, cacheSaved) PROVE FALSE
  BY <1>3 DEF NoRetry
<1> QED BY <1>0, <1>1, <1>2, <1>3, RequestSteps

LEMMA InitGoods == Init => GoodsInv
<1> SUFFICES ASSUME Init PROVE GoodsInv
  OBVIOUS
<1>1. ASSUME NEW o \in Orders
      PROVE  Approved(o) = {} /\ Claims(o) = {} /\ ~Exists(o) /\ ~Live(o)
  BY DEF Init, Approved, Claims, ReturnsOf, Exists, Live
<1>2. ASSUME NEW o \in Orders PROVE OrderOK(o)
  <2>1. /\ ApprovedUnits(o) = 0 /\ Cardinality(Approved(o)) = 0
        /\ ClaimedUnits(o) = 0
    BY <1>1, ReturnSums, InitBooks
  <2> QED BY <1>1, <2>1, UnitsAssumption
         DEF Init, OrderOK, Reconciled, GoodsMoved, PointsMoved, JobsSent, ReturnsOK
<1>3. \A w \in Workers : Informed(w)
  BY DEF Init, Informed
<1> QED BY <1>2, <1>3 DEF GoodsInv

LEMMA FreshHolds == UntilRetry => []Fresh
<1>1. Init => Fresh
  BY DEF Init, Fresh
<1>2. TypeOK /\ Fresh /\ [Next]_vars /\ [NoRetry]_vars => Fresh'
  <2> SUFFICES ASSUME TypeOK, Fresh, [Next]_vars, [NoRetry]_vars, NEW w \in Workers,
                      requests'[w] # Idle
               PROVE  requests'[w].aborts = 0
    BY DEF Fresh
  <2>1. CASE requests'[w] = requests[w]
    BY <2>1 DEF Fresh
  <2>2. ASSUME NEW kind \in {"update", "cascade"}, NEW o \in Orders, NEW target \in Statuses,
               NEW attach \in BOOLEAN, LoadOrder(w, kind, o, target, attach)
        PROVE  requests'[w].aborts = 0
    BY <2>2 DEF LoadOrder, TypeOK
  <2>3. ASSUME NEW cacheSaved \in BOOLEAN, AbortByDeadlock(w, cacheSaved), ~UNCHANGED vars
        PROVE  FALSE
    BY <2>3 DEF NoRetry
  <2>4. UNCHANGED vars => requests'[w] = requests[w]
    BY DEF vars
  <2> QED BY <2>1, <2>2, <2>3, <2>4, RequestSteps
<1>3. Spec => []TypeOK
  BY TypeCorrect
<1> QED BY <1>1, <1>2, <1>3, PTL DEF UntilRetry, Spec

LEMMA GoodsInvHolds == UntilRetry => []GoodsInv
<1>1. Fresh /\ SplitInv /\ Books' /\ GoodsInv /\ [Next]_vars /\ [NoRetry]_vars => GoodsInv'
  <2> SUFFICES ASSUME Fresh, SplitInv, Books', GoodsInv, [Next]_vars, [NoRetry]_vars
               PROVE  GoodsInv'
    OBVIOUS
  <2>1. CASE Next /\ NoRetry
    BY <2>1, NextMoves, NextInformed DEF GoodsInv, OrderStep
  <2>2. CASE UNCHANGED vars
    <3>1. \A z \in Orders : OrderStep(z)
      BY <2>2, GoodsAlone DEF vars
    <3>2. \A w \in Workers : Informed(w)'
      BY <2>2 DEF vars, GoodsInv, Informed, Exists, Live, SoldOut
    <3> QED BY <3>1, <3>2 DEF GoodsInv, OrderStep
  <2> QED BY <2>1, <2>2
<1>2. Spec => []SplitInv /\ []Books
  BY SplitInvHolds, BooksBalance
<1> QED BY <1>1, <1>2, FreshHolds, InitGoods, PTL DEF UntilRetry, Spec

-----------------------------------------------------------------------------
(* What the invariant says of the properties. *)

(* Stock leaves once, when an order completes, and comes back once: with   *)
(* the cancel or void, or with the approved returns; whatever requests,    *)
(* splits and shortages there are, until a transaction is run again.       *)
THEOREM StockMovesOnce == UntilRetry => []StockOnce
<1>1. SplitInv /\ GoodsInv => StockOnce
  <2> SUFFICES ASSUME SplitInv, GoodsInv, NEW o \in Orders
               PROVE  /\ Live(o) =>
                           /\ stock[o].deductions = IF Completed(o) THEN 1 ELSE 0
                           /\ stock[o].restored = IF stock[o].sold > 0
                                                  THEN ReturnedUnits(o, {"approved"}) ELSE 0
                      /\ ~Live(o) => /\ stock[o].restored = stock[o].sold
                                     /\ stock[o].deductions <= 1
    BY DEF StockOnce
  <2>1. GoodsMoved(o) /\ Reconciled(o) /\ Books
    BY DEF GoodsInv, OrderOK, SplitInv
  <2>2. ASSUME Live(o) PROVE Completed(o) <=> SoldOut(o)
    <3>1. /\ orders[o] \in OrderRow /\ ledger[o] \in LedgerSums
          /\ ledger[o].collected <= orders[o].total
          /\ StateOf(o) = LedgerState(orders[o], ledger[o])
          /\ LedgerState(orders[o], ledger[o]) # "INVALID"
          /\ LedgerState(orders[o], ledger[o]) \in OpenStates <=>
               ledger[o].collected < orders[o].total
      BY <2>1, <2>2, LiveLedger, LiveState
    <3>2. StateOf(o) \in FinancialStates
      BY <3>1, StateTypes
    <3> QED BY <3>1, <3>2
           DEF Completed, SoldOut, OpenStates, FinancialStates, OrderRow, LedgerSums
  <2> QED BY <2>1, <2>2 DEF GoodsMoved, ApprovedUnits
<1> QED BY <1>1, GoodsInvHolds, SplitInvHolds, PTL DEF UntilRetry

(* Where the outlet is never short and a return names a line once, returns *)
(* put back no more than the sale took out, until a transaction is run     *)
(* again.                                                                  *)
THEOREM ReturnsStayWithinSale ==
  ASSUME Shortfalls = {0}, LineRepeats = {1}
  PROVE  UntilRetry => []RestoredWithinSale
<1>1. SplitInv /\ GoodsInv => RestoredWithinSale
  <2> SUFFICES ASSUME SplitInv, GoodsInv, NEW o \in Orders
               PROVE  stock[o].restored <= stock[o].sold
    BY DEF RestoredWithinSale
  <2>1. /\ GoodsMoved(o) /\ ClaimedUnits(o) <= Units /\ stock[o] \in StockHistory
        /\ ApprovedUnits(o) \in Nat /\ ClaimedUnits(o) \in Nat
        /\ ApprovedUnits(o) <= ClaimedUnits(o)
    BY ReturnSums DEF GoodsInv, OrderOK, ReturnsOK, SplitInv, Books, TypeOK
  <2> QED BY <2>1, UnitsAssumption DEF GoodsMoved, StockHistory
<1> QED BY <1>1, GoodsInvHolds, SplitInvHolds, PTL DEF UntilRetry

(* Points are awarded once, taken back with the returned units and gone    *)
(* when the order ends, for every number of returns and requests, until a  *)
(* transaction is run again.                                               *)
THEOREM PointsComeAndGo == UntilRetry => []PointsFollowGoods
<1>1. GoodsInv => PointsFollowGoods
  BY DEF GoodsInv, OrderOK, PointsMoved, PointsFollowGoods, ApprovedUnits
<1> QED BY <1>1, GoodsInvHolds, PTL

(* The books hear once of every settlement, approved return and reversal,  *)
(* until a transaction is run again.                                       *)
THEOREM BooksHearOnce == UntilRetry => []JobsFollowMoney
<1>1. GoodsInv => JobsFollowMoney
  BY DEF GoodsInv, OrderOK, JobsSent, JobsFollowMoney, Approved
<1> QED BY <1>1, GoodsInvHolds, PTL

(* The returns that wait on a live order can all be approved: the order    *)
(* holds their refunds, however many were asked for and however they race, *)
(* until a transaction is run again.                                       *)
THEOREM RefundsStayReserved == UntilRetry => []RefundsReserved
<1>1. GoodsInv => RefundsReserved
  BY DEF GoodsInv, OrderOK, ReturnsOK, RefundsReserved
<1> QED BY <1>1, GoodsInvHolds, PTL

-----------------------------------------------------------------------------
(* Whose money a step moves. *)

MoneyStep(o) ==
  \/ \E total \in Totals : \/ \E member \in BOOLEAN : CreateOrder(o, total, member)
                           \/ CreateCustomerOrder(o, total)
  \/ ExpireQrOrder(o)
  \/ \E s \in Splits : splits[s].order = o /\
       (PaySplit(s) \/ \E shortfall \in Shortfalls : PayLastSplit(s, shortfall))
  \/ \E r \in Returns : returns[r].order = o /\ ApproveReturn(r)
  \/ \E w \in Workers : requests[w].order = o /\ requests[w] \in Request /\
       \/ \E shortfall \in Shortfalls : Settle(w, shortfall)
       \/ EndOrder(w) \/ SetStatus(w) \/ CascadeItemStatus(w)
  \/ UNCHANGED <<orders, ledger>>

MoneyAlone(o) == \A z \in Orders : z # o => orders'[z] = orders[z] /\ ledger'[z] = ledger[z]

LEMMA NextMoneyStep ==
  ASSUME Books, Next
  PROVE  \E o \in Orders : MoneyStep(o) /\ MoneyAlone(o)
<1>0. TypeOK
  BY DEF Books
<1>1. ASSUME NEW o \in Orders, MoneyStep(o) PROVE MoneyAlone(o)
  <2>1. ASSUME NEW total \in Totals, NEW member \in BOOLEAN,
               CreateOrder(o, total, member) \/ CreateCustomerOrder(o, total)
        PROVE  MoneyAlone(o)
    BY <1>0, <2>1 DEF MoneyAlone, CreateOrder, CreateCustomerOrder, TypeOK
  <2>2. CASE ExpireQrOrder(o)
    BY <1>0, <2>2 DEF MoneyAlone, ExpireQrOrder, TypeOK
  <2>3. ASSUME NEW s \in Splits, splits[s].order = o, NEW shortfall \in Shortfalls,
               PaySplit(s) \/ PayLastSplit(s, shortfall)
        PROVE  MoneyAlone(o)
    BY <1>0, <2>3 DEF MoneyAlone, PaySplit, PayLastSplit, TypeOK
  <2>4. ASSUME NEW r \in Returns, returns[r].order = o, ApproveReturn(r)
        PROVE  MoneyAlone(o)
    BY <1>0, <2>4 DEF MoneyAlone, ApproveReturn, TypeOK
  <2>5. ASSUME NEW w \in Workers, requests[w].order = o, NEW shortfall \in Shortfalls,
               Settle(w, shortfall) \/ EndOrder(w) \/ SetStatus(w) \/ CascadeItemStatus(w)
        PROVE  MoneyAlone(o)
    BY <1>0, <2>5 DEF MoneyAlone, Settle, EndOrder, SetStatus, CascadeItemStatus, TypeOK
  <2>6. CASE UNCHANGED <<orders, ledger>>
    BY <2>6 DEF MoneyAlone
  <2> QED BY <1>1, <2>1, <2>2, <2>3, <2>4, <2>5, <2>6, ShortfallsAssumption DEF MoneyStep
<1>2. ASSUME UNCHANGED <<orders, ledger>> PROVE \E o \in Orders : MoneyStep(o)
  BY <1>2, OrdersAssumption DEF MoneyStep
<1>3. ASSUME Create \/ \E o \in Orders : ExpireQrOrder(o)
      PROVE  \E o \in Orders : MoneyStep(o)
  BY <1>3 DEF Create, MoneyStep
<1>4. ASSUME SplitBill PROVE \E o \in Orders : MoneyStep(o)
  <2>1. ASSUME NEW s \in Splits, NEW shortfall \in Shortfalls,
               PaySplit(s) \/ PayLastSplit(s, shortfall)
        PROVE  \E o \in Orders : MoneyStep(o)
    <3>1. splits[s].order \in Orders
      BY <2>1 DEF PaySplit, PayLastSplit, CanPaySplit, Books, RowsHaveOrder
    <3> QED BY <2>1, <3>1 DEF MoneyStep
  <2> QED BY <1>2, <1>4, <2>1, ShortfallsAssumption
         DEF SplitBill, CreateSplits, CancelSplit, MergeSplits
<1>5. ASSUME SalesReturn PROVE \E o \in Orders : MoneyStep(o)
  <2>1. ASSUME NEW r \in Returns, ApproveReturn(r) PROVE \E o \in Orders : MoneyStep(o)
    <3>1. returns[r].order \in Orders
      BY <2>1 DEF ApproveReturn, Books, RowsHaveOrder
    <3> QED BY <2>1, <3>1 DEF MoneyStep
  <2> QED BY <1>2, <1>5, <2>1 DEF SalesReturn, ReturnSalesOrder, RejectReturn
<1>6. ASSUME UpdateStatus PROVE \E o \in Orders : MoneyStep(o)
  <2>1. ASSUME NEW w \in Workers, NEW shortfall \in Shortfalls,
               Settle(w, shortfall) \/ EndOrder(w) \/ SetStatus(w) \/ CascadeItemStatus(w)
        PROVE  \E o \in Orders : MoneyStep(o)
    <3>1. requests[w].order \in Orders /\ requests[w] \in Request
      BY <2>1, RequestTypes DEF Settle, EndOrder, SetStatus, CascadeItemStatus
    <3> QED BY <2>1, <3>1 DEF MoneyStep
  <2> QED BY <1>2, <1>6, <2>1, ShortfallsAssumption
         DEF UpdateStatus, LoadOrder, AbortByDeadlock, Refuse
<1> QED BY <1>1, <1>3, <1>4, <1>5, <1>6 DEF Next

(* A settled order stays live. *)
LEMMA SettleStaysLive ==
  ASSUME Books, NEW w \in Workers, NEW shortfall \in Shortfalls, Settle(w, shortfall),
         NEW o \in Orders, requests[w].order = o
  PROVE  Live(o)' /\ ledger'[o].refunded = ledger[o].refunded
<1> DEFINE q == requests[w]
           money == [ledger[o] EXCEPT !.collected = @ + Due(o)]
           state == FinalState(q, money)
           row == SaveStatusAndCache(q, state)
<1>1. q \in Request /\ q.order = o /\ MaySettle(q) /\ Commits(q, money)
  BY RequestTypes DEF Settle
<1>2. Exists(o) /\ Live(o) /\ Due(o) \in Nat /\ ledger[o] \in LedgerSums
  BY <1>1, SettlementDue DEF Books, TypeOK
<1>3. money \in LedgerSums /\ money.refunded = ledger[o].refunded
  BY <1>2, Collecting1
<1>4. state \in FinancialStates \ {"INVALID"}
  BY <1>1, <1>3, FinalStateTypes DEF Commits
<1>5. row.status # "absent" /\ row.status \in {orders[o].status, "paid"}
  <2>1. row.status = SaveStatus(q).status /\ row.status # "absent"
    BY <1>1, <1>2, <1>4, SavedCache
  <2>2. SaveStatus(q).status \in {orders[o].status, q.target} /\ q.target = "paid"
    BY <1>1, <1>2, SavedStatus DEF MaySettle
  <2> QED BY <2>1, <2>2
<1>6. orders'[o] = row /\ ledger'[o] = money
  BY <1>1 DEF Settle, Books, TypeOK
<1> HIDE DEF row, money
<1> QED BY <1>2, <1>3, <1>5, <1>6 DEF Live, Exists, TerminalFulfilment

-----------------------------------------------------------------------------
(* Orders there is nothing to pay for: only their cache tells a completed  *)
(* one.  A second request that loaded it earlier may leave an ended one    *)
(* marked paid, hence Alone: no two requests are in flight at such an      *)
(* order at once.                                                          *)
Alone ==
  \A v, w \in Workers :
    requests[v] # Idle /\ requests[w] # Idle /\ requests[v].order = requests[w].order
      /\ orders[requests[v].order].total = 0
    => v = w

FreeEnded(o) ==
  Exists(o) /\ orders[o].total = 0 =>
    0 \in Totals /\ (~Live(o) => orders[o].paymentStatus = "unpaid")

FreeInformed(w) ==
  requests[w] # Idle /\ requests[w].paymentStatus = "unpaid" =>
    LET o == requests[w].order
    IN  Live(o) /\ orders[o].total = 0 => orders[o].paymentStatus = "unpaid"

FreeInv == (\A o \in Orders : FreeEnded(o)) /\ (\A w \in Workers : FreeInformed(w))

LEMMA NextFreeEnded ==
  ASSUME SplitInv, Books', GoodsInv, FreeInv, Next, NEW z \in Orders
  PROVE  FreeEnded(z)'
<1>0. Books /\ TypeOK
  BY DEF SplitInv, Books
<1> PICK o \in Orders : MoneyStep(o) /\ MoneyAlone(o)
  BY <1>0, NextMoneyStep
<1>1. CASE z # o
  <2>1. orders'[z] = orders[z] /\ FreeEnded(z)
    BY <1>1 DEF MoneyAlone, FreeInv
  <2> QED BY <2>1 DEF FreeEnded, Exists, Live
<1>2. ASSUME NEW total \in Totals, NEW member \in BOOLEAN,
             CreateOrder(o, total, member) \/ CreateCustomerOrder(o, total)
      PROVE  FreeEnded(o)'
  <2>1. orders'[o].total = total /\ orders'[o].status \in {"paid", "pending"}
    BY <1>0, <1>2 DEF CreateOrder, CreateCustomerOrder, TypeOK
  <2> QED BY <2>1 DEF FreeEnded, Live, Exists, TerminalFulfilment
<1>3. ASSUME Exists(o), ~Live(o)' => orders'[o].total # 0 \/ orders'[o].paymentStatus = "unpaid"
      PROVE  FreeEnded(o)'
  <2>1. orders'[o].total = orders[o].total
    BY <1>0, <1>3, NextMoneyMoves DEF MoneyMoves
  <2> QED BY <1>3, <2>1 DEF FreeEnded, FreeInv
<1>4. ASSUME ExpireQrOrder(o) PROVE FreeEnded(o)'
  <2>1. orders'[o].paymentStatus = "unpaid" /\ Exists(o)
    BY <1>0, <1>4 DEF ExpireQrOrder, Live, TypeOK, OrderRow
  <2> QED BY <1>3, <2>1
<1>5. ASSUME NEW s \in Splits, splits[s].order = o, NEW shortfall \in Shortfalls,
             PaySplit(s) \/ PayLastSplit(s, shortfall)
      PROVE  FreeEnded(o)'
  <2>1. CanPaySplit(s)
    BY <1>5 DEF PaySplit, PayLastSplit
  <2>2. Exists(o) /\ Collecting(o) /\ orders[o] \in OrderRow /\ ledger[o] \in LedgerSums
    BY <1>0, <1>5, <2>1, CanPay DEF TypeOK
  <2>3. orders'[o].total = orders[o].total
    BY <1>0, <2>2, NextMoneyMoves DEF MoneyMoves
  <2> QED BY <1>3, <2>2, <2>3 DEF Collecting, OrderRow, LedgerSums
<1>6. ASSUME NEW r \in Returns, returns[r].order = o, ApproveReturn(r)
      PROVE  FreeEnded(o)'
  <2>1. Exists(o) /\ orders[o].status \notin TerminalFulfilment /\ orders[o] \in OrderRow
    BY <1>0, <1>6 DEF ApproveReturn, Books, RowsHaveOrder, TypeOK
  <2>2. orders'[o].status = orders[o].status
    BY <1>0, <1>6, <2>1 DEF ApproveReturn, TypeOK, OrderRow
  <2> QED BY <1>3, <2>1, <2>2 DEF Live, Exists
<1>7. ASSUME NEW w \in Workers, requests[w].order = o, NEW shortfall \in Shortfalls,
             Settle(w, shortfall)
      PROVE  FreeEnded(o)'
  <2>1. Exists(o)
    BY <1>7 DEF Settle, MaySettle, Live
  <2> QED BY <1>0, <1>3, <1>7, <2>1, SettleStaysLive
<1>8. ASSUME NEW w \in Workers, requests[w].order = o, EndOrder(w)
      PROVE  FreeEnded(o)'
  <2>1. /\ Live(o) /\ Exists(o) /\ requests[w] # Idle /\ orders[o].total \in Nat
        /\ orders'[o].total = orders[o].total
        /\ orders[o].total = 0 => orders'[o].paymentStatus =
             Saved(orders[o].paymentStatus, requests[w].paymentStatus, "unpaid")
    BY <1>0, <1>8, EndOrderMoney DEF EndOrder, Live, TypeOK, OrderRow
  <2>2. orders[o].total = 0 => orders'[o].paymentStatus = "unpaid"
    BY <1>8, <2>1 DEF FreeInv, FreeInformed, Saved
  <2> QED BY <1>3, <2>1, <2>2
<1>9. ASSUME NEW w \in Workers, requests[w].order = o, SetStatus(w) \/ CascadeItemStatus(w)
      PROVE  FreeEnded(o)'
  <2>1. /\ orders'[o].paymentStatus = orders[o].paymentStatus
        /\ orders'[o].total = orders[o].total
        /\ Exists(o) /\ (Live(o)' <=> Live(o))
    BY <1>0, <1>9, StatusRow DEF SplitInv
  <2> QED BY <2>1 DEF FreeEnded, FreeInv
<1>10. CASE UNCHANGED <<orders, ledger>>
  BY <1>10 DEF FreeEnded, FreeInv, Exists, Live
<1> QED
  BY <1>1, <1>2, <1>4, <1>5, <1>6, <1>7, <1>8, <1>9, <1>10, ShortfallsAssumption DEF MoneyStep

LEMMA NextFreeInformed ==
  ASSUME NoRetry, Alone, SplitInv, Books', GoodsInv, FreeInv, Next, NEW w \in Workers
  PROVE  FreeInformed(w)'
<1>0. Books /\ TypeOK
  BY DEF SplitInv, Books
<1> SUFFICES ASSUME requests'[w] # Idle, requests'[w].paymentStatus = "unpaid",
                    Live(requests[w].order)', orders'[requests'[w].order].total = 0
             PROVE  orders'[requests'[w].order].paymentStatus = "unpaid"
  BY DEF FreeInformed, Live, Exists
<1>1. CASE requests'[w] = requests[w]
  <2>1. PICK z \in Orders : requests[w].order = z
    BY <1>0, <1>1, RequestTypes
  <2>2. Exists(z) /\ orders[z] \in OrderRow
    BY <1>0, <1>1, <2>1 DEF GoodsInv, Informed, TypeOK
  <2>3. orders[z].total = 0 /\ Live(z) /\ Live(z)'
    <3>1. orders'[z].total = orders[z].total
      BY <1>0, <2>2, NextMoneyMoves DEF MoneyMoves
    <3>2. ~Live(z) => orders'[z].status = orders[z].status
      BY <1>0, <2>2, NextEndedStay DEF EndedStay, Live
    <3>3. Live(z)'
      BY <1>1, <2>1 DEF Live, Exists
    <3> QED BY <1>1, <2>1, <3>1, <3>2, <3>3 DEF Live, Exists
  <2>4. orders[z].paymentStatus = "unpaid" /\ 0 \in Totals
    BY <1>1, <2>1, <2>2, <2>3 DEF FreeInv, FreeInformed, FreeEnded
  <2> PICK o \in Orders : MoneyStep(o) /\ MoneyAlone(o)
    BY <1>0, NextMoneyStep
  <2>5. CASE z # o
    BY <1>1, <2>1, <2>4, <2>5 DEF MoneyAlone
  <2>6. ASSUME z = o, orders'[o].paymentStatus = orders[o].paymentStatus
        PROVE  orders'[z].paymentStatus = "unpaid"
    BY <2>4, <2>6
  <2>7. ASSUME z = o, NEW total \in Totals, NEW member \in BOOLEAN,
               CreateOrder(o, total, member) \/ CreateCustomerOrder(o, total)
        PROVE  FALSE
    BY <2>2, <2>7 DEF CreateOrder, CreateCustomerOrder
  <2>8. ASSUME z = o, ExpireQrOrder(o) PROVE FALSE
    BY <1>0, <2>3, <2>8 DEF ExpireQrOrder, Live, TerminalFulfilment, TypeOK, OrderRow
  <2>9. ASSUME z = o, NEW s \in Splits, splits[s].order = o, NEW shortfall \in Shortfalls,
               PaySplit(s) \/ PayLastSplit(s, shortfall)
        PROVE  FALSE
    <3>1. Collecting(o) /\ ledger[o] \in LedgerSums
      BY <1>0, <2>9, CanPay DEF PaySplit, PayLastSplit, TypeOK
    <3> QED BY <2>3, <2>9, <3>1 DEF Collecting, LedgerSums
  <2>10. ASSUME z = o, NEW r \in Returns, returns[r].order = o, ApproveReturn(r) PROVE FALSE
    <3>1. r \in Claims(o)
      BY <2>10 DEF ApproveReturn, Claims, ReturnsOf
    <3>2. SoldOut(o)
      BY <2>3, <2>10, <3>1 DEF GoodsInv, OrderOK, ReturnsOK
    <3> QED BY <2>4, <2>10, <3>2 DEF SoldOut
  <2>11. ASSUME z = o, NEW v \in Workers, requests[v].order = o, NEW shortfall \in Shortfalls,
                Settle(v, shortfall)
         PROVE  FALSE
    <3>1. v = w
      BY <1>1, <2>1, <2>3, <2>11 DEF Alone, Settle
    <3> QED BY <1>0, <2>11, <3>1 DEF Settle, TypeOK
  <2>12. ASSUME z = o, NEW v \in Workers, requests[v].order = o, EndOrder(v) PROVE FALSE
    <3>1. orders'[o].status \in TerminalFulfilment
      BY <2>12, EndOrderMoney
    <3> QED BY <2>3, <2>12, <3>1 DEF Live
  <2>13. ASSUME z = o, NEW v \in Workers, requests[v].order = o,
                SetStatus(v) \/ CascadeItemStatus(v)
         PROVE  orders'[z].paymentStatus = "unpaid"
    BY <1>0, <2>6, <2>13, StatusRow DEF SplitInv
  <2>14. ASSUME UNCHANGED <<orders, ledger>> PROVE orders'[z].paymentStatus = "unpaid"
    BY <2>4, <2>14
  <2>15. orders'[z].paymentStatus = "unpaid"
    BY <2>4, <2>5, <2>7, <2>8, <2>9, <2>10, <2>11, <2>12, <2>13, <2>14, ShortfallsAssumption
       DEF MoneyStep, MoneyAlone
  <2> QED BY <1>1, <2>1, <2>15
<1>2. ASSUME NEW kind \in {"update", "cascade"}, NEW o \in Orders, NEW target \in Statuses,
             NEW attach \in BOOLEAN, LoadOrder(w, kind, o, target, attach)
      PROVE  orders'[requests'[w].order].paymentStatus = "unpaid"
  BY <1>0, <1>2 DEF LoadOrder, TypeOK
<1>3. ASSUME NEW cacheSaved \in BOOLEAN, AbortByDeadlock(w, cacheSaved) PROVE FALSE
  BY <1>3 DEF NoRetry
<1> QED BY <1>0, <1>1, <1>2, <1>3, RequestSteps

LEMMA FreeInvHolds == UntilRetry /\ []Alone => []FreeInv
<1>1. Init => FreeInv
  BY DEF Init, FreeInv, FreeEnded, FreeInformed, Exists
<1>2. Alone /\ SplitInv /\ Books' /\ GoodsInv /\ FreeInv /\ [Next]_vars /\ [NoRetry]_vars
        => FreeInv'
  <2> SUFFICES ASSUME Alone, SplitInv, Books', GoodsInv, FreeInv, [Next]_vars, [NoRetry]_vars
               PROVE  FreeInv'
    OBVIOUS
  <2>1. CASE Next /\ NoRetry
    BY <2>1, NextFreeEnded, NextFreeInformed DEF FreeInv
  <2>2. CASE UNCHANGED vars
    BY <2>2 DEF vars, FreeInv, FreeEnded, FreeInformed, Exists, Live
  <2> QED BY <2>1, <2>2
<1>3. Spec => []SplitInv /\ []Books
  BY SplitInvHolds, BooksBalance
<1> QED BY <1>1, <1>2, <1>3, GoodsInvHolds, PTL DEF UntilRetry, Spec

LEMMA CacheIsTrue ==
  ASSUME SplitInv, GoodsInv, FreeInv, NEW o \in Orders, Exists(o)
  PROVE  /\ StateOf(o) # "INVALID"
         /\ LedgerState(orders[o], ledger[o]) # "INVALID"
         /\ ~(orders[o].total = 0 /\ Live(o)) =>
              orders[o].paymentStatus = LegacyPaymentStatus[LedgerState(orders[o], ledger[o])]
<1> DEFINE state == LedgerState(orders[o], ledger[o])
<1>1. /\ Reconciled(o) /\ Books /\ FreeEnded(o)
      /\ orders[o] \in OrderRow /\ ledger[o] \in LedgerSums /\ orders[o].total \in Nat
      /\ ledger[o].collected <= orders[o].total /\ ledger[o].collected \in Nat
  BY DEF GoodsInv, OrderOK, SplitInv, Books, TypeOK, FreeInv, LedgerBounds, OrderRow, LedgerSums
<1>2. CASE Live(o)
  <2>1. /\ StateOf(o) = state /\ state # "INVALID"
        /\ orders[o].total > 0 =>
             LegacyPaymentStatus[state] = CacheOf(ledger[o], orders[o].total)
    BY <1>1, <1>2, LiveLedger, LiveState
  <2> HIDE DEF state
  <2>2. orders[o].total > 0 =>
          orders[o].paymentStatus = CacheOf(ledger[o], orders[o].total)
    BY <1>1 DEF Reconciled
  <2> QED BY <1>1, <1>2, <2>1, <2>2 DEF state
<1>3. CASE ~Live(o)
  <2>1. orders[o].status \in TerminalFulfilment /\ ledger[o].refunded = ledger[o].collected
    BY <1>1, <1>3 DEF Live, Reconciled
  <2>2. /\ state = IF ledger[o].collected = 0 THEN "UNPAID" ELSE "REFUNDED"
        /\ LegacyPaymentStatus[state] = CacheOf(ledger[o], orders[o].total)
    BY <1>1, <2>1, EndedState
  <2> HIDE DEF state
  <2>3. orders[o].paymentStatus = CacheOf(ledger[o], orders[o].total)
    <3>1. CASE orders[o].total = 0
      <4>1. ledger[o].collected = 0 /\ orders[o].paymentStatus = "unpaid"
        BY <1>1, <1>3, <3>1 DEF FreeEnded
      <4> QED BY <4>1 DEF CacheOf
    <3>2. CASE orders[o].total # 0
      <4>1. orders[o].total > 0
        BY <1>1, <3>2
      <4> QED BY <1>1, <4>1 DEF Reconciled
    <3> QED BY <3>1, <3>2
  <2>4. state \in OpenStates => orders[o].paymentStatus # "paid"
    BY <2>1, <2>2, <2>3 DEF OpenStates, CacheOf
  <2>5. StateOf(o) = state
    BY <2>4 DEF StateOf, FinancialState, state
  <2> QED BY <2>2, <2>3, <2>5 DEF state
<1> QED BY <1>2, <1>3

(* No legal sequence of calls, by any number of requests, leaves an order  *)
(* no handler can reconcile again, until a transaction is run again and    *)
(* while no two requests are in flight at an order with nothing to pay.    *)
THEOREM StaysReconciled == UntilRetry /\ []Alone => []NeverUnreconciled
<1>1. SplitInv /\ GoodsInv /\ FreeInv => NeverUnreconciled
  BY CacheIsTrue DEF NeverUnreconciled
<1> QED BY <1>1, SplitInvHolds, GoodsInvHolds, FreeInvHolds, PTL DEF UntilRetry

(* The cached payment status, written field by field through an instance   *)
(* loaded before the lock, still says what the ledger says, until a        *)
(* transaction is run again and while no two requests are in flight at an  *)
(* order with nothing to pay: there the stale instance of one may leave    *)
(* the order marked paid after the other ended it.                         *)
THEOREM CacheStaysTrue == UntilRetry /\ []Alone => []CacheAgrees
<1>1. SplitInv /\ GoodsInv /\ FreeInv => CacheAgrees
  BY CacheIsTrue DEF CacheAgrees
<1> QED BY <1>1, SplitInvHolds, GoodsInvHolds, FreeInvHolds, PTL DEF UntilRetry

-----------------------------------------------------------------------------
(* The account of each order: the handlers implement OrderAccount. *)

Acc(o) == [phase |-> AccountPhase(o),
           due   |-> IF Live(o) THEN orders[o].total - ledger[o].collected ELSE 0,
           held  |-> NetCollected(ledger[o])]

accounts == [o \in Orders |-> Acc(o)]

AccOpens(o) ==
  /\ Acc(o).phase = "none"
  /\ \E amount \in Totals : \/ Acc(o)' = [phase |-> "open", due |-> amount, held |-> 0]
                            \/ Acc(o)' = [phase |-> "settled", due |-> 0, held |-> amount]

AccPays(o) ==
  /\ Acc(o).phase = "open"
  /\ \E amount \in 0..Acc(o).due :
       Acc(o)' = [phase |-> IF amount = Acc(o).due THEN "settled" ELSE "open",
                  due   |-> Acc(o).due - amount,
                  held  |-> Acc(o).held + amount]

AccRefunds(o) ==
  /\ Acc(o).phase = "settled"
  /\ \E amount \in 1..Acc(o).held : Acc(o)' = [Acc(o) EXCEPT !.held = @ - amount]

AccCloses(o) ==
  /\ Acc(o).phase \in {"open", "settled"}
  /\ Acc(o)' = [phase |-> "closed", due |-> 0, held |-> 0]

AccStep(o) ==
  Acc(o)' = Acc(o) \/ AccOpens(o) \/ AccPays(o) \/ AccRefunds(o) \/ AccCloses(o)

(* A step of one account is a step of the abstract specification. *)
LEMMA AccountMoves ==
  ASSUME NEW o \in Orders, AccStep(o), \A z \in Orders : z # o => Acc(z)' = Acc(z)
  PROVE  [Account!Next]_accounts
<1>1. accounts' = [accounts EXCEPT ![o] = Acc(o)']
  BY DEF accounts
<1>2. accounts[o] = Acc(o)
  BY DEF accounts
<1>3. CASE Acc(o)' = Acc(o)
  <2>1. accounts' = accounts
    BY <1>3 DEF accounts
  <2> QED BY <2>1
<1>4. CASE AccOpens(o)
  <2>1. PICK amount \in Totals : \/ Acc(o)' = [phase |-> "open", due |-> amount, held |-> 0]
                                 \/ Acc(o)' = [phase |-> "settled", due |-> 0, held |-> amount]
    BY <1>4 DEF AccOpens
  <2>2. Account!Open(o, amount) \/ Account!Sell(o, amount)
    BY <1>1, <1>2, <1>4, <2>1 DEF Account!Open, Account!Sell, accounts, Acc, AccOpens
  <2> QED BY <2>2 DEF Account!Next
<1>5. CASE AccPays(o)
  <2>1. PICK amount \in 0..Acc(o).due :
          Acc(o)' = [phase |-> IF amount = Acc(o).due THEN "settled" ELSE "open",
                     due   |-> Acc(o).due - amount, held |-> Acc(o).held + amount]
    BY <1>5 DEF AccPays
  <2>2. amount <= Acc(o).due
    BY <2>1
  <2>3. Account!Pay(o, amount)
    BY <1>1, <1>2, <1>5, <2>1, <2>2 DEF Account!Pay, accounts, Acc, AccPays
  <2>4. amount \in 0..accounts[o].due
    BY <1>2, <2>1
  <2> QED BY <2>3, <2>4 DEF Account!Next, accounts, Acc
<1>6. CASE AccRefunds(o)
  <2>1. PICK amount \in 1..Acc(o).held : Acc(o)' = [Acc(o) EXCEPT !.held = @ - amount]
    BY <1>6 DEF AccRefunds
  <2>2. amount <= Acc(o).held
    BY <2>1
  <2>3. Account!Refund(o, amount)
    BY <1>1, <1>2, <1>6, <2>1, <2>2 DEF Account!Refund, accounts, Acc, AccRefunds
  <2>4. amount \in 1..accounts[o].held
    BY <1>2, <2>1
  <2> QED BY <2>3, <2>4 DEF Account!Next, accounts, Acc
<1>7. CASE AccCloses(o)
  <2>1. Account!Close(o)
    BY <1>1, <1>2, <1>7 DEF Account!Close, accounts, Acc, AccCloses
  <2> QED BY <2>1 DEF Account!Next
<1> QED BY <1>3, <1>4, <1>5, <1>6, <1>7 DEF AccStep

(* Until an order completed nothing was refunded, and the step that        *)
(* completes it refunds nothing.                                           *)
LEMMA OpenRefundsNothing ==
  ASSUME SplitInv, Books', GoodsInv, NEW o \in Orders, MoneyStep(o),
         Live(o), Live(o)', ~SoldOut(o)
  PROVE  ledger[o].refunded = 0 /\ ledger'[o].refunded = 0
<1>0. Books /\ TypeOK /\ OrderOK(o) /\ ledger[o] \in LedgerSums
  BY DEF SplitInv, Books, GoodsInv, TypeOK
<1>1. Claims(o) = {} /\ ledger[o].refunded = 0
  <2>1. Claims(o) = {} /\ Approved(o) = {}
    BY <1>0, ReturnSums DEF OrderOK, ReturnsOK
  <2> QED BY <1>0, <2>1 DEF OrderOK, ReturnsOK, LedgerSums
<1>2. ASSUME NEW total \in Totals, NEW member \in BOOLEAN,
             CreateOrder(o, total, member) \/ CreateCustomerOrder(o, total)
      PROVE  FALSE
  BY <1>2 DEF CreateOrder, CreateCustomerOrder, Live
<1>3. ASSUME NEW s \in Splits, splits[s].order = o, NEW shortfall \in Shortfalls,
             PaySplit(s) \/ PayLastSplit(s, shortfall)
      PROVE  ledger'[o].refunded = ledger[o].refunded
  <2>1. CanPaySplit(s) /\ ledger' = [ledger EXCEPT ![o] = MoneyAfter(s)]
    BY <1>3 DEF PaySplit, PayLastSplit
  <2>2. MoneyAfter(s) = [ledger[o] EXCEPT !.collected = @ + splits[s].amount]
    BY <1>0, <1>3, <2>1, CanPay
  <2>3. splits[s].amount \in Nat
    BY <1>0 DEF TypeOK, SplitRow
  <2> QED BY <1>0, <2>1, <2>2, <2>3 DEF LedgerSums, TypeOK
<1>4. ASSUME NEW r \in Returns, returns[r].order = o, ApproveReturn(r) PROVE FALSE
  BY <1>1, <1>4 DEF ApproveReturn, Claims, ReturnsOf
<1>5. ASSUME NEW w \in Workers, requests[w].order = o, NEW shortfall \in Shortfalls,
             Settle(w, shortfall)
      PROVE  ledger'[o].refunded = ledger[o].refunded
  BY <1>0, <1>5, SettleStaysLive
<1>6. ASSUME NEW w \in Workers, requests[w].order = o, EndOrder(w) PROVE FALSE
  BY <1>6, EndOrderMoney DEF Live
<1>7. ASSUME ledger' = ledger PROVE ledger'[o].refunded = ledger[o].refunded
  BY <1>7
<1> QED
  BY <1>1, <1>2, <1>3, <1>4, <1>5, <1>6, <1>7, ShortfallsAssumption
     DEF MoneyStep, ExpireQrOrder, SetStatus, CascadeItemStatus

LEMMA OrderAccountStep ==
  ASSUME SplitInv, Books', GoodsInv, GoodsInv', Next, NEW o \in Orders, OrderStep(o),
         MoneyStep(o)
  PROVE  AccStep(o)
<1>0. Books /\ TypeOK /\ TypeOK' /\ OrderOK(o) /\ OrderOK(o)'
  BY DEF SplitInv, Books, GoodsInv
<1>1. /\ ledger[o] \in LedgerSums /\ ledger'[o] \in LedgerSums
      /\ orders[o].total \in Nat /\ orders'[o].total \in Nat
      /\ ledger[o].collected \in Nat /\ ledger[o].refunded \in Nat
      /\ ledger'[o].collected \in Nat /\ ledger'[o].refunded \in Nat
      /\ ledger[o].refunded <= ledger[o].collected
      /\ ledger'[o].refunded <= ledger'[o].collected
      /\ ledger[o].collected <= orders[o].total /\ ledger'[o].collected <= orders'[o].total
  BY <1>0 DEF Books, TypeOK, LedgerBounds, LedgerSums, OrderRow
<1>2. CASE ~Exists(o)
  <2>1. Acc(o) = [phase |-> "none", due |-> 0, held |-> 0]
    BY <1>0, <1>2 DEF Acc, AccountPhase, Live, Books, AbsentIsEmpty, NetCollected
  <2>2. /\ ledger[o].collected = 0 /\ ledger[o].refunded = 0
    BY <1>0, <1>2 DEF Books, AbsentIsEmpty
  <2>3. ASSUME NEW total \in Totals, NEW member \in BOOLEAN, CreateOrder(o, total, member)
        PROVE  AccOpens(o)
    <3>1. /\ orders'[o].status = "paid" /\ orders'[o].paymentStatus = "paid"
          /\ orders'[o].total = total
          /\ ledger'[o].collected = total /\ ledger'[o].refunded = 0 /\ total \in Nat
      BY <1>0, <1>1, <2>2, <2>3, TotalsAssumption DEF CreateOrder, TypeOK, LedgerSums
    <3>2. Acc(o)' = [phase |-> "settled", due |-> 0, held |-> total]
      BY <3>1 DEF Acc, AccountPhase, Live, Exists, TerminalFulfilment, NetCollected
    <3> QED BY <2>1, <3>2 DEF AccOpens
  <2>4. ASSUME NEW total \in Totals, CreateCustomerOrder(o, total) PROVE AccOpens(o)
    <3>1. /\ orders'[o].status = "pending" /\ orders'[o].paymentStatus = "unpaid"
          /\ orders'[o].total = total
          /\ ledger'[o].collected = 0 /\ ledger'[o].refunded = 0 /\ total \in Nat
      BY <1>0, <1>1, <2>2, <2>4, TotalsAssumption DEF CreateCustomerOrder, TypeOK
    <3>2. Acc(o)' = [phase |-> "open", due |-> total, held |-> 0]
      BY <3>1 DEF Acc, AccountPhase, Live, Exists, TerminalFulfilment, NetCollected
    <3> QED BY <2>1, <3>2 DEF AccOpens
  <2>5. ASSUME NEW s \in Splits, splits[s].order = o, NEW shortfall \in Shortfalls,
               PaySplit(s) \/ PayLastSplit(s, shortfall)
        PROVE  FALSE
    BY <1>0, <1>2, <2>5, CanPay DEF PaySplit, PayLastSplit
  <2>6. ASSUME NEW r \in Returns, returns[r].order = o, ApproveReturn(r) PROVE FALSE
    BY <1>0, <1>2, <2>6 DEF ApproveReturn, Books, RowsHaveOrder
  <2>7. ASSUME NEW w \in Workers, requests[w].order = o, NEW shortfall \in Shortfalls,
               Settle(w, shortfall) \/ EndOrder(w) \/ SetStatus(w) \/ CascadeItemStatus(w)
        PROVE  FALSE
    <3>1. CASE Settle(w, shortfall) \/ EndOrder(w)
      BY <1>2, <2>7, <3>1 DEF Settle, EndOrder, MaySettle, MayEnd, Live
    <3>2. CASE SetStatus(w) \/ CascadeItemStatus(w)
      BY <1>0, <1>2, <2>7, <3>2, StatusRow DEF SplitInv
    <3> QED BY <2>7, <3>1, <3>2
  <2>8. ASSUME UNCHANGED <<orders, ledger>> PROVE Acc(o)' = Acc(o)
    BY <2>8 DEF Acc, AccountPhase, Live, Exists
  <2>9. ~ExpireQrOrder(o)
    BY <1>2 DEF ExpireQrOrder, Live
  <2> QED
    BY <2>3, <2>4, <2>5, <2>6, <2>7, <2>8, <2>9, ShortfallsAssumption DEF MoneyStep, AccStep
<1>3. CASE Exists(o) /\ ~Live(o)
  <2>1. orders'[o].status = orders[o].status /\ ledger'[o] = ledger[o]
    BY <1>0, <1>3, NextEndedStay DEF EndedStay, Live
  <2> QED BY <1>3, <2>1 DEF AccStep, Acc, AccountPhase, Live, Exists
<1>4. CASE Live(o)
  <2>1. /\ Exists(o) /\ Exists(o)' /\ orders'[o].total = orders[o].total
        /\ ledger[o].collected <= ledger'[o].collected
        /\ ledger[o].refunded <= ledger'[o].refunded
    BY <1>0, <1>4, NextMoneyMoves DEF MoneyMoves, Live
  <2> DEFINE due == orders[o].total - ledger[o].collected
             held == ledger[o].collected - ledger[o].refunded
  <2>2. Acc(o) = [phase |-> IF SoldOut(o) THEN "settled" ELSE "open", due |-> due, held |-> held]
    BY <1>4, <2>1 DEF Acc, AccountPhase, SoldOut, NetCollected
  <2>3. CASE ~Live(o)'
    <3>1. ledger'[o].refunded = ledger'[o].collected
      BY <1>0, <2>3 DEF OrderOK, Reconciled
    <3>2. Acc(o)' = [phase |-> "closed", due |-> 0, held |-> 0]
      BY <1>1, <2>1, <2>3, <3>1 DEF Acc, AccountPhase, NetCollected
    <3> QED BY <2>2, <3>2 DEF AccStep, AccCloses
  <2>4. CASE Live(o)'
    <3>1. Acc(o)' = [phase |-> IF SoldOut(o)' THEN "settled" ELSE "open",
                     due |-> orders[o].total - ledger'[o].collected,
                     held |-> ledger'[o].collected - ledger'[o].refunded]
      BY <2>1, <2>4 DEF Acc, AccountPhase, SoldOut, NetCollected
    <3>2. CASE SoldOut(o)
      <4> DEFINE amount == ledger'[o].refunded - ledger[o].refunded
      <4>1. SoldOut(o)' /\ ledger'[o].collected = ledger[o].collected
        BY <2>1, <2>4, <3>2 DEF OrderStep, SoldOut
      <4>2. /\ amount \in 0..held /\ due = 0
            /\ ledger'[o].collected - ledger'[o].refunded = held - amount
        BY <1>1, <2>1, <3>2, <4>1 DEF SoldOut
      <4>3. Acc(o)' = [phase |-> "settled", due |-> due, held |-> held - amount]
        <5> HIDE DEF held, amount
        <5> QED BY <3>1, <4>1, <4>2
      <4>4. Acc(o) = [phase |-> "settled", due |-> due, held |-> held]
        BY <2>2, <3>2
      <4> HIDE DEF due, held, amount
      <4>5. CASE amount = 0
        <5>1. held - amount = held
          BY <1>1, <4>5 DEF held
        <5> QED BY <4>3, <4>4, <5>1 DEF AccStep
      <4>6. CASE amount # 0
        <5>1. amount \in 1..held
          BY <1>1, <4>2, <4>6 DEF held
        <5>2. Acc(o)' = [Acc(o) EXCEPT !.held = @ - amount]
          BY <4>3, <4>4
        <5> QED BY <4>4, <5>1, <5>2 DEF AccStep, AccRefunds
      <4> QED BY <4>5, <4>6
    <3>3. CASE ~SoldOut(o)
      <4> DEFINE amount == ledger'[o].collected - ledger[o].collected
      <4>1. ledger[o].refunded = 0 /\ ledger'[o].refunded = 0
        BY <1>4, <2>4, <3>3, OpenRefundsNothing
      <4>2. amount \in 0..due
        BY <1>1, <2>1
      <4>3. /\ orders[o].total - ledger'[o].collected = due - amount
            /\ ledger'[o].collected - ledger'[o].refunded = held + amount
        BY <1>1, <4>1
      <4>4. Acc(o) = [phase |-> "open", due |-> due, held |-> held]
        BY <2>2, <3>3
      <4>5. CASE SoldOut(o)' <=> amount = due
        <5>1. Acc(o)' = [phase |-> IF amount = due THEN "settled" ELSE "open",
                         due |-> due - amount, held |-> held + amount]
          <6> HIDE DEF due, held, amount
          <6> QED BY <3>1, <4>3, <4>5
        <5> HIDE DEF due, held, amount
        <5> QED BY <4>2, <4>4, <5>1 DEF AccStep, AccPays
      <4>6. CASE ~(SoldOut(o)' <=> amount = due)
        <5>1. ledger'[o].collected = orders[o].total /\ orders'[o].paymentStatus = "unpaid"
              /\ ~SoldOut(o)'
          BY <1>1, <2>1, <4>6 DEF SoldOut
        <5>2. ledger'[o].collected = 0
          BY <1>0, <1>1, <2>1, <4>1, <5>1 DEF OrderOK, Reconciled, CacheOf
        <5>3. ledger[o].collected = 0
          BY <1>1, <2>1, <5>2
        <5> QED BY <2>2, <3>1, <3>3, <4>1, <5>1, <5>2, <5>3 DEF AccStep
      <4> QED BY <4>5, <4>6
    <3> QED BY <3>2, <3>3
  <2> QED BY <2>3, <2>4
<1> QED BY <1>2, <1>3, <1>4

(* Splits, settlements, voids, expiries and returns together do to each    *)
(* order's money what the account promises, and nothing else, until a      *)
(* transaction is run again: for every number of orders, requests, splits, *)
(* returns and amounts.                                                    *)
THEOREM OrdersImplementAccounts == UntilRetry => AccountSpec
<1>1. Init => Account!Init
  BY DEF Init, Account!Init, AccountPhase, Exists, Live, NetCollected
<1>2. Fresh /\ SplitInv /\ Books' /\ GoodsInv /\ GoodsInv' /\ [Next]_vars => [Account!Next]_accounts
  <2> SUFFICES ASSUME Fresh, SplitInv, Books', GoodsInv, GoodsInv', [Next]_vars
               PROVE  [Account!Next]_accounts
    OBVIOUS
  <2>1. CASE Next
    <3>1. PICK o \in Orders : MoneyStep(o) /\ MoneyAlone(o)
      BY <2>1, NextMoneyStep DEF SplitInv
    <3>2. OrderStep(o)
      BY <2>1, NextMoves
    <3>3. AccStep(o)
      BY <2>1, <3>1, <3>2, OrderAccountStep
    <3>4. \A z \in Orders : z # o => Acc(z)' = Acc(z)
      BY <3>1 DEF MoneyAlone, Acc, AccountPhase, Live, Exists
    <3> QED BY <3>3, <3>4, AccountMoves
  <2>2. CASE UNCHANGED vars
    BY <2>2 DEF vars, accounts, Acc, AccountPhase, Live, Exists
  <2> QED BY <2>1, <2>2
<1>3. Spec => []SplitInv /\ []Books
  BY SplitInvHolds, BooksBalance
<1> QED
  BY <1>1, <1>2, <1>3, FreshHolds, GoodsInvHolds, PTL
     DEF UntilRetry, Spec, AccountSpec, Account!Spec, accounts, Acc
==============================================================================

# BE-POS-App: a TLA+ verification project

BE-POS-App is the backend of a restaurant and retail point of sale: a Node.js
and Express API (`api/routes`, `api/controller`, `api/service`, `utils`) over
PostgreSQL through Sequelize (`db/models`, `db/migrations`), serving several
tenants and outlets. It runs as one or more long-lived servers, each with timers
for background jobs, or as serverless functions whose jobs an external cron
calls (`api/routes/internal.js`).

All shared state is in the database. A handler is a request: it reads rows,
decides, and writes in one or several transactions. What makes it hard is
therefore not memory but *rows*: a row read before a transaction and used in
it, a Sequelize instance that remembers what it read, a row lock taken or not
taken, a transaction that PostgreSQL aborts and the code runs again, a job
posted after commit that another process attempts as well.

This directory models the parts in which those things meet money, stock and
the books. Each module is translated from the code; `PROJECT.json` maps every
definition to the lines it stands for.

Contents

1. Inventory of the system
2. Modules, and how they correspond to the code
3. What the runs check, with their bounds and fairness
4. What is proved
5. Disagreements between the code and its own comments
6. What is only model-checked, what is not modelled
7. Plan

---

## 1. Inventory of the system

### Orders and their money

| part | state | operations |
|---|---|---|
| `controller/order.js` | `order`, `order_item` | `createOrder` (counter sale, paid at once), `createCustomerOrder` (QR order, unpaid), `updateOrderStatus` (settle, cancel, void, kitchen status), `updateOrderItemStatus` (kitchen cascade) |
| `controller/splitBill.js` | `split_bill` | `create`, `pay`, `cancel`, `merge` |
| `controller/pos.js`, `controller/salesReturn.js` | `sales_return` | `returnSalesOrder`, `approve`, `reject` |
| `service/orderFinancials.js` | none: derived from the payment ledger | `computeOrderFinancials` |
| `service/qrOrderExpiry.js` | `order` | `expireStaleQrOrders` |
| `service/loyaltyService.js` | `member_point_history` | award, reversal |
| `utils/deadlockRetry.js` | none | re-runs a transaction after a deadlock |

The code keeps no money column it trusts. It sums the payment ledger under the
order's row lock, derives one of UNPAID, PARTIALLY_PAID, PAID,
PARTIALLY_REFUNDED, REFUNDED or INVALID, and leaves a cache of it in
`order.paymentStatus`, which older code and reports read. All handlers meet on
the same order: tills settle, split, cancel and void it, the kitchen moves its
status, a manager approves returns, a timer expires it.

Correct means: money in and out stay within the total; no sequence of calls
reaches INVALID, which no handler can leave; the cache says what the ledger
says; the splits waiting for payment can all be paid; stock and points move
once with the money, and come back once; the books hear of each movement once;
an ended order stays ended.

### The books

| part | state | operations |
|---|---|---|
| `service/accountingOutboxService.js` | `accounting_outbox` | enqueue in the business transaction, immediate attempt after it, drain under `FOR UPDATE SKIP LOCKED` |
| `service/accountingService.js` | `journal_entry`, `journal_entry_line`, a counter per store | one writer per kind of entry, deduplicated under the counter lock |
| `service/accountingOutboxScheduler.js`, `routes/internal.js` | timers | drain every 30 s, or when cron calls |
| `controller/expense.js` | `expense`, `expense_payment` | create, edit, approve, reject, archive, delete, mark as paid |
| `service/expenseScheduler.js` | `expense` (templates and their children) | generates the children of recurring expenses, one per due date |

Correct means: every event reaches the books, once, although requests and
processes die, drains overlap and attempts fail; a reversal has its original;
an expense is in the books exactly when it is approved and active, at its
amount; a recurring expense is generated for each of its dates, once.

### Background jobs

`utils/schedulerLock.js` keeps a lease per job name in `scheduler_lock`. Five
schedulers take it: outbox, recurring expenses, shift swaps, payables
reminders, backups. Correct means: two processes do not run a job together, and
the job goes on when the holder dies.

### Stock, recipes and purchasing

`service/stockMutationService.js`, `batchService.js` and
`inventoryService.js` keep the stock of products per outlet and of ingredients
per batch (first expired, first out). Orders, returns, goods receipts
(`goodsReceipt.js`), purchase returns (`purchaseReturn.js`), transfers
(`goodsRequest.js`), production (`productionOrder.js`) and counting sheets
(`stockOpname.js`) all move it. `purchaseOrder.js`, `purchasePayment.js` and
`purchaseOrderFulfillmentService.js` follow what was ordered, received,
returned and paid. Correct means: stock is the sum of its history and the total
of its outlets; a count or a production order changes it once; quantities
received do not exceed those ordered, and are the ones put on the shelf and
booked; the bill follows receipts and returns.

### The till, the floor and the staff

`cashRegister.js` opens and closes registers, records cash put in and taken
out, and computes what a drawer should hold; `settlementAttribution.js` gives
every payment its register.
`table.js`, `tableRelease.js`, `reservation.js`, `queue.js` and
`waiter-request.js` say who sits where. `shift.js`, `shiftSwap.js`,
`attendance.js`, `overtime.js` plan staff. Correct means: a register closes
on the money of its own session and nothing is added to it afterwards, and a
movement asked for twice is recorded once; one table, one party; a decided swap stays
decided, and each employee is where it says.

### Customers, and the rest

`member.js`, `membership.js`, `membershipAssignmentService.js`, `promo.js`,
`promoUsageService.js` and `orderIdempotency.js` keep memberships, promotion
quotas and the answers to repeated requests. `accountsReceivable.js` and
`invoice.js` keep what customers owe. Catalogue, organisation, access rules,
reports, notifications, printing and assistant are records of one row,
read-only queries, or best-effort effects after the transaction.

### How components interact

- By rows: handlers share rows of the database and serialise on row locks,
  when they take them.
- By jobs: a transaction inserts an outbox row; its own request, drains of
  every server and cron calls attempt it.
- By instances: a handler that loads a row before its transaction carries the
  values it read into it. Sequelize writes only the columns that differ from
  what the *instance* holds, whatever the row holds by then.
- By time: leases and timers.

### Behaviours that are hard

`PROJECT.json` lists each at its line under `hazards`, with the properties
that would catch it. The recurring ones: stale instances
(`order.js:3006`, `expense.js:673`), a transaction that is run again
(`order.js:3215`), several attempts at one job, jobs out of order
(`accountingService.js:848`), unlocked look-then-write
(`accountingService.js:1201`), a lease shorter than its work
(`internal.js:56`), rows that are each checked alone and must hold together
(several splits, several returns, receipts within a tolerance), a register found
open and closed before it is used, and quantities that are zero.

---

## 2. Modules, and how they correspond to the code

| module | models | extends |
|---|---|---|
| `OrderFinancials` | the derived money state (pure operators) | |
| `OrderSettlement` | all handlers of an order's money, stock, points and jobs | `OrderFinancials` |
| `OrderAccount` | what those handlers promise about money (abstract) | |
| `AccountingOutbox` | the job queue, its attempts, drains and crashes, and the order journals | |
| `ExpenseJournal` | the expense handlers and the sync of their entries | |
| `SchedulerLease` | lease, timers, cron callers, crashes, time | |
| `RecurringExpense` | the recurring expense job under its lease, and payment marks | `SchedulerLease` |
| `OutletStock` | a product at its outlets and an ingredient, counted and produced | |
| `Procurement` | a purchase order, its receipts, returns and payments | |
| `CashRegister` | the registers of a store, payments, movements and cash expenses | |
| `MC...` | instances for TLC: constant values and symmetry | each its own |
| `SumTheorems` | lemmas on sums over finite sets | |
| `OrderSettlementProofs`, `AccountingOutboxProofs`, `ExpenseJournalProofs`, `RecurringExpenseProofs` (with the lease), `OutletStockProofs`, `ProcurementProofs`, `CashRegisterProofs` | theorems | their modules |

Operators called "Mutant" in a comment are plausible faults of the definition
next to them. They take no part in the specification: substituted for the
definition, each makes TLC report the property it is listed with, which shows
that the property can fail.

### OrderFinancials and OrderSettlement

*State.* `orders` are the columns of the order row that the handlers decide on
(status, cached paymentStatus, total, channel, whether a member is attached).
`ledger` holds the three sums the code takes from its payment tables:
collected, refunded, and the amount of approved returns. `splits` and
`returns` are rows. `stock`, `points` and `jobs` are what the sale history,
the point history and the outbox record for the order. `requests` are calls of
`updateOrderStatus` in flight: each carries the instance loaded before the
transaction.

*Steps.* Creation, splits, returns and expiry lock the order (or insert it)
and do everything in one transaction: one action each, with the trailing work
of the handler inside it (retiring splits, re-deriving the cache, moving stock
and points, enqueueing jobs). `updateOrderStatus` is two steps, `LoadOrder`
and one of `Settle`, `EndOrder`, `SetStatus` or `Refuse`: `Saved` is
Sequelize's rule of writing a column only when it differs from the instance.
`AbortByDeadlock` is the rollback after which `withDeadlockRetry` runs the
callback again: the rows are as before, the instance is not. `CascadeItemStatus`
is the kitchen cascade's unlocked read and guarded update. The code checks the
final state again before it commits (`Commits`).

*Abstractions.* One order line of `Units` units; one point per unit; a
shortfall is what the outlet cannot cover when stock leaves. Tenders,
references, registers and prices only refuse or set the total.

`OrderAccount` states, without rows, what this is about: an account is opened,
paid down, may hand back what it holds, and closes empty. `AccountSpec` is the
refinement mapping from an order's rows to its account.

### AccountingOutbox

*State.* `outbox` rows with status and attempts and `births`, their createdAt
order; `journal`, the number of live entries per order and kind; `requests`,
what a request that enqueued jobs still has to attempt; `drains`, the rows each
drain has locked and the outcomes it will write when its claiming transaction
commits.

*Steps.* `SettleOrder` and `ReverseOrder` are the business transactions.
`AttemptLeg`, `AttemptFails` and `RecordImmediateAttempt` are the request's own
attempt: the record is made from the instance of the enqueue, so it restarts
the attempts from one and waits for a drain's lock. `Claim`, `DrainLeg`,
`DrainFails` and `Commit` are a drain. A handler posts one entry per leg, each
in a transaction serialised by the store's counter; only the reversal has two.
`Crash` takes the rest of a request's attempts, or rolls a drain's claiming
transaction back and leaves what it posted.

### ExpenseJournal

*State.* The columns of `expense` that decide whether it is in the books, the
entries in the order they were posted, the sync jobs not yet posted, the
requests with the row they loaded, and the attempts with the row and the entry
they saw.

*Steps.* Every handler but creation is `Load`, with the guard of approve and
reject, then its transaction. An attempt is `ReadExpense`, `FindEntry`, `Write`
(post under the counter lock, rewrite under the entry's lock, or remove by id)
and `MarkPosted`; it may fail anywhere, and the job stays. How often it may
fail, and what claims it, is AccountingOutbox's.

### SchedulerLease

*State.* The lease row as its holder and the time left, servers up or down, the
time left of each server's interval, and how long each run has taken. Time is
relative, so the state space is finite without cutting it.

*Steps.* `Tick` and `CronCall` make the conditional upsert; `Finish` ends a run,
`Crash` a server, `TimePasses` lets one unit go by, never past a timer that is
due or a run at its longest.

### RecurringExpense

*State.* SchedulerLease's, and on top of it the calendar day, the next due date
of each template, how many expenses and entries each date has, the payments
recorded, what every run has read and where it is, and the payment requests
with the due date they read.

*Steps.* A run begins when `Tick` or `CronCall` acquires the lease.
`ReadTemplates` is its one `findAll`, with its order and limit; `TakeTemplate`
and `Generate` are the two loops. `Generate` is one transaction that creates the
expense and saves the *instance's* next date, whatever the row holds by then,
while the journal entry is posted outside of it and may fail (`posted`). `Fail`
is any error the tick catches around the whole run (a query, the template's save
or a commit): it ends the run, and the transaction that is rolled back may have
posted its entry before; `Die` is the same with the process (`Abandon` is what
they share). The first due date is a period after the template's own, whether or
not it has ended by then; later ones look at the end date (`After`). The history
variables `crashes`, `rollbacks` and `unposted` count the accidents. `markPaid` is `LoadForPayment` and `MarkPaid`, which
moves the same date without a lock and starts an ended template again from its
own date.

*Abstractions.* Dates are numbers and a period is a number of days, within
`LastDay`. Which account an expense is for makes no difference.

### OutletStock

*State.* `product.stock`, the row of each outlet in `product_store_stock` (or
none), what is left of its batches, and the sums of `stock_history`; one
ingredient with its history; counting sheets, production orders, and the
requests that have read one of them.

*Steps.* `stockMutationService` and `batchService` lock what they change, so a
movement is one step: `Sell` (settlement mode: takes what there is), `Receive`,
`TakeOut`, `WriteOff`, `Use`, `Enter`. `Shift` keeps the two floors at zero and
the seed of a missing row: `adjustProductStock` seeds it with the stock of the
whole product. `setProductStock` adds the difference to the *total*, wherever it
was counted. Sheets and production orders are read without a lock
(`LoadSheet`, `LoadOrder`); only `CompleteSheet` reads again under one. A start
of production locks the ingredient its recipe refers to by id (`Start`); one that
the recipe only names is read without a lock (`FindByName`) and written as an
absolute value (`StartByName`), and the history variable `drift` sums what that
overwrites. A reversal gives the ingredient back only where the recipe refers to
it by id (`restores`). The deletion of a sheet destroys its lines and the sheet in two steps and may end
between them.

*Abstractions.* One product, one ingredient and one line per sheet; batches are
their sum per outlet; costs are left out.

### Procurement

*State.* The order row with its live line, what direct receiving added to each
line, receipts and returns with their one line, the stock, the purchase jobs
enqueued per receipt, what each request has read, and `lost`, a history
variable: what floors at zero left out when goods already gone were reversed.

*Steps.* The handlers of `purchaseOrder.js` read the order unlocked: `Load`,
then one step on what was seen, with the quantities checked again under the
line's lock where the code does so (`Room`). An edit with items destroys the
line and makes another (`ReplaceLine`), so a receipt may name a line that is
gone. Receipts and returns lock their own header; only `changeStatus` of a
receipt loads its items before (`LoadReceipt`, `CompleteReceipt`).
`Fulfilled` is the recomputation of the order's status at the end of a handler,
in those handlers that make it.

Receipts and returns move `Conversion` base units of stock for each unit
(`QtyStock`); `receive` and `cancel` of the order move the quantity as it is
written. A receipt may name the line twice, where the second mention is checked
alone (`again`). `cancel` of an order that is received, on which nothing counts as
received, takes its completed receipts back in three steps, as it takes no lock:
`FindReceipts`, `ReadStock`, and `TakeReceiptsBack`, which writes an absolute
stock.

*Abstractions.* A unit costs 1, so a bill and its quantity are the same number.

### CashRegister

*State.* Registers in the order they were opened, with the account frozen at
their close and what was decided of its variance; the cash rows of the
transaction table by register; movements; collecting and movement requests in
flight; cash expenses with the register that was open when they were entered.

*Steps.* `FindRegister` is the unlocked search of `settlementAttribution.js` and
`AttributeTender` the share lock it then takes: if the register was closed
meanwhile, the payment is refused. A movement is `AskMovement`, with the look
for its idempotency key, and `RecordMovement` under the register's lock, where a
key used meanwhile violates the unique index and is answered like a repeat.
`Close` computes and freezes the account under the update lock.

*Abstractions.* An account is the *set* of records it adds up, which two sums
cannot hide a difference of; of an amount only its side of the approval
threshold and whether two are equal matter. An expense soft-deleted is still
counted, as by the query.

---

## 3. What the runs check

Passing runs, on every behaviour within the bounds:

| run | question | bounds |
|---|---|---|
| `order_settlement` | do money, cache, splits, returns, stock, points and jobs agree under all order handlers, and does the order implement its account? | 1 order, 3 splits, 2 returns, 1 request, totals 0 and 3 over 2 units |
| `order_races` | do two requests with stale instances move stock twice, spoil the cache or reopen an ended order? | 2 requests, 1 split, 1 return, total 3, shortages of 0 or 1 |
| `order_deadlocks` | does the ledger stay within its bounds when a transaction is killed and run again? | 1 request, 2 aborts, at most 2 reversals |
| `outbox_safety` | is each event posted once, whoever attempts it? | 1 order (3 jobs), 2 drains, 2 attempts, 1 crash |
| `outbox_liveness` | is every job decided at last? | as above, 1 drain |
| `expense_sync` | do the books follow the expense, is it in them once, and does what was removed stay removed? | 1 expense, 2 requests, 2 attempts, 3 calls, amounts 1 and 2 |
| `lease_safety` | does the lease exclude, and does the job go on? | 2 servers, 1 cron caller, the code's numbers in units of 5 s, runs of up to 45 s |
| `recurring_job` | is every due date generated, once, and do books and expenses differ by no more than what went wrong, whoever dies, fails or marks a template as paid? | 1 server, 1 cron caller, 2 daily templates (1 paid by hand), 4 days, batches of 1, 2 expenses per template and run, 1 crash, 1 error that ends a run, 2 failed postings |
| `outlet_stock` | does the history explain the stock, and does a count reach it once? | 2 outlets, 1 sheet, 1 production order, 2 requests, opening 3, ingredient 2, 2 movements of 1 or 2 |
| `procurement` | are goods on the shelf, received quantities and jobs those of the documents? | 1 receipt, 1 return, 2 requests, 1 ordered, 2 base units to a unit, tolerance 10 %, quantities 1 and 2, a second mention of 1, 1 replacement of the line |
| `cash_register` | does a closed register stay as it was counted, and is who is told "recorded" told the truth? | 1 payment, 2 movement requests, 1 key, amounts on both sides of the threshold, 1 expense, 2 registers, 2 movements |

*Why the bounds are enough for the cases meant.* Nothing the order handlers do
relates two orders, so one is enough; three splits allow a merge of two beside
a third, and a partial payment before the last; two returns allow one pending
beside one approved; a total of 3 over 2 units makes the shares of a return
round (1 unit is worth 1.5). Two requests suffice for a stale instance: one
that loads and one that commits in between. Two drains and a request are three
parties on one row, all kinds of attempt the code has; two attempts include the
failure that is retried and the one that exhausts. Three calls create an
expense as approved and let an edit and a deletion race with its sync. `lease_safety`
uses the code's own ratio of interval, lease and cron lease. In
`recurring_job` a batch smaller than the templates and a limit smaller than the
dates due make both limits bite, and the cron caller's run overlaps the
server's. In `outlet_stock` two requests race on one sheet or one order, an
outlet may lack its row, and two movements beside the count and the production
order reach every floor. In `procurement`
two requests race for the room of the line, and 1 unit under a tolerance of
10 % rounds to 2; 2 base units to a unit tell a converted quantity from one that
is not. In `cash_register` two asks share a key with equal or different
bodies, and a second register shows what is attributed after a close.

*Deadlock* is checked where the system never stops: orders, the lease and the
recurring job. The other instances may reach a state in which all jobs are
decided or every document ended, or in which the bounded calls, movements and
registers are used up, and stop there.

*Constraint.* `order_deadlocks` cuts behaviours after two reversals: a cancel
whose status is lost (see below) can be asked for again without end.

*Fairness.* `outbox_liveness` assumes `WF_vars(Drain)`: some drain keeps being
started and its database calls end, one way or the other, which is what
`setInterval` on a running server or the cron schedule gives. Attempts may all
fail; requests are promised nothing and may die. `lease_safety` assumes that
time passes, that a server that is up reacts to its timer and that runs end;
nothing is assumed of cron callers, of starting, or of crashes.
`JobKeepsRunning` asks for one server that stays up, no matter which, and
whatever the others do. `recurring_job` assumes the same and that a run, once it
has the lease, goes on with its loop. Errors that end a run come to an end
(`MaxRollbacks`): were saving the most overdue template to fail for ever, it would
end every run before the others are reached, and the code does nothing about it.

---

## 4. What is proved

TLAPS checks the following for every value of the constants that satisfies the
modules' assumptions (which TLC evaluates in every run). Every safety invariant
and action property of a passing run is stated by a theorem, and so is the
refinement of `OrderAccount`. Where a theorem has a hypothesis of its own it is
named here, with what goes wrong without it.

### Orders

`OrderSettlementProofs`, for all orders, splits, returns, workers, totals,
units, shortages, repeats and deadlock retries:

- `TypeCorrect`: `Spec => []TypeOK`. Not shallow here: ledger sums are natural
  numbers and the cache is one of four values only because of the guards.
- `LedgerStaysBounded`: refunded <= collected <= total, always.
- `EndedOrdersStay`: no step reopens an ended order or moves its money.
- `SplitsStayCovered`: the splits that wait belong to an order open for
  collection and together ask for no more than is due, for any number of splits,
  merges and payments.

None is inductive alone. The invariant of the first three is `Books`: types;
what an order that does not exist has (nothing); rows name orders that exist;
points reversed within those earned; approved returns within refunds; a cache of
`paid` or a refund implies that all was collected; the ledger bounds.
`RowsHaveOrder` is needed to speak of a split's order at all; `ApprovedRefunded`
and `PaidIsCollected` keep what is outstanding from becoming negative when a
return is approved or a split paid. One lemma per action shows that it keeps
`Books` (`CreateOrderBooks`, ..., `CascadeItemStatusBooks`), and `NextBooks` puts
them together. The deadlock retry is inside: the ledger stays bounded even where
a retry loses the status.

`SplitInv` adds to `Books` that a pending return has an order with nothing due
(`ReturnsWait`), that a kitchen request never targets a terminal or paid status
(`CascadeTargets`) and `Covered`, the property in terms of the room left in the
ledger. It needs sums over a changing set of splits; the library's
`SumFunctionOnSet` is a fold, and `SumTheorems` proves what is used of it: sums
exist, are natural, lose a member's value when it leaves, add over disjoint
sets, grow with the set, follow one value that changes.

What moves with the money is proved for any `MaxDeadlocks`, of `UntilRetry`: the
behaviours, or the part of one, in which `withDeadlockRetry` has not yet run a
callback again (`NoRetry` says of a step that it does not):

- `StockMovesOnce` (`StockOnce`), `PointsComeAndGo` (`PointsFollowGoods`),
  `BooksHearOnce` (`JobsFollowMoney`), `RefundsStayReserved`
  (`RefundsReserved`);
- `ReturnsStayWithinSale` (`RestoredWithinSale`), where besides the outlet is
  never short (`Shortfalls = {0}`) and a return names a line once
  (`LineRepeats = {1}`);
- `StaysReconciled` (`NeverUnreconciled`) and `CacheStaysTrue` (`CacheAgrees`),
  while `Alone` holds: no two requests are in flight at one order of total 0.
  Orders with something to pay may be raced by any number of stale requests;
- `OrdersImplementAccounts`: `UntilRetry => AccountSpec`. Each handler maps to one
  step of the order's account, or to a stutter: opening, paying, refunding what
  is held, closing empty.

The invariant is `GoodsInv`, beside `SplitInv`. Per order it ties every record
to the ledger: the cache is the one the ledger calls for and what was refunded
was approved (`Reconciled`); stock left once if and only if all was collected,
and came back with the approved units or wholly (`GoodsMoved`); the same for
points (`PointsMoved`) and jobs (`JobsSent`); claims of returns are covered by
what is held and sold (`ReturnsOK`). Per request, `Informed` says what a stale
instance may still claim. Since two orders share nothing, one lemma lifts a step
of one order to all (`OneOrder`). The cache on ended orders is a second
invariant, `FreeInv`.

`Fresh`, that every request is in its first attempt, is what `UntilRetry` gives
(`FreshHolds`).

The hypotheses are needed. With retries TLC violates `StockOnce`,
`PointsFollowGoods`, `JobsFollowMoney`, `RefundsReserved`, `NeverUnreconciled`
and `AccountSpec` on the instance of `order_deadlocks` (a lost status leaves a
reversed order live: `RetryLosesStatus`), and `RestoredWithinSale` where the
total is 0; with short outlets `RestoredWithinSale` fails (`ShortSaleReturn`),
with a line named twice too, and with totals of 0 and two requests
`NeverUnreconciled` and `CacheAgrees` (section 5).

### The outbox

`AccountingOutboxProofs`, for any orders, drains, requests and attempts:
`NeverPostedTwice` (`PostedOnce`), `OnlyPostedReversed`
(`ReversalHasOriginal`), `PostedIsTrue` (`PostedMeansEntry`), `DrainsExclude`
(`ClaimsExclusive`), `TypeCorrect`, and the action property `PostedForGood`
(`PostedIsFinal`). The invariant is `OutboxInv`: the places of rows order them as
they were created, and only the sale and the cost of one order share one
(`BirthsOK`, which is what makes "the oldest first" mean that the sale is
attempted before its cost); a posted row has its entry (`RowsOK`); a request that
is about to record a success has posted it (`RequestsOK`); rows locked by a drain
wait, have attempts left, and are locked once (`DrainsOK`). `PostedForGood`
assumes `MaxAttempts > 1`, as in the code (`MAX_ATTEMPTS` is 5): the failure a
request records late restarts the count at one, and were one attempt the limit
it would write `failed` over a drain's `posted`.

### Expenses, the lease and the recurring job

`ExpenseJournalProofs`, for any number of expenses, requests and attempts:

- `ExpenseTypeCorrect`; `BookedOnceEach` (`OneLiveEntry`); `RemovedForGood`
  (`RemovedStays`). The invariant is `JournalInv`: types, what a request or an
  attempt under way has loaded, and the property. Only `Write` touches the
  entries, and `WriteEffect` says how.
- `BooksRight`: where no amount is zero, `BooksFollowExpense`. The invariant is
  `BooksInv`, with `JournalInv` and: every change has a call number of its own,
  so that a handler's job is a new one (`CallsOK`); nothing refers to an expense
  that was never created (`AbsentOK`); an expense without an amount has no entry
  (`ZeroOK`); an entry found is of the job's expense (`FoundOK`); an expense whose
  attempts never overlapped has one attempt at most (`AloneOK`), and what that one
  saw is so or another job is left, and what it did is what it saw (`OnlyOK`).
  `0 \notin Amounts` is necessary (section 5).

`RecurringExpenseProofs`, for any servers, cron callers, templates, periods,
clerks, days and crashes:

- `LeaseExcludes` (`RunsDisjoint`): if no run is longer than the shortest lease,
  no two processes ever run the job together. The invariant is that whoever works
  holds the lease, and that what is left of it and the time worked add up to what
  it asked for. That the hypothesis is needed is shown by `LeaseLongRun.cfg`.
- `JobKeepsLease`: every behaviour of the recurring job is one of the lease
  (`SpecR => Spec`), so the theorem above holds of the job.
- `NoDateIsLost` (`NothingSkipped`), without any hypothesis on the lease. A due
  date has many copies: the row, what a run read, what it has in hand, what a
  clerk's request read. The invariant `DatesGood` says of each that it is on the
  template's grid and leaves no date out before it, which a copy keeps however
  old it gets, since expenses and payments only accumulate. `NextDateIsGood` is
  the step from a date that is met to the next.
- `OneExpensePerDate` (`OncePerDueDate`), under the hypothesis of
  `LeaseExcludes`: a row of a template only the job moves is ahead of every
  expense made (`RowAhead`) and whoever holds a copy of its date holds the row's
  own (`HeldIsRow`); the lease is what makes that one process at most.
- `EntriesAccounted` (`EntriesMatchExpenses`): summed over all templates and
  dates, entries without an expense are at most as many as crashes and errors
  that ended a run, and expenses without an entry at most as many as failed
  postings; and
  `RecurringTypeCorrect` (`RecurringTypeOK`).

### Stock, purchasing and the till

`OutletStockProofs`, for any finite set of outlets, and any sheets, production
orders, requests, quantities and counts:

- `TypeCorrect` (`StockTypeOK`): no stock becomes negative, whatever sells,
  counts or produces; `HistoryExplains` (`IngredientIsHistory`: where it began,
  plus its history, plus `drift`, which only a start by name moves);
  `OutletsCovered` (`OutletCoversHistory`); `CountedOnce` (`SheetOnce`).

Together these four are inductive, with what a start by name has found: no less
than it takes (`Enough`). The invariant `StockInv` cuts their
conjunction the other way (`InvIsAll`): what concerns the product, the batches,
the ingredient, the sheets, the orders, the requests and the moves, so that each
step disturbs one or two parts. There is one lemma per group of steps.

`ProcurementProofs`, for any receipts, returns and requests, quantities,
tolerance, conversion and number of replacements of the line:

- `StockIsDocumented` (`StockFollowsDocuments`), `LineIsCounted`
  (`ReceivedIsCounted`), `ToleranceHolds` (`WithinTolerance`),
  `ReceiptsBookedOnce` (`BookedOnce`), `ProcurementTypeCorrect`. They say of the
  stock what each handler moves in its own unit, while no cancel took receipts
  back, and of the tolerance while no receipt is drafted or names the line twice:
  section 5 has what happens otherwise.

The invariant `ProcurementInv` adds to them what a receipt is once it was made
(`ReceiptsOK`: a completed one is posted, one in draft was drafted, and it names a
line made before), that nobody has seen a line that is yet to be made, nor
received on it (`LinesOK`), and that nothing precedes the order (`AbsentOK`). The
line that replaces another therefore starts with nothing, and receipts of the old
one never count on it. Steps on one receipt all follow `OneReceipt`, which takes
what the receipt held before and after out of the sums; a cancel takes several
receipts out at once (`TotalWithout`). That `received` never floors at zero when
something is unwound comes out of the proof: it is at least what is unwound.

`CashRegisterProofs`, for any payments, asks, keys, amounts and expenses:

- `ClosedRegistersFinal` (`ClosedIsFinal`), `AnswersTrue`
  (`AnswerMeansRecorded`) and `CashTypeCorrect`. The invariant `CashInv` adds to
  the properties that one register has at most one movement per key (`KeysOK`)
  and that an answer was given for such a movement (`AnswersOK`).

---

## 5. Disagreements between the code and its own comments

One is a run that fails, `outbox_reversal`, and an entry under `findings` with
the quotation: a reversal attempted before its sale is posted finds nothing,
counts as posted, and the sale stays in the books.

The others are instances, beside the runs, on which TLC reports the invariant or
property that the configuration names:

| configuration | fails | what happens |
|---|---|---|
| `RetryLosesStatus` | `NeverUnreconciled` | `updateOrderStatus` re-runs its callback with the instance of the first run, which holds the new status; Sequelize sees no change and writes none. Money is reversed on an order that stays live: INVALID |
| `ShortSaleReturn` | `RestoredWithinSale` | a sale that took less than it sold gives back in full |
| `ExpenseTwoSyncs` | `NeverReverts` | the attempt that read first writes last: an old state of the expense is booked, all jobs posted (`accountingService.js:1201`) |
| `LeaseLongRun` | `RunsDisjoint` | nothing renews the lease and nothing bounds the run, although the comment at `internal.js:50-53` says that a cron call and a server never drain concurrently |
| `RecurringRestarts` | `NoDuplicates` | marking an ended template as paid starts it again from its own date, and its expenses are generated again (`expense.js:757-769`) |
| `OutletCount` | `CountStands` | the difference of a count is taken to the stock of all outlets and added to the one that was counted (`stockMutationService.js:162`) |
| `OutletTotals` | `TotalFollows` | a receipt at an outlet without a row seeds it with the stock of the whole product |
| `ProductionRestores` | `RestoredWasTaken` | `changeStatus` to in progress takes no ingredient, and a cancel from there gives some back (`productionOrder.js:376`) |
| `SheetDecided` | `AppliedStays` | a cancel that read a draft overwrites the sheet that was completed meanwhile (`stockOpname.js:1044`) |
| `ProcurementCredit` | `CreditStands` | an edit of the header computes the bill anew from the lines and drops the credit of an approved return |
| `ProcurementUnits` | `StockInBaseUnits` | `receive` adds the quantity of the order's unit to a stock in base units (`purchaseOrder.js:1146`), where a receipt converts it (`goodsReceipt.js:936`); `purchaseReturn.js:1138-1144` and its test (`__tests__/purchase-return-uom-conversion.test.js:14`) speak of stock in base units |
| `ProcurementCancel` | `StockFollowsCancel` | the cancel of a received order takes unconverted quantities from a stock it read without a lock, and writes the result (`purchaseOrder.js:1389-1450`) |
| `OutletByName` | `HistoryIsAll` | a start of production whose recipe names its ingredient overwrites what others did to it since it was read (`productionOrder.js:543-571`) |
| `LateExpense` | `SpentIsFinal` | an expense approved after the close would have changed what the register should hold; the comment at `cashRegister.js:207` admits it |

The runs keep to what holds beside them: `NeverUnreconciled` without retries,
`RestoredWithinSale` with full stock, `BooksFollowExpense` of every expense
whose attempts did not overlap (`raced` is a history variable and nothing the
code keeps), `RunsDisjoint` with runs no longer than the lease, `OncePerDueDate`
of templates nobody marks as paid and runs within the lease, `OutletCoversHistory` and
`IngredientIsHistory` where totals diverge, `ClosedIsFinal` of payments and
movements.

Further properties of `Procurement` that the code does not keep, each violated
in the instance of its run when checked in place of the others:
`BookedAsReceived` (the job of a completed receipt takes its lines from a read
before the lock, `goodsReceipt.js:2058`), `CancelledHasNothing` (a cancel decides
on what it read, `purchaseOrder.js:1367`), `NeverOverDelivered` (a draft is
checked when it is made, not when it is posted; and a receipt that names one line
twice passes each check alone, since duplicates are looked for by item
(`goodsReceipt.js:723-738`) and what was received is an SQL expression after the
first mention (`goodsReceipt.js:903-955`): `WithinTolerance` is about receipts that
do neither). `setProductStock` says that a mutation made meanwhile is added on top
of the count; the final total is the count.

Other values of the constants fail too, and the runs stay within them on
purpose:

- `LineRepeats = {1, 2}`: a return that names an order line twice is checked per
  mention (`pos.js:1588`), and its approval restores more than was sold
  (`RestoredWithinSale`).
- `Totals = {0}` with two workers: the cache is saved through an instance that
  reads `unpaid`; the row, `paid` by a zero-payable completion in between, keeps
  it after a cancel (`CacheAgrees`; `order.js:3749`).
- `0 \in Amounts`: an approved expense edited to 0 keeps its entry
  (`BooksFollowExpense`; `accountingService.js:972`).

`approve` and `reject` of an expense decide on the row loaded before their
transaction, so one decision may overwrite another (`expense.js:673`); the books
follow whichever was written last. A scheduler that holds the lease cannot renew
it (`schedulerLock.js:24`), although the comment above it says that it re-claims
it every tick; the job merely runs less often.

---

## 6. What is only model-checked, what is not modelled

Only model-checked: the liveness properties `EventuallyDecided`,
`JobKeepsRunning` and `DueIsGenerated`, whose proofs need fairness and ENABLED,
beyond the prover; and what the instances of section 5 show, which are
counterexamples. What holds with deadlock retries is proved of the ledger, the
splits and the ended orders only; the rest fails there. Nothing proved is about
RECURSIVE operators or induction over data, which the prover cannot do: sums are
handled through `SumTheorems`, which goes by the smallest counterexample among
the subsets of a finite set.

Not modelled in the modelled parts:

- orders: tenders, change, prices and taxes; the table; tiers and rates of
  points;
- books: payloads of jobs and the lines of journal entries; the job types other
  than those of an order, an expense and a receipt; salary generation
  (`expense.js:1165-1326`); edits of a template's date or frequency, and its end
  or rejection during a run;
- stock: edits of a product (`product.js`), `reconcileService`, products made of
  other products, bundles, batch by batch order and costs;
- procurement: down payments and credit limits, idempotency keys, batches and
  costs, replacement orders, the deletion of a payment, the moment between the
  destruction of a line and the creation of the next inside one edit, receipts
  created as cancelled;
- registers: the sums and reports, the clearing of tables at opening, the clocks
  of several servers that decide which register was open at an expense;
- PostgreSQL itself, beyond row locks, rollback and unique indexes. Handlers are
  modelled after their access checks.

`PROJECT.json` lists every other component with the reason: those of the plan
below; read-only reports; records of a single row; best-effort effects
(notifications, sockets, printing); external commands (backups). The larger part
of the code is of that kind: validation schemas, seeders, reports, one-row
records and the formatting of answers, which no state of more than one actor
depends on.

---

## 7. Plan

Next, in order of what could go wrong with money and goods:

1. `TableOccupancy`: QR orders, release, reservations and the release at the
   end of a paid QR order.
2. `ShiftSwap`: decisions, cancel and the expiry sweep; relocation of two
   employees.
3. Goods requests: transfers between outlets, over `OutletStock`.
4. `OrderIdempotency`, `PromoUsage`, memberships, receivables; salary
   generation.
5. Batches first expired, first out, and recipes, as a refinement of
   `OutletStock`'s sums.

Proofs, next to those of the modules above: an abstract specification of
procurement (what is on the shelf and what is billed) with its refinement; that
`OutletStock` implements a counter per outlet where every outlet has its row;
`RestoredWithinSale` with retries where totals are positive; and that whoever
completes a sheet or a receipt applies what was last written to it.

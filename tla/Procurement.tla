----------------------------- MODULE Procurement -----------------------------
(***************************************************************************)
(* One purchase order of one line, with its goods receipts, purchase       *)
(* returns and payments (purchaseOrder.js, goodsReceipt.js,                *)
(* purchaseReturn.js, purchasePayment.js and                               *)
(* purchaseOrderFulfillmentService.js).                                    *)
(*                                                                         *)
(* Handlers of the order itself read the order without a lock and write    *)
(* through that instance; handlers of receipts and returns lock their own  *)
(* header, and check quantities against order lines they lock.  A handler  *)
(* that decides on an unlocked read is a Load and a step that uses what    *)
(* was seen; the others are one step.  Quantities are in the unit of the   *)
(* purchase, which costs 1; stock is in the base unit.                     *)
(***************************************************************************)
EXTENDS Integers, Sequences, FiniteSets, FiniteSetsExt, Functions

CONSTANTS
  Receipts, Returns, Requests,
  Ordered,      \* quantity of the line
  Tolerance,    \* overDeliveryTolerance, in percent
  Conversion,   \* conversionToBase: base units in a unit of the line
  Quantities,   \* what a receipt, a direct receiving or a return may name
  Repeats,      \* what a receipt that names the line a second time may name there
  Payments,     \* the amounts paid
  MaxEdits      \* bound on the edits that replace the line

ASSUME ProcurementAssumption ==
  /\ IsFiniteSet(Receipts) /\ IsFiniteSet(Returns)
  /\ Ordered \in Nat \ {0} /\ Tolerance \in 0..100
  /\ Conversion \in Nat \ {0}
  /\ Quantities \subseteq Nat \ {0} /\ Repeats \subseteq Nat \ {0} /\ Payments \subseteq Nat \ {0}
  /\ MaxEdits \in Nat

VARIABLES
  po,         \* the order row, and its live line: line is the line's id
  direct,     \* per line, what PO receive has added
  receipts,   \* goods receipts, each with one line
  returns,    \* purchase returns
  stock,
  jobs,       \* per receipt, the quantities in its purchase_journal jobs
  requests,   \* what each request in flight has read
  lost        \* history: what GREATEST(stock - q, 0) left out

vars == <<po, direct, receipts, returns, stock, jobs, requests, lost>>

Lines == 1..(MaxEdits + 1)
OrderStatus == {"absent", "draft", "pending", "ordered", "received", "cancelled", "deleted"}
NoReceipt == [status |-> "absent", line |-> 0, qty |-> 0, posted |-> FALSE, loose |-> FALSE]
NoReturn == [status |-> "absent", qty |-> 0]
Idle == [kind |-> "idle"]

SawOrder == [kind: {"order"}, status: OrderStatus, line: Lines, received: Nat, final: Nat]
SawReceipt == [kind: {"receipt"}, receipt: Receipts, qty: Nat]
(* What the cancel of a received order has read so far.                    *)
SawReceipts == [kind: {"receipts"}, taken: SUBSET Receipts]
SawStock == [kind: {"stock"}, taken: (SUBSET Receipts) \ {{}}, shelf: Nat]

ProcurementTypeOK ==
  /\ po \in [status: OrderStatus, line: Lines, received: Nat, final: 0..Ordered, paid: 0..Ordered]
  /\ direct \in [Lines -> Nat]
  /\ receipts \in [Receipts -> [status: {"absent", "draft", "completed", "cancelled", "deleted"},
                                line: 0..(MaxEdits + 1), qty: Nat, posted: BOOLEAN, loose: BOOLEAN]]
  /\ returns \in [Returns -> [status: {"absent", "pending", "approved", "rejected"},
                              qty: Quantities \cup {0}]]
  /\ stock \in Nat
  /\ jobs \in [Receipts -> Seq(Nat)]
  /\ requests \in [Requests -> {Idle} \cup SawOrder \cup SawReceipt \cup SawReceipts \cup SawStock]
  /\ lost \in Nat

Init ==
  /\ po = [status |-> "absent", line |-> 1, received |-> 0, final |-> 0, paid |-> 0]
  /\ direct = [l \in Lines |-> 0]
  /\ receipts = [g \in Receipts |-> NoReceipt]
  /\ returns = [x \in Returns |-> NoReturn]
  /\ stock = 0
  /\ jobs = [g \in Receipts |-> <<>>]
  /\ requests = [r \in Requests |-> Idle]
  /\ lost = 0

-----------------------------------------------------------------------------
Ceil(n, d) == (n + d - 1) \div d
MaxDeliverable == Ordered + Ceil(Ordered * Tolerance, 100)
Exists == po.status \notin {"absent", "deleted"}
HasLine(l) == Exists /\ l = po.line      \* a destroyed line is never found

(* qtyStock: what receipts and returns move of the stock.                  *)
QtyStock(q) == Conversion * q

Total(documents, S) == SumFunction([d \in S |-> documents[d].qty])
ApprovedQty(rets) == Total(rets, {x \in Returns : rets[x].status = "approved"})
Claimed == Total(returns, {x \in Returns : returns[x].status # "rejected"})

(* calculatePurchaseOrderFulfillmentStatus *)
Fulfilled(p, rets) ==
  IF p.status \in {"cancelled", "deleted"} THEN p
  ELSE [p EXCEPT !.status =
          IF Max({0, p.received - ApprovedQty(rets)}) >= Ordered THEN "received" ELSE "ordered"]

Counted(p, l, q) == IF HasLine(l) THEN [p EXCEPT !.received = @ + q] ELSE p
Uncounted(p, l, q) == IF HasLine(l) THEN [p EXCEPT !.received = Max({0, @ - q})] ELSE p

(* reverseStock's adjustProductStock stops at zero. *)
TakeBack(q) ==
  /\ stock' = Max({0, stock - q})
  /\ lost' = lost + Max({0, q - stock})

Done(r) == requests' = [requests EXCEPT ![r] = Idle]

-----------------------------------------------------------------------------
(* The order.  create takes the status from the client. *)
CreateOrder ==
  /\ po.status = "absent"
  /\ \E s \in OrderStatus \ {"absent", "deleted"} : po' = [po EXCEPT !.status = s, !.final = Ordered]
  /\ UNCHANGED <<direct, receipts, returns, stock, jobs, requests, lost>>

(* findOne without a lock, in every handler below that takes a request. *)
Load(r) ==
  /\ requests[r] = Idle /\ Exists
  /\ requests' = [requests EXCEPT ![r] =
       [kind |-> "order", status |-> po.status, line |-> po.line,
        received |-> po.received, final |-> po.final]]
  /\ UNCHANGED <<po, direct, receipts, returns, stock, jobs, lost>>

Saw(r) == requests[r].kind = "order"

(* The row as the instance saves it: a deleted order is not brought back. *)
Save(p) == po' = IF po.status = "deleted" THEN po ELSE p

SendToSupplier(r) ==
  /\ Saw(r) /\ requests[r].status = "pending"
  /\ Save([po EXCEPT !.status = "ordered"])
  /\ Done(r)
  /\ UNCHANGED <<direct, receipts, returns, stock, jobs, lost>>

(* The bill is computed anew from the lines, and saved when the instance   *)
(* that was loaded differs from it.                                        *)
Billed(p, saw) == IF saw.final = Ordered THEN p ELSE [p EXCEPT !.final = Ordered]

(* update: the header alone, draft to pending included. *)
UpdateOrder(r, activate) ==
  LET saw == requests[r]
  IN /\ Saw(r) /\ saw.status \notin {"received", "cancelled"}
     /\ activate => saw.status = "draft"
     /\ Save(Billed([po EXCEPT !.status = IF activate THEN "pending" ELSE @], saw))
     /\ Done(r)
     /\ UNCHANGED <<direct, receipts, returns, stock, jobs, lost>>

(* update with items: the line is destroyed and made anew, with what the   *)
(* old one had received when it was read, which is nothing.                *)
ReplaceLine(r) ==
  LET saw == requests[r]
  IN /\ Saw(r) /\ saw.status \notin {"received", "cancelled"} /\ saw.received = 0
     /\ po.line <= MaxEdits /\ Exists
     /\ po' = Billed([po EXCEPT !.line = @ + 1, !.received = saw.received], saw)
     /\ Done(r)
     /\ UNCHANGED <<direct, receipts, returns, stock, jobs, lost>>

(* Mutant: the room left as it was loaded. *)
RoomWhenLoaded(saw) == Max({0, MaxDeliverable - saw.received})

(* maxDeliverable - alreadyReceived, read under the line's lock. *)
Room(saw) == Max({0, MaxDeliverable - po.received})

(* receive: the quantity as it is goes to the line and to the stock.       *)
Receive(r, asked) ==
  LET saw == requests[r]
      q == Min({asked, Room(saw)})
  IN /\ Saw(r) /\ saw.status \notin {"cancelled", "received"}
     /\ IF HasLine(saw.line)
        THEN /\ po' = Fulfilled([po EXCEPT !.received = @ + q], returns)
             /\ direct' = [direct EXCEPT ![po.line] = @ + q]
             /\ stock' = stock + q
        ELSE po' = Fulfilled(po, returns) /\ UNCHANGED <<direct, stock>>
     /\ Done(r)
     /\ UNCHANGED <<receipts, returns, jobs, lost>>

MayCancel(saw) == saw.status # "cancelled" /\ saw.received = 0

(* cancel.  An order that is not received, or has no completed receipt,    *)
(* only changes its status.                                                *)
CancelOrder(r) ==
  /\ \/ Saw(r) /\ MayCancel(requests[r]) /\ requests[r].status # "received"
     \/ requests[r].kind = "receipts" /\ requests[r].taken = {}
  /\ Save([po EXCEPT !.status = "cancelled"])
  /\ Done(r)
  /\ UNCHANGED <<direct, receipts, returns, stock, jobs, lost>>

(* One that is received, with nothing received when it was read, takes its *)
(* completed receipts back: it finds them, reads the stock, and writes     *)
(* what it computed, all without a lock.                                   *)
FindReceipts(r) ==
  /\ Saw(r) /\ MayCancel(requests[r]) /\ requests[r].status = "received"
  /\ requests' = [requests EXCEPT ![r] =
       [kind |-> "receipts", taken |-> {g \in Receipts : receipts[g].status = "completed"}]]
  /\ UNCHANGED <<po, direct, receipts, returns, stock, jobs, lost>>

ReadStock(r) ==
  /\ requests[r].kind = "receipts" /\ requests[r].taken # {}
  /\ requests' = [requests EXCEPT ![r] =
       [kind |-> "stock", taken |-> requests[r].taken, shelf |-> stock]]
  /\ UNCHANGED <<po, direct, receipts, returns, stock, jobs, lost>>

(* The quantities are taken back as they are, like receive adds them; an   *)
(* empty shelf stays as it was found, so nothing is saved.  (In the code   *)
(* the line of a receipt it takes back, if live, is locked before the      *)
(* stock is read: here more can happen in between.)                        *)
TakeReceiptsBack(r) ==
  LET taken == requests[r].taken
      shelf == requests[r].shelf
      all == Total(receipts, taken)
      ofLine == Total(receipts, {g \in taken : HasLine(receipts[g].line)})
  IN /\ requests[r].kind = "stock"
     /\ Save([po EXCEPT !.status = "cancelled", !.received = Max({0, @ - ofLine})])
     /\ receipts' = [g \in Receipts |->
          IF g \in taken THEN [receipts[g] EXCEPT !.status = "cancelled"] ELSE receipts[g]]
     /\ stock' = IF shelf = 0 THEN stock ELSE Max({0, shelf - all})
     /\ lost' = lost + Max({0, all - shelf})
     /\ Done(r)
     /\ UNCHANGED <<direct, returns, jobs>>

DeleteOrder(r) ==
  /\ Saw(r) /\ requests[r].status # "received" /\ requests[r].received = 0
  /\ po' = [po EXCEPT !.status = "deleted"]
  /\ Done(r)
  /\ UNCHANGED <<direct, receipts, returns, stock, jobs, lost>>

(* A handler that refuses what it saw. *)
Refuse(r) ==
  /\ requests[r] # Idle
  /\ Done(r)
  /\ UNCHANGED <<po, direct, receipts, returns, stock, jobs, lost>>

-----------------------------------------------------------------------------
(* Goods receipts. *)
Job(g, q) == jobs' = [jobs EXCEPT ![g] = Append(@, q)]

(* create: the line the client names, locked; a line that is gone is       *)
(* neither checked nor counted.  A receipt may name the line a second      *)
(* time, which is checked alone: once counted, what was received is an SQL *)
(* expression, that reads as zero.                                         *)
CreateReceipt(r, g, q, again, draft) ==
  LET saw == requests[r]
      qty == q + again
  IN /\ Saw(r) /\ saw.status # "cancelled"
     /\ receipts[g] = NoReceipt
     /\ HasLine(saw.line) => q <= Room(saw) /\ again <= IF draft THEN Room(saw) ELSE MaxDeliverable
     /\ receipts' = [receipts EXCEPT ![g] =
          [status |-> IF draft THEN "draft" ELSE "completed", line |-> saw.line, qty |-> qty,
           posted |-> ~draft, loose |-> draft \/ again > 0]]
     /\ IF draft
        THEN po' = Fulfilled(po, returns) /\ UNCHANGED <<stock, jobs>>
        ELSE /\ po' = Fulfilled(Counted(po, saw.line, qty), returns)
             /\ stock' = stock + QtyStock(qty)
             /\ Job(g, qty)
     /\ Done(r)
     /\ UNCHANGED <<direct, returns, lost>>

(* Mutant: posts whether or not it was posted. *)
UnpostedAlways(g) == receipts[g].qty

(* What applyStock still has to post. *)
Unposted(g) == IF receipts[g].posted THEN 0 ELSE receipts[g].qty

(* changeStatus: the receipt is loaded before its header is locked. *)
LoadReceipt(r, g) ==
  /\ requests[r] = Idle /\ receipts[g].status = "draft"
  /\ requests' = [requests EXCEPT ![r] = [kind |-> "receipt", receipt |-> g, qty |-> receipts[g].qty]]
  /\ UNCHANGED <<po, direct, receipts, returns, stock, jobs, lost>>

(* changeStatus to completed.  The job takes its lines from the first      *)
(* read, the stock from the second.                                        *)
CompleteReceipt(r) ==
  LET g == requests[r].receipt
  IN /\ requests[r].kind = "receipt" /\ receipts[g].status = "draft"
     /\ po' = Fulfilled(Counted(po, receipts[g].line, Unposted(g)), returns)
     /\ stock' = stock + QtyStock(Unposted(g))
     /\ receipts' = [receipts EXCEPT ![g].status = "completed", ![g].posted = TRUE]
     /\ Job(g, requests[r].qty)
     /\ Done(r)
     /\ UNCHANGED <<direct, returns, lost>>

(* reverseStock and voidReceiptBatches, when something was posted. *)
Unwound(p, g) == IF receipts[g].posted THEN Uncounted(p, receipts[g].line, receipts[g].qty) ELSE p

(* Mutant: only the order is unwound. *)
UnwindOrderOnly(g) == UNCHANGED <<stock, lost>>

Unwind(g) == IF receipts[g].posted THEN TakeBack(QtyStock(receipts[g].qty)) ELSE UNCHANGED <<stock, lost>>

(* changeStatus or update to cancelled, and delete: what was posted is     *)
(* unwound; the order's status is left alone.                              *)
EndReceipt(g, s) ==
  /\ receipts[g].status = "draft"
  /\ receipts' = [receipts EXCEPT ![g].status = s, ![g].posted = FALSE]
  /\ po' = Unwound(po, g)
  /\ Unwind(g)
  /\ UNCHANGED <<direct, returns, jobs, requests>>

(* Mutant: a job for every update. *)
BookEveryUpdate(g, q, complete) == Job(g, q)

(* update enqueues a job when it completes the receipt. *)
BookUpdate(g, q, complete) == IF complete THEN Job(g, q) ELSE UNCHANGED jobs

(* update with items: unwound, checked against the line, each mention      *)
(* alone, and applied anew.  The order's status is left alone.             *)
EditReceipt(g, q, again, complete) ==
  LET unwound == Unwound(po, g)
      post == receipts[g].posted \/ complete
      qty == q + again
      held == IF receipts[g].posted THEN QtyStock(receipts[g].qty) ELSE 0
      left == Max({0, stock - held})
  IN /\ receipts[g].status = "draft"
     /\ Exists => \A n \in {q, again} : n <= MaxDeliverable - unwound.received
     /\ receipts' = [receipts EXCEPT ![g].status = IF complete THEN "completed" ELSE @,
                                     ![g].line = IF Exists THEN po.line ELSE @,
                                     ![g].qty = qty, ![g].posted = post]
     /\ po' = IF post THEN Counted(unwound, po.line, qty) ELSE unwound
     /\ stock' = IF post THEN left + QtyStock(qty) ELSE left
     /\ lost' = lost + Max({0, held - stock})
     /\ BookUpdate(g, qty, complete)
     /\ UNCHANGED <<direct, returns, requests>>

(* update of the header alone to completed: the goods are posted, the      *)
(* status stays, nothing is booked.                                        *)
PostByHeader(g) ==
  /\ receipts[g].status = "draft"
  /\ po' = Counted(po, receipts[g].line, Unposted(g))
  /\ stock' = stock + QtyStock(Unposted(g))
  /\ receipts' = [receipts EXCEPT ![g].posted = TRUE]
  /\ UNCHANGED <<direct, returns, jobs, requests, lost>>

-----------------------------------------------------------------------------
(* Returns and payments. *)
(* What may still go back, under the line's lock. *)
Available == po.received - Claimed

CreateReturn(r, x, q) ==
  /\ Saw(r) /\ requests[r].status \in {"received", "ordered"}
  /\ Exists /\ returns[x] = NoReturn
  /\ q <= Available /\ QtyStock(q) <= stock
  /\ returns' = [returns EXCEPT ![x] = [status |-> "pending", qty |-> q]]
  /\ stock' = stock - QtyStock(q)
  /\ Done(r)
  /\ UNCHANGED <<po, direct, receipts, jobs, lost>>

(* The bill is credited, and the order's status recomputed. *)
ApproveReturn(x) ==
  LET approved == [returns EXCEPT ![x].status = "approved"]
  IN /\ returns[x].status = "pending"
     /\ returns' = approved
     /\ po' = IF Exists THEN Fulfilled([po EXCEPT !.final = Max({0, @ - returns[x].qty})], approved) ELSE po
     /\ UNCHANGED <<direct, receipts, stock, jobs, requests, lost>>

RejectReturn(x) ==
  /\ returns[x].status = "pending"
  /\ returns' = [returns EXCEPT ![x].status = "rejected"]
  /\ stock' = stock + QtyStock(returns[x].qty)
  /\ UNCHANGED <<po, direct, receipts, jobs, requests, lost>>

(* Mutant: a payment is checked against the bill, not with the others. *)
RecordPaymentAlone(amount) ==
  /\ Exists /\ amount <= po.final
  /\ po' = [po EXCEPT !.paid = @ + amount]
  /\ UNCHANGED <<direct, receipts, returns, stock, jobs, requests, lost>>

(* record, under the order's lock.  It enqueues the payment's job, so the  *)
(* payment can never be deleted.                                           *)
RecordPayment(amount) ==
  /\ Exists /\ po.paid + amount <= po.final
  /\ po' = [po EXCEPT !.paid = @ + amount]
  /\ UNCHANGED <<direct, receipts, returns, stock, jobs, requests, lost>>

OrderStep(r) ==
  \/ Load(r) \/ SendToSupplier(r) \/ ReplaceLine(r) \/ DeleteOrder(r) \/ Refuse(r)
  \/ CancelOrder(r) \/ FindReceipts(r) \/ ReadStock(r) \/ TakeReceiptsBack(r)
  \/ \E activate \in BOOLEAN : UpdateOrder(r, activate)
  \/ \E q \in Quantities : Receive(r, q)

ReceiptStep(g) ==
  \/ \E r \in Requests : LoadReceipt(r, g)
  \/ \E r \in Requests, q \in Quantities, again \in Repeats \cup {0}, draft \in BOOLEAN :
       CreateReceipt(r, g, q, again, draft)
  \/ \E s \in {"cancelled", "deleted"} : EndReceipt(g, s)
  \/ \E q \in Quantities, again \in Repeats \cup {0}, complete \in BOOLEAN :
       EditReceipt(g, q, again, complete)
  \/ PostByHeader(g)

ReturnStep(x) ==
  \/ \E r \in Requests, q \in Quantities : CreateReturn(r, x, q)
  \/ ApproveReturn(x) \/ RejectReturn(x)

Next ==
  \/ CreateOrder
  \/ \E r \in Requests : OrderStep(r) \/ CompleteReceipt(r)
  \/ \E g \in Receipts : ReceiptStep(g)
  \/ \E x \in Returns : ReturnStep(x)
  \/ \E a \in Payments : RecordPayment(a)

Spec == Init /\ [][Next]_vars

-----------------------------------------------------------------------------
InStock == {g \in Receipts : receipts[g].posted /\ receipts[g].status # "cancelled"}

(* The cancel of a received order has taken a receipt back: cancelling the *)
(* receipt itself clears its mark.                                         *)
OrderTookBack == \E g \in Receipts : receipts[g].posted /\ receipts[g].status = "cancelled"

(* Goods on the shelf are those of the receipts posted, once each and in   *)
(* base units, and of direct receivings, which add the quantity as it is,  *)
(* less the returns that stand, whatever races and edits did; only a       *)
(* reversal of goods already gone adds.  It is said while no cancel of a   *)
(* received order took receipts back: that one writes a stock it read      *)
(* without a lock, and takes back unconverted quantities.                  *)
StockFollowsDocuments ==
  ~OrderTookBack =>
    stock = QtyStock(Total(receipts, InStock)) + SumFunction(direct) - QtyStock(Claimed) + lost

(* The line has received what was posted for it, no more and no less, once *)
(* per receipt: nothing is counted on a line that replaced it.  Two        *)
(* cancels at once may take the same receipt back, so after one the line   *)
(* may have less, never more.                                              *)
ReceivedIsCounted ==
  LET counted == Total(receipts, {g \in InStock : receipts[g].line = po.line}) + direct[po.line]
  IN Exists => /\ po.received <= counted
               /\ ~OrderTookBack => po.received = counted

(* Receipts and receivings made at once never exceed the tolerance         *)
(* together, while no receipt of the order is made as a draft or names the *)
(* line twice: those are not checked whole.                                *)
WithinTolerance ==
  (\A g \in Receipts : ~receipts[g].loose) => po.received <= MaxDeliverable

(* A completed receipt is booked once, whichever way it was completed, and *)
(* one that is not has not been.                                           *)
BookedOnce ==
  \A g \in Receipts :
    /\ receipts[g].status = "completed" => Len(jobs[g]) = 1
    /\ receipts[g].status \in {"absent", "draft", "deleted"} => jobs[g] = <<>>
    /\ Len(jobs[g]) <= 1

(* The credit of an approved return stands on the bill.                    *)
CreditStands == Exists => po.final <= Ordered - Min({Ordered, ApprovedQty(returns)})

(* The journal of a receipt is for the goods it received.                  *)
BookedAsReceived ==
  \A g \in Receipts : receipts[g].status = "completed" => jobs[g] = <<receipts[g].qty>>

(* Nothing has been received on a cancelled order.                         *)
CancelledHasNothing == po.status = "cancelled" => po.received = 0

(* No order receives more than its tolerance.                              *)
NeverOverDelivered == po.received <= MaxDeliverable

(* The stock is in base units throughout: a direct receiving adds what a   *)
(* receipt of the same quantity does.                                      *)
StockInBaseUnits ==
  ~OrderTookBack =>
    stock = QtyStock(Total(receipts, InStock) + SumFunction(direct) - Claimed) + lost

(* The stock follows the documents after the cancel of a received order    *)
(* too.                                                                    *)
StockFollowsCancel ==
  stock = QtyStock(Total(receipts, InStock)) + SumFunction(direct) - QtyStock(Claimed) + lost
==============================================================================

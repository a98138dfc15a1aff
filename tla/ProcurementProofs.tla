-------------------------- MODULE ProcurementProofs --------------------------
(***************************************************************************)
(* Theorems of Procurement for any receipts, returns, requests,            *)
(* quantities, tolerance and number of replacements of the line.           *)
(***************************************************************************)
EXTENDS Procurement, SumTheorems, SequenceTheorems

(* Math.max(0, n) and Math.min(a, b). *)
LEMMA AtLeastZero ==
  ASSUME NEW n \in Int
  PROVE  Max({0, n}) = IF n > 0 THEN n ELSE 0
<1>1. \E m \in {0, n} : \A k \in {0, n} : m >= k
  OBVIOUS
<1> QED BY <1>1 DEF Max

LEMMA SmallerOf ==
  ASSUME NEW a \in Int, NEW b \in Int
  PROVE  Min({a, b}) = IF a < b THEN a ELSE b
<1>1. \E m \in {a, b} : \A k \in {a, b} : m <= k
  OBVIOUS
<1> QED BY <1>1 DEF Min

-----------------------------------------------------------------------------
(* Quantities in base units. *)
LEMMA QtyStockIs ==
  ASSUME NEW n \in Nat
  PROVE  QtyStock(n) \in Nat
BY ProcurementAssumption DEF QtyStock

LEMMA QtyStockOfNone == QtyStock(0) = 0
BY ProcurementAssumption DEF QtyStock

LEMMA QtyStockMoves ==
  ASSUME NEW x \in Nat, NEW y \in Nat, NEW a \in Nat, NEW b \in Nat, y = x - a + b
  PROVE  QtyStock(y) = QtyStock(x) - QtyStock(a) + QtyStock(b)
<1>1. PICK c \in Nat : c = Conversion
  BY ProcurementAssumption
<1>2. c * y = c * x - c * a + c * b
  OBVIOUS
<1> QED BY <1>1, <1>2 DEF QtyStock

-----------------------------------------------------------------------------
(* Totals of documents. *)
Weights(documents, S, D) == [d \in D |-> IF d \in S THEN documents[d].qty ELSE 0]

LEMMA TotalIs ==
  ASSUME NEW D, IsFiniteSet(D), NEW documents, NEW S \in SUBSET D,
         \A d \in D : documents[d].qty \in Nat
  PROVE  /\ Total(documents, S) = SumFunctionOnSet(Weights(documents, S, D), D)
         /\ Total(documents, S) \in Nat
<1> DEFINE f == [d \in S |-> documents[d].qty]
<1>1. DOMAIN f = S /\ IsFiniteSet(S) /\ \A d \in S : f[d] \in Nat
  BY FS_Subset
<1>2. Total(documents, S) = SumFunctionOnSet(f, S)
  BY <1>1 DEF Total, SumFunction
<1>3. [d \in D |-> IF d \in S THEN f[d] ELSE 0] = Weights(documents, S, D)
  BY DEF Weights
<1> HIDE DEF f
<1> QED BY <1>1, <1>2, <1>3, SumOfSome, SumNat

(* One document changes, and is in the total before, after, both or        *)
(* neither.                                                                *)
LEMMA TotalOneChanges ==
  ASSUME NEW D, IsFiniteSet(D), NEW old, NEW new, NEW S \in SUBSET D, NEW T \in SUBSET D,
         NEW x \in D,
         \A d \in D : old[d].qty \in Nat /\ new[d].qty \in Nat,
         \A d \in D : d # x => new[d].qty = old[d].qty /\ (d \in T <=> d \in S)
  PROVE  /\ Total(old, S) \in Nat /\ Total(new, T) \in Nat
         /\ Total(new, T) = Total(old, S) - (IF x \in S THEN old[x].qty ELSE 0)
                                          + (IF x \in T THEN new[x].qty ELSE 0)
<1> DEFINE f == Weights(old, S, D)
           g == Weights(new, T, D)
<1>1. /\ Total(old, S) = SumFunctionOnSet(f, D) /\ Total(old, S) \in Nat
      /\ Total(new, T) = SumFunctionOnSet(g, D) /\ Total(new, T) \in Nat
  BY TotalIs
<1>2. /\ \A d \in D : f[d] \in Nat /\ g[d] \in Nat
      /\ \A d \in D : d # x => g[d] = f[d]
      /\ f[x] = IF x \in S THEN old[x].qty ELSE 0
      /\ g[x] = IF x \in T THEN new[x].qty ELSE 0
  BY DEF Weights
<1> HIDE DEF f, g
<1>3. SumFunctionOnSet(g, D) = SumFunctionOnSet(f, D) - f[x] + g[x]
  BY <1>2, SumOneChanges
<1> QED BY <1>1, <1>2, <1>3

(* Documents that count the same make the same total. *)
LEMMA TotalSame ==
  ASSUME NEW D, IsFiniteSet(D), NEW old, NEW new, NEW S \in SUBSET D,
         \A d \in D : old[d].qty \in Nat,
         \A d \in S : new[d].qty = old[d].qty
  PROVE  Total(new, S) = Total(old, S)
<1> DEFINE f == [d \in S |-> old[d].qty]
           g == [d \in S |-> new[d].qty]
<1>1. f = g
  OBVIOUS
<1> QED BY <1>1 DEF Total

(* Some documents leave a total, together. *)
LEMMA TotalWithout ==
  ASSUME NEW D, IsFiniteSet(D), NEW documents, NEW S \in SUBSET D, NEW A \in SUBSET S,
         \A d \in D : documents[d].qty \in Nat
  PROVE  /\ Total(documents, S \ A) = Total(documents, S) - Total(documents, A)
         /\ Total(documents, A) <= Total(documents, S)
<1> DEFINE f == [d \in D |-> documents[d].qty]
<1>1. IsFiniteSet(S) /\ \A d \in D : f[d] \in Nat
  BY FS_Subset
<1>2. ASSUME NEW T \in SUBSET D
      PROVE  Total(documents, T) = SumFunctionOnSet(f, T) /\ Total(documents, T) \in Nat
  <2>1. \A d \in T : [e \in T |-> documents[e].qty][d] = f[d]
    OBVIOUS
  <2> DEFINE g == [e \in T |-> documents[e].qty]
  <2>2. IsFiniteSet(T) /\ DOMAIN g = T /\ \A d \in T : g[d] \in Nat /\ g[d] = f[d]
    BY <1>1, <2>1, FS_Subset
  <2>3. Total(documents, T) = SumFunctionOnSet(g, T)
    BY <2>2 DEF Total, SumFunction
  <2> HIDE DEF f, g
  <2> QED BY <2>2, <2>3, SumSame, SumNat
<1> HIDE DEF f
<1>3. SumFunctionOnSet(f, S) = SumFunctionOnSet(f, A) + SumFunctionOnSet(f, S \ A)
  BY <1>1, SumDisjoint
<1>4. S \ A \in SUBSET D /\ A \in SUBSET D
  OBVIOUS
<1>5. /\ Total(documents, S) = SumFunctionOnSet(f, S) /\ Total(documents, S) \in Nat
      /\ Total(documents, A) = SumFunctionOnSet(f, A) /\ Total(documents, A) \in Nat
      /\ Total(documents, S \ A) = SumFunctionOnSet(f, S \ A) /\ Total(documents, S \ A) \in Nat
  BY <1>2, <1>4
<1> QED BY <1>3, <1>5

LEMMA TotalOfOne ==
  ASSUME NEW documents, NEW d, documents[d].qty \in Nat
  PROVE  Total(documents, {d}) = documents[d].qty
<1> DEFINE f == [e \in {d} |-> documents[e].qty]
<1>1. DOMAIN f = {d} /\ f[d] = documents[d].qty /\ IsFiniteSet({d}) /\ {d} \ {d} = {}
  BY FS_Singleton
<1>2. Total(documents, {d}) = SumFunctionOnSet(f, {d})
  BY <1>1 DEF Total, SumFunction
<1> HIDE DEF f
<1>3. SumFunctionOnSet(f, {d}) = f[d] + SumFunctionOnSet(f, {d} \ {d})
  BY <1>1, SumRemove
<1>4. SumFunctionOnSet(f, {d} \ {d}) = 0
  BY <1>1, SumEmpty
<1> QED BY <1>1, <1>2, <1>3, <1>4

-----------------------------------------------------------------------------
(* The invariant. *)
PoRow == [status: OrderStatus, line: Lines, received: Nat, final: 0..Ordered, paid: 0..Ordered]
ReceiptRow == [status: {"absent", "draft", "completed", "cancelled", "deleted"},
               line: 0..(MaxEdits + 1), qty: Nat, posted: BOOLEAN, loose: BOOLEAN]
ReturnRow == [status: {"absent", "pending", "approved", "rejected"}, qty: Quantities \cup {0}]

(* A completed receipt is posted, and a draft was made as one.             *)
MadeWell(row) ==
  /\ row.status = "completed" => row.posted
  /\ row.status = "draft" => row.loose

ReceiptsOK ==
  \A g \in Receipts :
    /\ receipts[g].status = "absent" => receipts[g] = NoReceipt
    /\ receipts[g].status # "absent" => MadeWell(receipts[g]) /\ receipts[g].line <= po.line

(* Nobody has seen a line that does not exist yet, nor received on one. *)
LinesOK ==
  /\ \A r \in Requests : requests[r].kind = "order" => requests[r].line <= po.line
  /\ \A l \in Lines : l > po.line => direct[l] = 0

(* What a cancel takes back was posted, and is not posted again. *)
OnceTaken(row) == row.posted /\ row.status \in {"completed", "cancelled"}

TakenOK ==
  \A r \in Requests : requests[r].kind \in {"receipts", "stock"} =>
    \A g \in requests[r].taken : OnceTaken(receipts[g])

(* Everything begins with the order. *)
AbsentOK ==
  po.status = "absent" =>
    /\ po.received = 0 /\ \A l \in Lines : direct[l] = 0
    /\ \A g \in Receipts : receipts[g] = NoReceipt
    /\ \A r \in Requests : requests[r] = Idle

ProcurementInv ==
  /\ ProcurementTypeOK /\ ReceiptsOK /\ LinesOK /\ TakenOK /\ AbsentOK
  /\ StockFollowsDocuments /\ ReceivedIsCounted /\ WithinTolerance /\ BookedOnce

LEMMA Types ==
  ASSUME ProcurementTypeOK
  PROVE  /\ po \in PoRow /\ receipts \in [Receipts -> ReceiptRow] /\ returns \in [Returns -> ReturnRow]
         /\ Quantities \subseteq Nat /\ Lines \subseteq Nat /\ Ordered \in Nat /\ MaxEdits \in Nat
         /\ direct \in [Lines -> Nat] /\ stock \in Nat /\ lost \in Nat
         /\ \A g \in Receipts : receipts[g].qty \in Nat
         /\ \A x \in Returns : returns[x].qty \in Nat
<1>1. Quantities \subseteq Nat /\ Lines \subseteq Nat /\ Ordered \in Nat /\ MaxEdits \in Nat
  BY ProcurementAssumption DEF Lines
<1>2. /\ po \in PoRow /\ receipts \in [Receipts -> ReceiptRow] /\ returns \in [Returns -> ReturnRow]
      /\ direct \in [Lines -> Nat] /\ stock \in Nat /\ lost \in Nat
  BY DEF ProcurementTypeOK, PoRow, ReceiptRow, ReturnRow
<1>3. /\ \A g \in Receipts : receipts[g].qty \in Nat
      /\ \A x \in Returns : returns[x].qty \in Quantities \cup {0}
  BY <1>2 DEF ReceiptRow, ReturnRow
<1>4. Quantities \cup {0} \subseteq Nat
  BY <1>1
<1> QED BY <1>1, <1>2, <1>3, <1>4

LEMMA DeliverableIsNat == MaxDeliverable \in Nat /\ MaxDeliverable >= Ordered
<1>1. Ordered * Tolerance \in Nat
  BY ProcurementAssumption
<1> DEFINE n == Ordered * Tolerance
<1> HIDE DEF n
<1>2. (n + 100 - 1) \div 100 \in Nat
  BY <1>1 DEF n
<1>3. Ordered \in Nat
  BY ProcurementAssumption
<1> QED BY <1>2, <1>3 DEF MaxDeliverable, Ceil, n

(* What a request has seen. *)
LEMMA Seen ==
  ASSUME ProcurementTypeOK, NEW r \in Requests
  PROVE  /\ requests[r].kind = "order" => requests[r] \in SawOrder
         /\ requests[r].kind = "receipt" => requests[r] \in SawReceipt
         /\ requests[r].kind = "receipts" => requests[r] \in SawReceipts
         /\ requests[r].kind = "stock" => requests[r] \in SawStock
<1>1. requests[r] \in {Idle} \cup SawOrder \cup SawReceipt \cup SawReceipts \cup SawStock
  BY DEF ProcurementTypeOK
<1> QED BY <1>1 DEF Idle, SawOrder, SawReceipt, SawReceipts, SawStock

(* A step that only finishes requests, and leaves the receipts they hold   *)
(* taken, leaves them as they should be.                                   *)
LEMMA TakenStays ==
  ASSUME ProcurementTypeOK, TakenOK,
         \A r \in Requests : requests'[r] = requests[r] \/ requests'[r] = Idle,
         \A g \in Receipts : OnceTaken(receipts[g]) => OnceTaken(receipts'[g])
  PROVE  TakenOK'
<1> SUFFICES ASSUME NEW r \in Requests, requests'[r].kind \in {"receipts", "stock"},
                    NEW g \in requests'[r].taken
             PROVE  OnceTaken(receipts'[g])
  BY DEF TakenOK, OnceTaken
<1>1. requests'[r] = requests[r]
  BY DEF Idle
<1>2. OnceTaken(receipts[g])
  BY <1>1 DEF TakenOK
<1>3. g \in Receipts
  BY <1>1, Seen DEF SawReceipts, SawStock
<1> QED BY <1>2, <1>3

(* The fulfilment status is all that changes. *)
LEMMA FulfilledIs ==
  ASSUME NEW p \in PoRow, NEW rets
  PROVE  /\ Fulfilled(p, rets) \in PoRow
         /\ Fulfilled(p, rets).line = p.line /\ Fulfilled(p, rets).received = p.received
         /\ Fulfilled(p, rets).status \in {"received", "ordered", p.status}
         /\ p.status \in {"cancelled", "deleted"} => Fulfilled(p, rets).status = p.status
BY DEF Fulfilled, PoRow, OrderStatus

LEMMA BilledIs ==
  ASSUME NEW p \in PoRow, NEW saw
  PROVE  /\ Billed(p, saw) \in PoRow /\ Billed(p, saw).status = p.status
         /\ Billed(p, saw).line = p.line /\ Billed(p, saw).received = p.received
BY ProcurementAssumption DEF Billed, PoRow

LEMMA CountedIs ==
  ASSUME ProcurementTypeOK, NEW p \in PoRow, NEW l, NEW q \in Nat
  PROVE  /\ Counted(p, l, q) \in PoRow /\ Counted(p, l, q).status = p.status
         /\ Counted(p, l, q).line = p.line
         /\ Counted(p, l, q).received = IF HasLine(l) THEN p.received + q ELSE p.received
BY DEF Counted, PoRow

LEMMA UncountedIs ==
  ASSUME ProcurementTypeOK, NEW p \in PoRow, NEW l, NEW q \in Nat
  PROVE  /\ Uncounted(p, l, q) \in PoRow /\ Uncounted(p, l, q).status = p.status
         /\ Uncounted(p, l, q).line = p.line
         /\ Uncounted(p, l, q).received =
              IF HasLine(l) THEN (IF p.received > q THEN p.received - q ELSE 0) ELSE p.received
<1>1. p.received - q \in Int
  BY DEF PoRow
<1>2. Max({0, p.received - q}) = IF p.received > q THEN p.received - q ELSE 0
  BY <1>1, AtLeastZero DEF PoRow
<1>3. Max({0, p.received - q}) \in Nat
  BY <1>2 DEF PoRow
<1> QED BY <1>2, <1>3 DEF Uncounted, PoRow

(* Taking goods back leaves their sum with what was lost as it should be.  *)
LEMMA TakenBack ==
  ASSUME ProcurementTypeOK, NEW q \in Nat, TakeBack(q)
  PROVE  stock' \in Nat /\ lost' \in Nat /\ stock' - lost' = stock - lost - q
<1>1. stock \in Nat /\ lost \in Nat
  BY Types
<1>2. /\ Max({0, stock - q}) = IF stock - q > 0 THEN stock - q ELSE 0
      /\ Max({0, q - stock}) = IF q - stock > 0 THEN q - stock ELSE 0
  BY <1>1, AtLeastZero
<1> QED BY <1>1, <1>2 DEF TakeBack

-----------------------------------------------------------------------------
(* The sums of the properties, and how they change. *)
Shelf == Total(receipts, InStock)
LineTotal == Total(receipts, {g \in InStock : receipts[g].line = po.line})

Held(g) == IF g \in InStock THEN receipts[g].qty ELSE 0
HeldHere(g) == IF g \in InStock /\ receipts[g].line = po.line THEN receipts[g].qty ELSE 0

LEMMA ReceiptChanges ==
  ASSUME ProcurementTypeOK, ProcurementTypeOK', NEW g \in Receipts,
         \A h \in Receipts : h # g => receipts'[h] = receipts[h]
  PROVE  /\ Shelf \in Nat /\ Shelf' \in Nat /\ LineTotal \in Nat /\ LineTotal' \in Nat
         /\ Shelf' = Shelf - Held(g) + Held(g)'
         /\ po'.line = po.line => LineTotal' = LineTotal - HeldHere(g) + HeldHere(g)'
<1>1. IsFiniteSet(Receipts)
  BY ProcurementAssumption
<1>2. \A h \in Receipts : receipts[h].qty \in Nat
  BY Types
<1>3. \A h \in Receipts : receipts'[h].qty \in Nat
  BY DEF ProcurementTypeOK
<1>4. Shelf \in Nat /\ Shelf' \in Nat /\ Shelf' = Shelf - Held(g) + Held(g)'
  <2> DEFINE S == {h \in Receipts : receipts[h].posted /\ receipts[h].status # "cancelled"}
             T == {h \in Receipts : receipts'[h].posted /\ receipts'[h].status # "cancelled"}
  <2>1. \A h \in Receipts : h # g => receipts'[h].qty = receipts[h].qty /\ (h \in T <=> h \in S)
    OBVIOUS
  <2> HIDE DEF S, T
  <2>2. S \in SUBSET Receipts /\ T \in SUBSET Receipts
    BY DEF S, T
  <2>3. /\ Total(receipts, S) \in Nat /\ Total(receipts', T) \in Nat
        /\ Total(receipts', T) = Total(receipts, S) - (IF g \in S THEN receipts[g].qty ELSE 0)
                                                   + (IF g \in T THEN receipts'[g].qty ELSE 0)
    BY <1>1, <1>2, <1>3, <2>1, <2>2, TotalOneChanges
  <2> QED BY <2>3 DEF Shelf, Held, InStock, S, T
<1>5. /\ LineTotal \in Nat /\ LineTotal' \in Nat
      /\ po'.line = po.line => LineTotal' = LineTotal - HeldHere(g) + HeldHere(g)'
  <2> DEFINE S == {h \in InStock : receipts[h].line = po.line}
             T == {h \in InStock' : receipts'[h].line = po'.line}
  <2>0. S \in SUBSET Receipts /\ T \in SUBSET Receipts
    BY DEF InStock
  <2>1. Total(receipts, S) \in Nat /\ Total(receipts', T) \in Nat
    <3> HIDE DEF S, T
    <3> QED BY <1>1, <1>2, <1>3, <2>0, TotalIs
  <2>2. ASSUME po'.line = po.line
        PROVE  \A h \in Receipts : h # g => receipts'[h].qty = receipts[h].qty /\ (h \in T <=> h \in S)
    BY <2>2 DEF InStock
  <2> HIDE DEF S, T
  <2>3. ASSUME po'.line = po.line
        PROVE  Total(receipts', T) = Total(receipts, S) - (IF g \in S THEN receipts[g].qty ELSE 0)
                                                       + (IF g \in T THEN receipts'[g].qty ELSE 0)
    BY <1>1, <1>2, <1>3, <2>0, <2>2, <2>3, TotalOneChanges
  <2> QED BY <2>1, <2>3 DEF LineTotal, HeldHere, InStock, S, T
<1> QED BY <1>4, <1>5

LEMMA ReceiptsStay ==
  ASSUME receipts' = receipts
  PROVE  /\ Shelf' = Shelf
         /\ po'.line = po.line => LineTotal' = LineTotal
BY DEF Shelf, LineTotal, InStock

(* A receipt that is on the shelf is in its totals. *)
LEMMA HeldIsCounted ==
  ASSUME ProcurementTypeOK, NEW g \in Receipts
  PROVE  /\ Held(g) \in Nat /\ HeldHere(g) \in Nat /\ HeldHere(g) <= LineTotal /\ LineTotal \in Nat
         /\ Shelf \in Nat
<1>1. IsFiniteSet(Receipts) /\ \A h \in Receipts : receipts[h].qty \in Nat
  BY Types, ProcurementAssumption
<1>2. Held(g) \in Nat /\ HeldHere(g) \in Nat
  BY <1>1 DEF Held, HeldHere
<1> DEFINE S == {h \in InStock : receipts[h].line = po.line}
<1>3. S \in SUBSET Receipts /\ InStock \in SUBSET Receipts
  BY DEF InStock
<1>4. g \in S <=> g \in InStock /\ receipts[g].line = po.line
  OBVIOUS
<1>5. LineTotal = Total(receipts, S)
  BY DEF LineTotal
<1> HIDE DEF S
<1>6. LineTotal \in Nat /\ Shelf \in Nat
  BY <1>1, <1>3, <1>5, TotalIs DEF Shelf
<1>7. HeldHere(g) <= LineTotal
  <2>1. CASE g \in S
    <3>1. {g} \in SUBSET S /\ {g} \in SUBSET Receipts
      BY <2>1
    <3>2. Total(receipts, {g}) <= Total(receipts, S)
      BY <1>1, <1>3, <3>1, TotalWithout
    <3>3. Total(receipts, {g}) = receipts[g].qty
      BY <1>1, TotalOfOne
    <3> QED BY <1>4, <1>5, <2>1, <3>2, <3>3 DEF HeldHere
  <2>2. CASE g \notin S
    BY <1>4, <1>6, <2>2 DEF HeldHere
  <2> QED BY <2>1, <2>2
<1> QED BY <1>2, <1>6, <1>7

(* One value of a function changes. *)
LEMMA OneValueChanges ==
  ASSUME NEW D, IsFiniteSet(D), NEW old \in [D -> Nat], NEW new \in [D -> Nat], NEW x \in D,
         \A y \in D : y # x => new[y] = old[y]
  PROVE  /\ SumFunction(old) \in Nat
         /\ SumFunction(new) = SumFunction(old) - old[x] + new[x]
<1>1. DOMAIN old = D /\ DOMAIN new = D
  OBVIOUS
<1>2. \A y \in D : old[y] \in Nat /\ new[y] \in Nat
  OBVIOUS
<1>3. /\ SumFunctionOnSet(old, D) \in Nat
      /\ SumFunctionOnSet(new, D) = SumFunctionOnSet(old, D) - old[x] + new[x]
  BY <1>2, SumOneChanges
<1> QED BY <1>1, <1>3 DEF SumFunction

LEMMA TotalOfNone ==
  ASSUME NEW documents
  PROVE  Total(documents, {}) = 0
<1> DEFINE f == [e \in {} |-> documents[e].qty]
<1>1. DOMAIN f = {} /\ Total(documents, {}) = SumFunctionOnSet(f, DOMAIN f)
  BY DEF Total, SumFunction
<1> HIDE DEF f
<1> QED BY <1>1, SumEmpty

Requesting == {Idle} \cup SawOrder \cup SawReceipt \cup SawReceipts \cup SawStock

(* The properties in these terms. *)
StockIs == stock = QtyStock(Shelf) + SumFunction(direct) - QtyStock(Claimed) + lost
LineIs ==
  /\ po.received <= LineTotal + direct[po.line]
  /\ ~OrderTookBack => po.received = LineTotal + direct[po.line]

LEMMA SumsAre ==
  /\ StockFollowsDocuments <=> (~OrderTookBack => StockIs)
  /\ ReceivedIsCounted <=> (Exists => LineIs)
BY DEF StockFollowsDocuments, ReceivedIsCounted, Shelf, LineTotal, StockIs, LineIs

LEMMA SumsAreNow ==
  /\ StockFollowsDocuments' <=> (~OrderTookBack' => StockIs')
  /\ ReceivedIsCounted' <=> (Exists' => LineIs')
BY DEF StockFollowsDocuments, ReceivedIsCounted, Shelf, LineTotal, StockIs, LineIs

LEMMA StockIsNow ==
  StockIs' <=> stock' = QtyStock(Shelf') + SumFunction(direct') - QtyStock(Claimed') + lost'
BY DEF StockIs, QtyStock

(* Receipts that stay leave what was taken back as it was.                 *)
LEMMA TookBackStays ==
  ASSUME receipts' = receipts
  PROVE  OrderTookBack' <=> OrderTookBack
BY DEF OrderTookBack

LEMMA OtherSums ==
  /\ IsFiniteSet(Lines) /\ IsFiniteSet(Receipts) /\ IsFiniteSet(Returns)
  /\ ProcurementTypeOK => SumFunction(direct) \in Nat /\ Claimed \in Nat
  /\ returns' = returns => Claimed' = Claimed
<1>1. IsFiniteSet(Lines) /\ IsFiniteSet(Receipts) /\ IsFiniteSet(Returns)
  BY ProcurementAssumption, FS_Interval DEF Lines
<1>2. ASSUME ProcurementTypeOK PROVE SumFunction(direct) \in Nat
  <2>1. DOMAIN direct = Lines /\ \A l \in Lines : direct[l] \in Nat
    BY <1>2, Types
  <2> QED BY <1>1, <2>1, SumNat DEF SumFunction
<1>3. ASSUME ProcurementTypeOK PROVE Claimed \in Nat
  <2> DEFINE S == {x \in Returns : returns[x].status # "rejected"}
  <2>1. S \in SUBSET Returns /\ \A x \in Returns : returns[x].qty \in Nat
    BY <1>3, Types
  <2>2. Claimed = Total(returns, S)
    BY DEF Claimed
  <2> HIDE DEF S
  <2> QED BY <1>1, <2>1, <2>2, TotalIs
<1>4. returns' = returns => Claimed' = Claimed
  BY DEF Claimed
<1> QED BY <1>1, <1>2, <1>3, <1>4

LEMMA ClearRequest ==
  ASSUME ProcurementTypeOK, NEW r \in Requests, Done(r)
  PROVE  /\ requests' \in [Requests -> Requesting]
         /\ \A s \in Requests : requests'[s] = requests[s] \/ requests'[s] = Idle
BY DEF ProcurementTypeOK, Done, Requesting

(* Whoever holds an instance knows that the order was created. *)
LEMMA RequestMeansOrder ==
  ASSUME ProcurementInv, NEW r \in Requests, requests[r] # Idle
  PROVE  po.status # "absent"
BY DEF ProcurementInv, AbsentOK

LEMMA SawMeansSeen ==
  ASSUME ProcurementInv, NEW r \in Requests, Saw(r)
  PROVE  /\ requests[r] \in SawOrder /\ requests[r] # Idle /\ po.status # "absent"
         /\ requests[r].line \in Lines /\ requests[r].line <= po.line
<1>1. requests[r] \in SawOrder
  BY Seen DEF ProcurementInv, Saw
<1>2. requests[r] # Idle
  BY DEF Saw, Idle
<1>3. requests[r].line <= po.line
  BY DEF ProcurementInv, LinesOK, Saw
<1> QED BY <1>1, <1>2, <1>3, RequestMeansOrder DEF SawOrder

(* Steps that only write the header of the order. *)
LEMMA HeaderOnly ==
  ASSUME ProcurementInv, po' \in PoRow,
         UNCHANGED <<direct, receipts, returns, stock, jobs, lost>>,
         po'.line = po.line, po'.received = po.received, po'.status # "absent",
         Exists' => Exists \/ po.status = "absent",
         requests' \in [Requests -> Requesting],
         \A r \in Requests :
           \/ requests'[r] = requests[r] \/ requests'[r] = Idle
           \/ requests'[r].kind = "order" /\ requests'[r].line = po.line
           \/ requests'[r].kind = "receipt"
           \/ /\ requests'[r].kind \in {"receipts", "stock"}
              /\ \A g \in requests'[r].taken : OnceTaken(receipts[g])
  PROVE  ProcurementInv'
<1>1. ProcurementTypeOK /\ po \in PoRow
  BY Types DEF ProcurementInv
<1>2. ProcurementTypeOK'
  BY <1>1 DEF ProcurementTypeOK, PoRow, Requesting
<1>3. ReceiptsOK' /\ AbsentOK' /\ BookedOnce' /\ WithinTolerance'
  BY DEF ProcurementInv, ReceiptsOK, AbsentOK, BookedOnce, WithinTolerance, MaxDeliverable
<1>4. LinesOK'
  <2>1. \A r \in Requests : requests'[r].kind = "order" => requests'[r].line <= po'.line
    <3> SUFFICES ASSUME NEW r \in Requests, requests'[r].kind = "order"
                 PROVE  requests'[r].line <= po.line
      OBVIOUS
    <3>1. CASE requests'[r] = requests[r]
      BY <3>1 DEF ProcurementInv, LinesOK
    <3>2. CASE requests'[r] = Idle
      BY <3>2 DEF Idle
    <3>3. CASE requests'[r].line = po.line
      BY <1>1, <3>3, Types DEF PoRow, Lines
    <3>4. CASE requests'[r].kind \in {"receipt", "receipts", "stock"}
      BY <3>4
    <3> QED BY <3>1, <3>2, <3>3, <3>4
  <2> QED BY <2>1 DEF ProcurementInv, LinesOK, Lines
<1>8. TakenOK'
  <2> SUFFICES ASSUME NEW r \in Requests, requests'[r].kind \in {"receipts", "stock"},
                      NEW g \in requests'[r].taken
               PROVE  OnceTaken(receipts[g])
    BY DEF TakenOK, OnceTaken
  <2>1. CASE requests'[r] = requests[r]
    BY <2>1 DEF ProcurementInv, TakenOK
  <2>2. CASE requests'[r] = Idle
    BY <2>2 DEF Idle
  <2> QED BY <2>1, <2>2
<1>5. /\ Shelf' = Shelf /\ LineTotal' = LineTotal /\ Claimed' = Claimed
      /\ OrderTookBack' <=> OrderTookBack
  BY ReceiptsStay, OtherSums, TookBackStays
<1>6. StockFollowsDocuments'
  BY <1>5, SumsAre, SumsAreNow DEF ProcurementInv, StockIs
<1>7. ReceivedIsCounted'
  <2>1. CASE Exists
    BY <1>5, <2>1, SumsAre, SumsAreNow DEF ProcurementInv, LineIs
  <2>2. CASE po.status = "absent"
    <3>1. po.received = 0 /\ direct[po.line] = 0 /\ \A g \in Receipts : receipts[g] = NoReceipt
      BY <1>1, <2>2 DEF ProcurementInv, AbsentOK, PoRow
    <3>2. {g \in InStock : receipts[g].line = po.line} = {}
      BY <3>1 DEF InStock, NoReceipt
    <3>3. LineTotal = 0
      BY <3>2, TotalOfNone DEF LineTotal
    <3> QED BY <1>5, <3>1, <3>3, SumsAreNow DEF LineIs
  <2>3. CASE ~Exists /\ po.status # "absent"
    BY <2>3, SumsAreNow
  <2> QED BY <2>1, <2>2, <2>3
<1> QED BY <1>2, <1>3, <1>4, <1>6, <1>7, <1>8 DEF ProcurementInv

LEMMA CreateOrderHolds ==
  ASSUME ProcurementInv, CreateOrder
  PROVE  ProcurementInv'
<1>1. ProcurementTypeOK /\ po \in PoRow
  BY Types DEF ProcurementInv
<1>2. PICK s \in OrderStatus \ {"absent", "deleted"} : po' = [po EXCEPT !.status = s, !.final = Ordered]
  BY DEF CreateOrder
<1> DEFINE p == [po EXCEPT !.status = s]
<1>3. p \in PoRow /\ p.status = s /\ p.line = po.line /\ p.received = po.received
  BY <1>1 DEF PoRow, OrderStatus
<1>4. po' = [p EXCEPT !.final = Ordered]
  BY <1>2
<1> HIDE DEF p
<1>5. po' \in PoRow /\ po'.status = s /\ po'.line = po.line /\ po'.received = po.received
  BY <1>3, <1>4, ProcurementAssumption DEF PoRow
<1>6. po.status = "absent" /\ UNCHANGED <<direct, receipts, returns, stock, jobs, requests, lost>>
  BY DEF CreateOrder
<1>7. requests' \in [Requests -> Requesting]
  BY <1>1, <1>6 DEF ProcurementTypeOK, Requesting
<1> QED BY <1>5, <1>6, <1>7, HeaderOnly

LEMMA LoadHolds ==
  ASSUME ProcurementInv, NEW r \in Requests, Load(r)
  PROVE  ProcurementInv'
<1>1. ProcurementTypeOK /\ po \in PoRow /\ po.status # "absent" /\ Exists
  BY Types DEF ProcurementInv, Load, Exists
<1> DEFINE seen == [kind |-> "order", status |-> po.status, line |-> po.line,
                    received |-> po.received, final |-> po.final]
<1>2. seen \in SawOrder /\ seen.kind = "order" /\ seen.line = po.line
  BY <1>1, ProcurementAssumption DEF SawOrder, PoRow
<1>3. /\ requests' = [requests EXCEPT ![r] = seen]
      /\ UNCHANGED <<po, direct, receipts, returns, stock, jobs, lost>>
  BY DEF Load
<1> HIDE DEF seen
<1>4. requests \in [Requests -> Requesting]
  BY <1>1 DEF ProcurementTypeOK, Requesting
<1>5. requests' \in [Requests -> Requesting]
  BY <1>2, <1>3, <1>4 DEF Requesting
<1>6. \A s \in Requests : requests'[s] = requests[s] \/ requests'[s] = seen
  BY <1>3, <1>4
<1> QED BY <1>1, <1>2, <1>3, <1>5, <1>6, HeaderOnly

(* Saving a header: a deleted order stays deleted. *)
LEMMA SavedHeader ==
  ASSUME ProcurementInv, NEW r \in Requests, requests[r] # Idle, NEW p \in PoRow, Save(p), Done(r),
         p.line = po.line, p.received = po.received, p.status \notin {"absent"},
         UNCHANGED <<direct, receipts, returns, stock, jobs, lost>>
  PROVE  ProcurementInv'
<1>1. ProcurementTypeOK /\ po \in PoRow /\ po.status # "absent"
  BY Types, RequestMeansOrder DEF ProcurementInv
<1>2. CASE po.status = "deleted"
  <2>1. po' = po
    BY <1>2 DEF Save
  <2> QED BY <1>1, <2>1, ClearRequest, HeaderOnly DEF Exists
<1>3. CASE po.status # "deleted"
  <2>1. po' = p /\ Exists
    BY <1>1, <1>3 DEF Save, Exists
  <2> QED BY <1>1, <2>1, ClearRequest, HeaderOnly
<1> QED BY <1>2, <1>3

LEMMA HeaderHolds ==
  ASSUME ProcurementInv, NEW r \in Requests,
         SendToSupplier(r) \/ (\E activate \in BOOLEAN : UpdateOrder(r, activate))
         \/ DeleteOrder(r) \/ Refuse(r)
  PROVE  ProcurementInv'
<1>1. ProcurementTypeOK /\ po \in PoRow
  BY Types DEF ProcurementInv
<1>2. CASE SendToSupplier(r)
  <2>1. [po EXCEPT !.status = "ordered"] \in PoRow
    BY <1>1 DEF PoRow, OrderStatus
  <2>2. /\ [po EXCEPT !.status = "ordered"].line = po.line
        /\ [po EXCEPT !.status = "ordered"].received = po.received
        /\ [po EXCEPT !.status = "ordered"].status = "ordered"
    BY <1>1 DEF PoRow
  <2> QED BY <1>2, <2>1, <2>2, SawMeansSeen, SavedHeader DEF SendToSupplier
<1>3. ASSUME NEW activate \in BOOLEAN, UpdateOrder(r, activate) PROVE ProcurementInv'
  <2> DEFINE p == [po EXCEPT !.status = IF activate THEN "pending" ELSE @]
             b == Billed(p, requests[r])
  <2>1. Saw(r) /\ po.status # "absent"
    BY <1>3, SawMeansSeen DEF UpdateOrder
  <2>2. p \in PoRow /\ p.line = po.line /\ p.received = po.received /\ p.status # "absent"
    BY <1>1, <2>1 DEF PoRow, OrderStatus
  <2>3. Save(b) /\ Done(r) /\ UNCHANGED <<direct, receipts, returns, stock, jobs, lost>>
    BY <1>3 DEF UpdateOrder
  <2> HIDE DEF p
  <2>4. b \in PoRow /\ b.line = po.line /\ b.received = po.received /\ b.status # "absent"
    BY <2>2, BilledIs
  <2> HIDE DEF b
  <2> QED BY <2>1, <2>3, <2>4, SawMeansSeen, SavedHeader
<1>4. CASE DeleteOrder(r)
  <2>1. po' \in PoRow /\ po'.line = po.line /\ po'.received = po.received /\ po'.status = "deleted"
    BY <1>1, <1>4 DEF DeleteOrder, PoRow, OrderStatus
  <2>2. Done(r) /\ UNCHANGED <<direct, receipts, returns, stock, jobs, lost>>
    BY <1>4 DEF DeleteOrder
  <2> QED BY <1>1, <2>1, <2>2, ClearRequest, HeaderOnly DEF Exists
<1>5. CASE Refuse(r)
  <2>1. po' = po /\ po.status # "absent"
    BY <1>5, RequestMeansOrder DEF Refuse
  <2>2. Done(r) /\ UNCHANGED <<direct, receipts, returns, stock, jobs, lost>>
    BY <1>5 DEF Refuse
  <2> QED BY <1>1, <2>1, <2>2, ClearRequest, HeaderOnly DEF Exists
<1> QED BY <1>2, <1>3, <1>4, <1>5

(* A cancel that finds nothing to take back, and what one reads before.    *)
LEMMA CancelReadsHolds ==
  ASSUME ProcurementInv, NEW r \in Requests, CancelOrder(r) \/ FindReceipts(r) \/ ReadStock(r)
  PROVE  ProcurementInv'
<1>1. ProcurementTypeOK /\ po \in PoRow /\ requests \in [Requests -> Requesting] /\ stock \in Nat
  BY Types DEF ProcurementInv, ProcurementTypeOK, Requesting
<1>2. requests[r] # Idle /\ po.status # "absent"
  <2>1. requests[r].kind # "idle"
    BY DEF CancelOrder, FindReceipts, ReadStock, Saw
  <2> QED BY <2>1, RequestMeansOrder DEF Idle
<1>3. CASE CancelOrder(r)
  <2> DEFINE p == [po EXCEPT !.status = "cancelled"]
  <2>1. p \in PoRow /\ p.line = po.line /\ p.received = po.received /\ p.status # "absent"
    BY <1>1 DEF PoRow, OrderStatus
  <2>2. Save(p) /\ Done(r) /\ UNCHANGED <<direct, receipts, returns, stock, jobs, lost>>
    BY <1>3 DEF CancelOrder
  <2> HIDE DEF p
  <2> QED BY <1>2, <2>1, <2>2, SavedHeader
<1>4. ASSUME NEW read \in Requesting, requests' = [requests EXCEPT ![r] = read],
             read.kind \in {"receipts", "stock"}, \A g \in read.taken : OnceTaken(receipts[g]),
             UNCHANGED <<po, direct, receipts, returns, stock, jobs, lost>>
      PROVE  ProcurementInv'
  <2>1. requests' \in [Requests -> Requesting]
    BY <1>1, <1>4
  <2>2. \A s \in Requests : requests'[s] = requests[s] \/ requests'[s] = read
    BY <1>1, <1>4
  <2> QED BY <1>1, <1>2, <1>4, <2>1, <2>2, HeaderOnly DEF Exists
<1>5. CASE FindReceipts(r)
  <2> DEFINE taken == {g \in Receipts : receipts[g].status = "completed"}
             read == [kind |-> "receipts", taken |-> taken]
  <2>1. \A g \in taken : OnceTaken(receipts[g])
    BY DEF ProcurementInv, ReceiptsOK, MadeWell, OnceTaken
  <2>2. taken \in SUBSET Receipts
    OBVIOUS
  <2>3. /\ requests' = [requests EXCEPT ![r] = read]
        /\ UNCHANGED <<po, direct, receipts, returns, stock, jobs, lost>>
    BY <1>5 DEF FindReceipts
  <2> HIDE DEF taken
  <2>4. read \in SawReceipts /\ read.kind = "receipts" /\ read.taken = taken
    BY <2>2 DEF SawReceipts
  <2> HIDE DEF read
  <2> QED BY <1>4, <2>1, <2>3, <2>4 DEF Requesting
<1>6. CASE ReadStock(r)
  <2> DEFINE taken == requests[r].taken
             read == [kind |-> "stock", taken |-> taken, shelf |-> stock]
  <2>1. requests[r].kind = "receipts"
    BY <1>6 DEF ReadStock
  <2>2. taken \in SUBSET Receipts /\ \A g \in taken : OnceTaken(receipts[g])
    BY <1>1, <2>1, Seen DEF ProcurementInv, TakenOK, SawReceipts
  <2>3. /\ requests' = [requests EXCEPT ![r] = read]
        /\ UNCHANGED <<po, direct, receipts, returns, stock, jobs, lost>>
    BY <1>6 DEF ReadStock
  <2>5. taken # {}
    BY <1>6 DEF ReadStock
  <2> HIDE DEF taken
  <2>4. read \in SawStock /\ read.kind = "stock" /\ read.taken = taken
    BY <1>1, <2>2, <2>5 DEF SawStock
  <2> HIDE DEF read
  <2> QED BY <1>4, <2>2, <2>3, <2>4 DEF Requesting
<1> QED BY <1>3, <1>5, <1>6

LEMMA PaymentHolds ==
  ASSUME ProcurementInv, NEW a \in Payments, RecordPayment(a)
  PROVE  ProcurementInv'
<1>1. ProcurementTypeOK /\ po \in PoRow /\ a \in Nat
  BY Types, ProcurementAssumption DEF ProcurementInv
<1>2. po.paid + a \in 0..Ordered
  BY <1>1, ProcurementAssumption DEF RecordPayment, PoRow
<1>3. po' \in PoRow /\ po'.line = po.line /\ po'.received = po.received /\ po'.status = po.status
  BY <1>1, <1>2 DEF RecordPayment, PoRow
<1>4. Exists /\ po.status # "absent"
      /\ UNCHANGED <<direct, receipts, returns, stock, jobs, requests, lost>>
  BY DEF RecordPayment, Exists
<1>5. requests' \in [Requests -> Requesting]
  BY <1>1, <1>4 DEF ProcurementTypeOK, Requesting
<1> QED BY <1>3, <1>4, <1>5, HeaderOnly

LEMMA ShelfIsNat ==
  ASSUME ProcurementTypeOK
  PROVE  Shelf \in Nat /\ LineTotal \in Nat
<1>1. IsFiniteSet(Receipts) /\ \A h \in Receipts : receipts[h].qty \in Nat
  BY Types, ProcurementAssumption
<1> DEFINE S == {h \in InStock : receipts[h].line = po.line}
<1>2. S \in SUBSET Receipts /\ InStock \in SUBSET Receipts /\ LineTotal = Total(receipts, S)
  BY DEF InStock, LineTotal
<1> HIDE DEF S
<1> QED BY <1>1, <1>2, TotalIs DEF Shelf

-----------------------------------------------------------------------------
(* The line. *)
LEMMA ReplaceLineHolds ==
  ASSUME ProcurementInv, NEW r \in Requests, ReplaceLine(r)
  PROVE  ProcurementInv'
<1>1. ProcurementTypeOK /\ po \in PoRow /\ Lines = 1..(MaxEdits + 1) /\ MaxEdits \in Nat
  BY Types DEF ProcurementInv, Lines
<1>2. Exists /\ po.line <= MaxEdits /\ requests[r].received = 0
  BY DEF ReplaceLine
<1> DEFINE p1 == [po EXCEPT !.line = @ + 1]
           p2 == [p1 EXCEPT !.received = 0]
<1>3. p1 \in PoRow /\ p1.line = po.line + 1 /\ p1.status = po.status
  BY <1>1, <1>2 DEF PoRow
<1> HIDE DEF p1
<1>4. p2 \in PoRow /\ p2.line = po.line + 1 /\ p2.status = po.status /\ p2.received = 0
  BY <1>3 DEF PoRow
<1>5. po' = Billed(p2, requests[r])
  BY <1>2 DEF ReplaceLine, p1
<1> HIDE DEF p2
<1>6. po' \in PoRow /\ po'.line = po.line + 1 /\ po'.status = po.status /\ po'.received = 0
  BY <1>4, <1>5, BilledIs
<1>7. UNCHANGED <<direct, receipts, returns, stock, jobs, lost>> /\ Done(r)
  BY DEF ReplaceLine
<1>8. ProcurementTypeOK'
  BY <1>1, <1>6, <1>7, ClearRequest DEF ProcurementTypeOK, PoRow, Requesting
<1>9. po.line \in Nat /\ po.line + 1 \in Lines
  BY <1>1, <1>2 DEF PoRow
<1>10. ReceiptsOK'
  <2>1. ASSUME NEW g \in Receipts, receipts[g].status # "absent" PROVE receipts[g].line <= po.line + 1
    <3>1. receipts[g].line \in Int
      BY <1>1, Types DEF ReceiptRow
    <3> QED BY <1>9, <2>1, <3>1 DEF ProcurementInv, ReceiptsOK
  <2> QED BY <1>6, <1>7, <2>1 DEF ProcurementInv, ReceiptsOK
<1>11. LinesOK'
  <2>1. ASSUME NEW s \in Requests, requests'[s].kind = "order" PROVE requests'[s].line <= po'.line
    <3>1. requests'[s] = requests[s]
      BY <1>1, <1>7, <2>1, ClearRequest DEF Idle
    <3>2. requests[s].line <= po.line /\ requests[s] \in SawOrder
      BY <2>1, <3>1, Seen DEF ProcurementInv, LinesOK
    <3> QED BY <1>1, <1>6, <1>9, <3>1, <3>2 DEF SawOrder
  <2>2. \A l \in Lines : l > po'.line => direct'[l] = 0
    BY <1>1, <1>6, <1>7, <1>9 DEF ProcurementInv, LinesOK
  <2> QED BY <2>1, <2>2 DEF LinesOK
<1>12. AbsentOK' /\ BookedOnce' /\ TakenOK'
  <2>1. TakenOK'
    BY <1>1, <1>7, ClearRequest, TakenStays DEF ProcurementInv
  <2> QED BY <1>2, <1>6, <1>7, <2>1 DEF ProcurementInv, AbsentOK, BookedOnce, Exists
<1>13. StockFollowsDocuments'
  <2>1. Shelf' = Shelf /\ Claimed' = Claimed /\ (OrderTookBack' <=> OrderTookBack)
    BY <1>7, ReceiptsStay, OtherSums, TookBackStays
  <2> QED BY <1>7, <2>1, SumsAre, SumsAreNow DEF ProcurementInv, StockIs
<1>14. ReceivedIsCounted'
  <2>1. ASSUME NEW g \in Receipts PROVE ~(receipts[g].posted /\ receipts[g].line = po.line + 1)
    <3>1. CASE receipts[g].status = "absent"
      BY <3>1 DEF ProcurementInv, ReceiptsOK, NoReceipt
    <3>2. CASE receipts[g].status # "absent"
      <4>1. receipts[g].line <= po.line
        BY <3>2 DEF ProcurementInv, ReceiptsOK
      <4> QED BY <1>9, <4>1
    <3> QED BY <3>1, <3>2
  <2>2. {g \in InStock' : receipts'[g].line = po'.line} = {}
    BY <1>6, <1>7, <2>1 DEF InStock
  <2>3. LineTotal' = 0
    BY <2>2, TotalOfNone DEF LineTotal
  <2>4. direct'[po'.line] = 0
    BY <1>6, <1>7, <1>9 DEF ProcurementInv, LinesOK
  <2> QED BY <1>6, <2>3, <2>4, SumsAreNow DEF LineIs
<1>15. WithinTolerance'
  BY <1>6, DeliverableIsNat DEF WithinTolerance, MaxDeliverable
<1> QED BY <1>8, <1>10, <1>11, <1>12, <1>13, <1>14, <1>15 DEF ProcurementInv

(* What a goods receipt adds to a line: at most the room that is left.     *)
LEMMA SmallerIsAtMost ==
  ASSUME NEW a \in Nat, NEW b \in Nat
  PROVE  (IF a < b THEN a ELSE b) \in Nat /\ (IF a < b THEN a ELSE b) <= b
OBVIOUS

(* The line after the received count is written.                           *)
LEMMA ReceivedWritten ==
  ASSUME po \in PoRow, NEW n \in Nat
  PROVE  /\ [po EXCEPT !.received = n] \in PoRow
         /\ [po EXCEPT !.received = n].line = po.line
         /\ [po EXCEPT !.received = n].status = po.status
         /\ [po EXCEPT !.received = n].received = n
BY DEF PoRow

(* Receiving goods on the order itself keeps the invariant.                *)
LEMMA ReceiveHolds ==
  ASSUME ProcurementInv, NEW r \in Requests, NEW asked \in Quantities, Receive(r, asked)
  PROVE  ProcurementInv'
<1>1. /\ ProcurementTypeOK /\ po \in PoRow /\ Lines = 1..(MaxEdits + 1) /\ MaxEdits \in Nat
      /\ direct \in [Lines -> Nat] /\ stock \in Nat /\ asked \in Nat
  BY Types DEF ProcurementInv, Lines
<1>2. Saw(r) /\ po.status # "absent" /\ Done(r) /\ UNCHANGED <<receipts, returns, jobs, lost>>
  BY SawMeansSeen DEF Receive
<1>3. CASE ~HasLine(requests[r].line)
  <2>1. po' = Fulfilled(po, returns) /\ UNCHANGED <<direct, stock>>
    BY <1>3 DEF Receive
  <2>2. po' \in PoRow /\ po'.line = po.line /\ po'.received = po.received /\ po'.status # "absent"
        /\ (Exists' => Exists)
    BY <1>1, <1>2, <2>1, FulfilledIs DEF Exists
  <2> QED BY <1>1, <1>2, <2>1, <2>2, ClearRequest, HeaderOnly
<1>4. CASE HasLine(requests[r].line)
  <2> DEFINE room == Room(requests[r])
             q == Min({asked, room})
             p == [po EXCEPT !.received = @ + q]
  <2>1. /\ po.received \in Nat /\ MaxDeliverable \in Nat /\ po.line \in Lines
        /\ Exists /\ requests[r].line = po.line
    BY <1>1, <1>4, DeliverableIsNat DEF PoRow, HasLine
  <2>2. room = IF MaxDeliverable > po.received THEN MaxDeliverable - po.received ELSE 0
    <3>1. Max({0, MaxDeliverable - po.received})
            = IF MaxDeliverable - po.received > 0 THEN MaxDeliverable - po.received ELSE 0
      BY <2>1, AtLeastZero
    <3> QED BY <2>1, <3>1 DEF Room
  <2> HIDE DEF room
  <2>3. q = (IF asked < room THEN asked ELSE room) /\ room \in Nat
    <3>1. room \in Nat
      BY <2>1, <2>2
    <3>2. asked \in Int /\ room \in Int
      BY <1>1, <3>1
    <3> QED BY <3>1, <3>2, SmallerOf
  <2> HIDE DEF q
  <2>4. q \in Nat /\ q <= room
    <3>1. asked \in Nat /\ room \in Nat /\ q = IF asked < room THEN asked ELSE room
      BY <1>1, <2>3
    <3> QED BY <3>1, SmallerIsAtMost
  <2>5. p \in PoRow /\ p.line = po.line /\ p.status = po.status /\ p.received = po.received + q
    <3>1. PICK n \in Nat : n = po.received + q
      BY <2>1, <2>4
    <3>2. p = [po EXCEPT !.received = n]
      BY <3>1
    <3> HIDE DEF p
    <3> QED BY <1>1, <3>1, <3>2, ReceivedWritten
  <2>6. /\ po' = Fulfilled(p, returns)
        /\ direct' = [direct EXCEPT ![po.line] = @ + q] /\ stock' = stock + q
    BY <1>4, <2>1 DEF Receive, q, room
  <2> HIDE DEF p
  <2>7. po' \in PoRow /\ po'.line = po.line /\ po'.received = po.received + q
        /\ po'.status # "absent"
    BY <1>2, <2>5, <2>6, FulfilledIs
  <2>8. direct' \in [Lines -> Nat] /\ direct'[po.line] = direct[po.line] + q
        /\ \A l \in Lines : l # po.line => direct'[l] = direct[l]
    <3>1. direct \in [Lines -> Nat] /\ po.line \in Lines
      BY <1>1, <2>1
    <3>2. PICK n \in Nat : n = direct[po.line] + q
      BY <2>4, <3>1
    <3>3. direct' = [direct EXCEPT ![po.line] = n]
      BY <2>6, <3>2
    <3> QED BY <3>1, <3>2, <3>3
  <2>9. ProcurementTypeOK'
    <3>1. stock' \in Nat
      BY <1>1, <2>4, <2>6
    <3>2. requests' \in [Requests -> Requesting]
      BY <1>1, <1>2, ClearRequest
    <3> QED BY <1>1, <1>2, <2>7, <2>8, <3>1, <3>2 DEF ProcurementTypeOK, PoRow, Requesting
  <2>10. ReceiptsOK' /\ AbsentOK' /\ BookedOnce' /\ TakenOK'
    <3>1. TakenOK'
      BY <1>1, <1>2, ClearRequest, TakenStays DEF ProcurementInv
    <3> QED BY <1>2, <2>7, <3>1 DEF ProcurementInv, ReceiptsOK, AbsentOK, BookedOnce
  <2>11. LinesOK'
    <3>1. ASSUME NEW s \in Requests, requests'[s].kind = "order" PROVE requests'[s].line <= po'.line
      <4>1. requests'[s] = requests[s]
        BY <1>1, <1>2, <3>1, ClearRequest DEF Idle
      <4> QED BY <2>7, <3>1, <4>1 DEF ProcurementInv, LinesOK
    <3>2. \A l \in Lines : l > po'.line => direct'[l] = 0
      BY <1>1, <2>1, <2>7, <2>8 DEF ProcurementInv, LinesOK
    <3> QED BY <3>1, <3>2 DEF LinesOK
  <2>12. StockFollowsDocuments'
    <3>1. Shelf' = Shelf /\ Claimed' = Claimed /\ (OrderTookBack' <=> OrderTookBack)
      BY <1>2, ReceiptsStay, OtherSums, TookBackStays
    <3>2. DOMAIN direct = Lines /\ DOMAIN direct' = Lines
      BY <1>1, <2>8
    <3>3. IsFiniteSet(Lines) /\ direct[po.line] \in Nat
      BY <1>1, <2>1, OtherSums
    <3>4. SumFunction(direct') = SumFunction(direct) + q
      <4>0. /\ direct \in [Lines -> Nat] /\ direct' \in [Lines -> Nat] /\ po.line \in Lines
            /\ \A l \in Lines : l # po.line => direct'[l] = direct[l]
        BY <1>1, <2>1, <2>8
      <4>1. SumFunction(direct) \in Nat
            /\ SumFunction(direct') = SumFunction(direct) - direct[po.line] + direct'[po.line]
        BY <3>3, <4>0, OneValueChanges
      <4> QED BY <2>4, <2>8, <3>3, <4>1
    <3>5. /\ QtyStock(Shelf) \in Nat /\ SumFunction(direct) \in Nat
          /\ QtyStock(Claimed) \in Nat /\ lost \in Nat
      BY <1>1, OtherSums, ShelfIsNat, Types, QtyStockIs
    <3>6. StockIs => StockIs'
      <4>1. PICK h \in Nat, c \in Nat, d \in Nat :
              h = QtyStock(Shelf) /\ c = QtyStock(Claimed) /\ d = SumFunction(direct)
        BY <3>5
      <4>2. QtyStock(Shelf') = h /\ QtyStock(Claimed') = c /\ SumFunction(direct') = d + q
        BY <3>1, <3>4, <4>1
      <4>3. ASSUME StockIs PROVE stock' = h + (d + q) - c + lost'
        <5>1. stock = h + d - c + lost
          BY <4>1, <4>3 DEF StockIs
        <5> QED BY <1>1, <1>2, <2>4, <2>6, <3>5, <5>1
      <4> QED BY <4>2, <4>3, StockIsNow
    <3> QED BY <3>1, <3>6, SumsAre, SumsAreNow DEF ProcurementInv
  <2>13. ReceivedIsCounted'
    <3>1. /\ LineTotal' = LineTotal /\ LineTotal \in Nat /\ direct[po.line] \in Nat
          /\ OrderTookBack' <=> OrderTookBack
      BY <1>1, <1>2, <2>1, <2>7, ReceiptsStay, ShelfIsNat, TookBackStays
    <3>2. LineIs
      BY <2>1, SumsAre DEF ProcurementInv
    <3>3. LineIs'
      BY <2>1, <2>4, <2>7, <2>8, <3>1, <3>2 DEF LineIs
    <3> QED BY <3>3, SumsAreNow
  <2>14. WithinTolerance'
    <3>1. ASSUME \A g \in Receipts : ~receipts[g].loose PROVE po.received + q <= MaxDeliverable
      <4>1. po.received <= MaxDeliverable
        BY <3>1 DEF ProcurementInv, WithinTolerance
      <4> QED BY <2>1, <2>2, <2>4, <4>1
    <3> QED BY <1>2, <2>7, <3>1 DEF WithinTolerance, MaxDeliverable
  <2> QED BY <2>9, <2>10, <2>11, <2>12, <2>13, <2>14 DEF ProcurementInv
<1> QED BY <1>3, <1>4

-----------------------------------------------------------------------------
(* One receipt. *)
ReceiptStatus == {"absent", "draft", "completed", "cancelled", "deleted"}

(* One field of one receipt is written. *)
WithStatus(R, g, s) == [R EXCEPT ![g].status = s]

LEMMA WriteStatus ==
  ASSUME NEW R \in [Receipts -> ReceiptRow], NEW g \in Receipts, NEW s \in ReceiptStatus
  PROVE  /\ WithStatus(R, g, s) \in [Receipts -> ReceiptRow]
         /\ \A h \in Receipts : h # g => WithStatus(R, g, s)[h] = R[h]
         /\ WithStatus(R, g, s)[g].status = s
         /\ WithStatus(R, g, s)[g].line = R[g].line
         /\ WithStatus(R, g, s)[g].qty = R[g].qty
         /\ WithStatus(R, g, s)[g].posted = R[g].posted
         /\ WithStatus(R, g, s)[g].loose = R[g].loose
<1> DEFINE N == WithStatus(R, g, s)
<1>1. R[g] \in ReceiptRow
  OBVIOUS
<1>2. [R[g] EXCEPT !.status = s] \in ReceiptRow
  BY <1>1 DEF ReceiptRow, ReceiptStatus
<1>3. /\ N[g] = [R[g] EXCEPT !.status = s] /\ N \in [Receipts -> ReceiptRow]
      /\ \A h \in Receipts : h # g => N[h] = R[h]
  BY <1>1, <1>2 DEF WithStatus
<1> HIDE DEF N
<1> QED BY <1>1, <1>2, <1>3 DEF ReceiptRow, N

WithLine(R, g, l) == [R EXCEPT ![g].line = l]

LEMMA WriteLine ==
  ASSUME NEW R \in [Receipts -> ReceiptRow], NEW g \in Receipts, NEW l \in 0..(MaxEdits + 1)
  PROVE  /\ WithLine(R, g, l) \in [Receipts -> ReceiptRow]
         /\ \A h \in Receipts : h # g => WithLine(R, g, l)[h] = R[h]
         /\ WithLine(R, g, l)[g].line = l
         /\ WithLine(R, g, l)[g].status = R[g].status
         /\ WithLine(R, g, l)[g].qty = R[g].qty
         /\ WithLine(R, g, l)[g].posted = R[g].posted
         /\ WithLine(R, g, l)[g].loose = R[g].loose
<1> DEFINE N == WithLine(R, g, l)
<1>1. R[g] \in ReceiptRow
  OBVIOUS
<1>2. [R[g] EXCEPT !.line = l] \in ReceiptRow
  BY <1>1 DEF ReceiptRow
<1>3. /\ N[g] = [R[g] EXCEPT !.line = l] /\ N \in [Receipts -> ReceiptRow]
      /\ \A h \in Receipts : h # g => N[h] = R[h]
  BY <1>1, <1>2 DEF WithLine
<1> HIDE DEF N
<1> QED BY <1>1, <1>2, <1>3 DEF ReceiptRow, N

WithQty(R, g, q) == [R EXCEPT ![g].qty = q]

LEMMA WriteQty ==
  ASSUME NEW R \in [Receipts -> ReceiptRow], NEW g \in Receipts, NEW q \in Nat
  PROVE  /\ WithQty(R, g, q) \in [Receipts -> ReceiptRow]
         /\ \A h \in Receipts : h # g => WithQty(R, g, q)[h] = R[h]
         /\ WithQty(R, g, q)[g].qty = q
         /\ WithQty(R, g, q)[g].status = R[g].status
         /\ WithQty(R, g, q)[g].line = R[g].line
         /\ WithQty(R, g, q)[g].posted = R[g].posted
         /\ WithQty(R, g, q)[g].loose = R[g].loose
<1> DEFINE N == WithQty(R, g, q)
<1>1. R[g] \in ReceiptRow
  OBVIOUS
<1>2. [R[g] EXCEPT !.qty = q] \in ReceiptRow
  BY <1>1 DEF ReceiptRow
<1>3. /\ N[g] = [R[g] EXCEPT !.qty = q] /\ N \in [Receipts -> ReceiptRow]
      /\ \A h \in Receipts : h # g => N[h] = R[h]
  BY <1>1, <1>2 DEF WithQty
<1> HIDE DEF N
<1> QED BY <1>1, <1>2, <1>3 DEF ReceiptRow, N

WithPosted(R, g, b) == [R EXCEPT ![g].posted = b]

LEMMA WritePosted ==
  ASSUME NEW R \in [Receipts -> ReceiptRow], NEW g \in Receipts, NEW b \in BOOLEAN
  PROVE  /\ WithPosted(R, g, b) \in [Receipts -> ReceiptRow]
         /\ \A h \in Receipts : h # g => WithPosted(R, g, b)[h] = R[h]
         /\ WithPosted(R, g, b)[g].posted = b
         /\ WithPosted(R, g, b)[g].status = R[g].status
         /\ WithPosted(R, g, b)[g].line = R[g].line
         /\ WithPosted(R, g, b)[g].qty = R[g].qty
         /\ WithPosted(R, g, b)[g].loose = R[g].loose
<1> DEFINE N == WithPosted(R, g, b)
<1>1. R[g] \in ReceiptRow
  OBVIOUS
<1>2. [R[g] EXCEPT !.posted = b] \in ReceiptRow
  BY <1>1 DEF ReceiptRow
<1>3. /\ N[g] = [R[g] EXCEPT !.posted = b] /\ N \in [Receipts -> ReceiptRow]
      /\ \A h \in Receipts : h # g => N[h] = R[h]
  BY <1>1, <1>2 DEF WithPosted
<1> HIDE DEF N
<1> QED BY <1>1, <1>2, <1>3 DEF ReceiptRow, N

(* A job is sent for a receipt that had none. *)
LEMMA FirstJob ==
  ASSUME ProcurementTypeOK, NEW g \in Receipts, NEW q \in Nat, jobs[g] = <<>>, Job(g, q)
  PROVE  /\ jobs' \in [Receipts -> Seq(Nat)] /\ Len(jobs'[g]) = 1
         /\ \A h \in Receipts : h # g => jobs'[h] = jobs[h]
<1>1. jobs \in [Receipts -> Seq(Nat)]
  BY DEF ProcurementTypeOK
<1> DEFINE one == Append(jobs[g], q)
<1>2. one \in Seq(Nat) /\ Len(one) = 1
  BY <1>1
<1>3. jobs' = [jobs EXCEPT ![g] = one]
  BY DEF Job
<1> HIDE DEF one
<1> QED BY <1>1, <1>2, <1>3

LEMMA ShelfMoves ==
  ASSUME NEW s \in Nat, NEW t \in Nat, NEW l \in Nat, NEW m \in Nat, NEW h \in Nat, NEW k \in Nat,
         NEW d \in Nat, NEW c \in Nat, NEW old \in Nat, NEW new \in Nat,
         s = h + d - c + l, t - m = s - l - old + new, k = h - old + new
  PROVE  t = k + d - c + m
OBVIOUS

(* The same of the system's own state, when one receipt changes what it    *)
(* holds and no other document does.                                       *)
LEMMA GoodsFollow ==
  ASSUME NEW g \in Receipts, stock \in Nat, stock' \in Nat, lost \in Nat, lost' \in Nat,
         Shelf \in Nat, Shelf' \in Nat, SumFunction(direct) \in Nat, Claimed \in Nat,
         Held(g) \in Nat, Held(g)' \in Nat,
         stock = QtyStock(Shelf) + SumFunction(direct) - QtyStock(Claimed) + lost,
         stock' - lost' = stock - lost - QtyStock(Held(g)) + QtyStock(Held(g)'),
         Shelf' = Shelf - Held(g) + Held(g)'
  PROVE  stock' = QtyStock(Shelf') + SumFunction(direct) - QtyStock(Claimed) + lost'
<1>1. PICK a \in Nat, b \in Nat, x \in Nat, y \in Nat :
        a = Held(g) /\ b = Held(g)' /\ x = Shelf /\ y = Shelf'
  OBVIOUS
<1>2. QtyStock(y) = QtyStock(x) - QtyStock(a) + QtyStock(b)
  <2>1. y = x - a + b
    BY <1>1
  <2> QED BY <2>1, QtyStockMoves
<1>3. PICK old \in Nat, new \in Nat, sum \in Nat, s \in Nat, t \in Nat, l \in Nat, m \in Nat,
           h \in Nat, k \in Nat, c \in Nat :
        /\ old = QtyStock(a) /\ new = QtyStock(b) /\ sum = SumFunction(direct)
        /\ c = QtyStock(Claimed) /\ s = stock /\ t = stock' /\ l = lost /\ m = lost'
        /\ h = QtyStock(x) /\ k = QtyStock(y)
  BY QtyStockIs
<1>4. t - m = s - l - old + new /\ k = h - old + new /\ s = h + sum - c + l
  BY <1>1, <1>2, <1>3
<1>5. t = k + sum - c + m
  BY <1>4, ShelfMoves
<1> QED BY <1>1, <1>3, <1>5

(* GREATEST(n - m, 0). *)
Without(n, m) == IF n > m THEN n - m ELSE 0

(* And of the line: what was received is what the receipts for it and the  *)
(* direct deliveries brought, or less if an order took receipts back.      *)
LEMMA LineFollows ==
  ASSUME NEW g \in Receipts, po.received \in Nat, po'.received \in Nat, direct[po.line] \in Nat,
         LineTotal \in Nat, LineTotal' \in Nat, HeldHere(g) \in Nat, HeldHere(g)' \in Nat,
         po.received <= LineTotal + direct[po.line], HeldHere(g) <= LineTotal,
         \/ po'.received = Without(po.received, HeldHere(g)) + HeldHere(g)'
         \/ po'.received = po.received /\ HeldHere(g)' = HeldHere(g),
         LineTotal' = LineTotal - HeldHere(g) + HeldHere(g)'
  PROVE  /\ po'.received <= LineTotal' + direct[po.line]
         /\ po.received = LineTotal + direct[po.line] => po'.received = LineTotal' + direct[po.line]
<1>1. PICK old \in Nat, new \in Nat, here \in Nat, a \in Nat, b \in Nat, t \in Nat, u \in Nat :
        /\ old = HeldHere(g) /\ new = HeldHere(g)' /\ here = direct[po.line]
        /\ a = po.received /\ b = po'.received /\ t = LineTotal /\ u = LineTotal'
  OBVIOUS
<1>2. /\ old <= t /\ u = t - old + new /\ a <= t + here
      /\ b = Without(a, old) + new \/ (b = a /\ new = old)
  BY <1>1
<1>3. b <= u + here /\ (a = t + here => b = u + here)
  BY <1>2 DEF Without
<1> QED BY <1>1, <1>3

LEMMA LineStaysCounted ==
  ASSUME NEW g \in Receipts, ProcurementTypeOK, ReceivedIsCounted,
         po.received \in Nat, po'.received \in Nat, po.line \in Lines,
         LineTotal \in Nat, LineTotal' \in Nat, HeldHere(g) \in Nat, HeldHere(g)' \in Nat,
         HeldHere(g) <= LineTotal, OrderTookBack => OrderTookBack',
         Exists' => Exists, direct' = direct, po'.line = po.line,
         Exists => \/ po'.received = Without(po.received, HeldHere(g)) + HeldHere(g)'
                   \/ po'.received = po.received /\ HeldHere(g)' = HeldHere(g),
         LineTotal' = LineTotal - HeldHere(g) + HeldHere(g)'
  PROVE  ReceivedIsCounted'
<1>1. CASE Exists
  <2>1. direct[po.line] \in Nat
    BY Types
  <2>2. LineIs
    BY <1>1, SumsAre
  <2>3. po.received <= LineTotal + direct[po.line]
    BY <2>2 DEF LineIs
  <2>4. \/ po'.received = Without(po.received, HeldHere(g)) + HeldHere(g)'
        \/ po'.received = po.received /\ HeldHere(g)' = HeldHere(g)
    BY <1>1
  <2>5. /\ po'.received <= LineTotal' + direct[po.line]
        /\ po.received = LineTotal + direct[po.line] => po'.received = LineTotal' + direct[po.line]
    BY <2>1, <2>3, <2>4, LineFollows
  <2>6. LineIs'
    BY <2>2, <2>5 DEF LineIs
  <2> QED BY <2>6, SumsAreNow
<1>2. CASE ~Exists
  BY <1>2, SumsAreNow
<1> QED BY <1>1, <1>2

(* A line within the tolerance stays there when a step does not raise what *)
(* was received, or checks the result.                                     *)
LEMMA StaysWithin ==
  ASSUME po.received \in Nat, po'.received \in Nat, MaxDeliverable \in Nat,
         po.received <= MaxDeliverable,
         po'.received <= po.received \/ po'.received <= MaxDeliverable
  PROVE  po'.received <= MaxDeliverable
<1>1. PICK a \in Nat, b \in Nat, m \in Nat :
        a = po.received /\ b = po'.received /\ m = MaxDeliverable
  OBVIOUS
<1>2. a <= m /\ (b <= a \/ b <= m)
  BY <1>1
<1>3. b <= m
  BY <1>2
<1> QED BY <1>1, <1>3

(* What a receipt has booked, by its status. *)
Booked(row, sent) ==
  /\ row.status = "completed" => Len(sent) = 1
  /\ row.status \in {"absent", "draft", "deleted"} => sent = <<>>
  /\ Len(sent) <= 1

(* Steps on one receipt: goods, line and journal follow what it holds.     *)
LEMMA OneReceipt ==
  ASSUME ProcurementInv, NEW g \in Receipts, po.status # "absent",
         po' \in PoRow, po'.line = po.line, po'.status # "absent", Exists' => Exists,
         receipts' \in [Receipts -> ReceiptRow],
         \A h \in Receipts : h # g => receipts'[h] = receipts[h],
         receipts[g].status \in {"absent", "draft"},
         receipts'[g].status # "absent", MadeWell(receipts'[g]), receipts'[g].line <= po.line,
         stock' \in Nat, lost' \in Nat,
         stock' - lost' = stock - lost - QtyStock(Held(g)) + QtyStock(Held(g)'),
         Exists => \/ po'.received = Without(po.received, HeldHere(g)) + HeldHere(g)'
                   \/ po'.received = po.received /\ HeldHere(g)' = HeldHere(g),
         receipts'[g].loose
           \/ po'.received <= po.received \/ po'.received <= MaxDeliverable,
         receipts'[g].loose = receipts[g].loose \/ receipts[g] = NoReceipt,
         UNCHANGED <<direct, returns>>,
         jobs' \in [Receipts -> Seq(Nat)], Booked(receipts'[g], jobs'[g]),
         \A h \in Receipts : h # g => jobs'[h] = jobs[h],
         requests' \in [Requests -> Requesting],
         \A r \in Requests : requests'[r] = requests[r] \/ requests'[r] = Idle
  PROVE  ProcurementInv'
<1>1. ProcurementTypeOK /\ po \in PoRow /\ po.received \in Nat /\ po.line \in Lines
  BY Types DEF ProcurementInv, PoRow
<1>2. ProcurementTypeOK'
  BY <1>1 DEF ProcurementTypeOK, PoRow, ReceiptRow, Requesting
<1>3. ReceiptsOK'
  <2> SUFFICES ASSUME NEW h \in Receipts
               PROVE  /\ receipts'[h].status = "absent" => receipts'[h] = NoReceipt
                      /\ receipts'[h].status # "absent" =>
                           MadeWell(receipts'[h]) /\ receipts'[h].line <= po'.line
    BY DEF ReceiptsOK, MadeWell
  <2>1. CASE h = g
    BY <2>1
  <2>2. CASE h # g
    BY <2>2 DEF ProcurementInv, ReceiptsOK
  <2> QED BY <2>1, <2>2
<1>4. LinesOK'
  <2>1. ASSUME NEW s \in Requests, requests'[s].kind = "order" PROVE requests'[s].line <= po'.line
    <3>1. requests'[s] = requests[s]
      BY <2>1 DEF Idle
    <3> QED BY <2>1, <3>1 DEF ProcurementInv, LinesOK
  <2> QED BY <2>1 DEF ProcurementInv, LinesOK
<1>5. AbsentOK'
  BY DEF AbsentOK
<1>6. /\ Shelf \in Nat /\ Shelf' \in Nat /\ LineTotal \in Nat /\ LineTotal' \in Nat
      /\ Shelf' = Shelf - Held(g) + Held(g)' /\ LineTotal' = LineTotal - HeldHere(g) + HeldHere(g)'
  BY <1>1, <1>2, ReceiptChanges
<1>7. /\ Held(g) \in Nat /\ HeldHere(g) \in Nat /\ Held(g)' \in Nat /\ HeldHere(g)' \in Nat
  <2>1. receipts'[g] \in ReceiptRow
    OBVIOUS
  <2>2. receipts'[g].qty \in Nat
    BY <2>1 DEF ReceiptRow
  <2> QED BY <1>1, <2>2, HeldIsCounted DEF Held, HeldHere
<1>12. TakenOK'
  <2>1. ASSUME NEW h \in Receipts, OnceTaken(receipts[h]) PROVE OnceTaken(receipts'[h])
    <3>1. h # g
      BY <2>1 DEF OnceTaken
    <3> QED BY <2>1, <3>1
  <2> QED BY <1>1, <2>1, TakenStays DEF ProcurementInv
<1>13. OrderTookBack => OrderTookBack'
  <2> SUFFICES ASSUME NEW h \in Receipts, receipts[h].posted, receipts[h].status = "cancelled"
               PROVE  receipts'[h].posted /\ receipts'[h].status = "cancelled"
    BY DEF OrderTookBack
  <2>1. h # g
    OBVIOUS
  <2> QED BY <2>1
<1>8. StockFollowsDocuments'
  <2> SUFFICES ASSUME ~OrderTookBack' PROVE StockIs'
    BY SumsAreNow
  <2>1. /\ stock = QtyStock(Shelf) + SumFunction(direct) - QtyStock(Claimed) + lost
        /\ Claimed' = Claimed
    BY <1>13, SumsAre, OtherSums DEF ProcurementInv, StockIs
  <2>2. SumFunction(direct) \in Nat /\ Claimed \in Nat /\ stock \in Nat /\ lost \in Nat
    BY <1>1, OtherSums, Types
  <2>3. stock' = QtyStock(Shelf') + SumFunction(direct) - QtyStock(Claimed) + lost'
    BY <1>6, <1>7, <2>1, <2>2, GoodsFollow
  <2> QED BY <2>1, <2>3, StockIsNow
<1>9. ReceivedIsCounted'
  <2>1. ReceivedIsCounted
    BY DEF ProcurementInv
  <2>2. direct' = direct
    OBVIOUS
  <2>3. LineTotal' = LineTotal - HeldHere(g) + HeldHere(g)'
    BY <1>6
  <2>4. LineTotal \in Nat /\ LineTotal' \in Nat
    BY <1>6
  <2>5. HeldHere(g) \in Nat /\ HeldHere(g)' \in Nat /\ HeldHere(g) <= LineTotal
    BY <1>1, <1>7, HeldIsCounted
  <2>6. po'.received \in Nat
    BY DEF PoRow
  <2> QED BY <1>1, <1>13, <2>1, <2>2, <2>3, <2>4, <2>5, <2>6, LineStaysCounted
<1>10. WithinTolerance'
  <2> SUFFICES ASSUME \A h \in Receipts : ~receipts'[h].loose
               PROVE  po'.received <= MaxDeliverable
    BY DEF WithinTolerance, MaxDeliverable
  <2>1. ~NoReceipt.loose
    BY DEF NoReceipt
  <2>5. ~receipts[g].loose
    <3>1. receipts[g].loose = receipts'[g].loose \/ receipts[g] = NoReceipt
      OBVIOUS
    <3> QED BY <2>1, <3>1
  <2>6. \A h \in Receipts : h # g => ~receipts[h].loose
    OBVIOUS
  <2>7. \A h \in Receipts : ~receipts[h].loose
    BY <2>5, <2>6
  <2>2. po.received <= MaxDeliverable
    BY <2>7 DEF ProcurementInv, WithinTolerance
  <2>3. po'.received \in Nat
    BY DEF PoRow
  <2>4. po'.received <= po.received \/ po'.received <= MaxDeliverable
    OBVIOUS
  <2> QED BY <1>1, <2>2, <2>3, <2>4, DeliverableIsNat, StaysWithin
<1>11. BookedOnce'
  <2> SUFFICES ASSUME NEW h \in Receipts PROVE Booked(receipts'[h], jobs'[h])
    BY DEF BookedOnce, Booked
  <2>1. CASE h # g
    BY <2>1 DEF ProcurementInv, BookedOnce, Booked
  <2> QED BY <2>1
<1> QED BY <1>2, <1>3, <1>4, <1>5, <1>8, <1>9, <1>10, <1>11, <1>12 DEF ProcurementInv

LEMMA CreateReceiptHolds ==
  ASSUME ProcurementInv, NEW r \in Requests, NEW g \in Receipts, NEW n \in Quantities,
         NEW again \in Repeats \cup {0}, NEW draft \in BOOLEAN, CreateReceipt(r, g, n, again, draft)
  PROVE  ProcurementInv'
<1>1. /\ ProcurementTypeOK /\ po \in PoRow /\ po.received \in Nat /\ po.line \in Lines
      /\ receipts \in [Receipts -> ReceiptRow] /\ stock \in Nat /\ lost \in Nat
      /\ n \in Nat \ {0} /\ again \in Nat
  BY Types, ProcurementAssumption DEF ProcurementInv, PoRow
<1>20. PICK q \in Nat : q = n + again
  BY <1>1
<1>2. /\ Saw(r) /\ po.status # "absent" /\ Done(r) /\ receipts[g] = NoReceipt
      /\ requests[r].line \in Lines /\ requests[r].line <= po.line
      /\ UNCHANGED <<direct, returns, lost>>
  BY SawMeansSeen DEF CreateReceipt
<1> DEFINE l == requests[r].line
           row == [status |-> IF draft THEN "draft" ELSE "completed", line |-> l, qty |-> q,
                   posted |-> ~draft, loose |-> draft \/ again > 0]
           p == IF draft THEN po ELSE Counted(po, l, q)
<1>3. l \in 0..(MaxEdits + 1)
  BY <1>2, ProcurementAssumption DEF Lines
<1>4. receipts' = [receipts EXCEPT ![g] = row]
  BY <1>20 DEF CreateReceipt
<1>5. /\ row \in ReceiptRow /\ row.status = (IF draft THEN "draft" ELSE "completed")
      /\ row.line = l /\ row.qty = q /\ row.posted = ~draft /\ row.loose = (draft \/ again > 0)
  BY <1>1, <1>3 DEF ReceiptRow
<1>6. MadeWell(row) /\ row.status # "absent"
  BY <1>5 DEF MadeWell
<1> HIDE DEF row
<1>7. /\ receipts' \in [Receipts -> ReceiptRow] /\ receipts'[g] = row
      /\ \A h \in Receipts : h # g => receipts'[h] = receipts[h]
  BY <1>1, <1>4, <1>5
<1>8. po' = Fulfilled(p, returns)
  BY <1>20 DEF CreateReceipt
<1>9. p \in PoRow /\ p.line = po.line /\ p.status = po.status
      /\ p.received = IF draft \/ ~HasLine(l) THEN po.received ELSE po.received + q
  BY <1>1, CountedIs
<1> HIDE DEF p
<1>10. /\ po' \in PoRow /\ po'.line = po.line /\ po'.received = p.received
       /\ po'.status # "absent" /\ (Exists' => Exists)
  BY <1>2, <1>8, <1>9, FulfilledIs DEF Exists
<1>11. /\ Held(g) = 0 /\ HeldHere(g) = 0
       /\ Held(g)' = (IF draft THEN 0 ELSE q)
       /\ HeldHere(g)' = IF draft \/ l # po.line THEN 0 ELSE q
  <2>1. Held(g) = 0 /\ HeldHere(g) = 0
    BY <1>2 DEF Held, HeldHere, InStock, NoReceipt
  <2>2. g \in InStock' <=> ~draft
    BY <1>5, <1>7 DEF InStock
  <2>3. receipts'[g].qty = q /\ receipts'[g].line = l /\ po'.line = po.line
    BY <1>5, <1>7, <1>9, <1>10
  <2> QED BY <2>1, <2>2, <2>3 DEF Held, HeldHere
<1>12. stock' = (IF draft THEN stock ELSE stock + QtyStock(q))
  BY <1>20 DEF CreateReceipt
<1>13. /\ stock' \in Nat /\ lost' \in Nat
       /\ stock' - lost' = stock - lost - QtyStock(Held(g)) + QtyStock(Held(g)')
  <2>1. QtyStock(Held(g)) = 0 /\ QtyStock(Held(g)') = IF draft THEN 0 ELSE QtyStock(q)
    BY <1>11, QtyStockOfNone
  <2>2. QtyStock(q) \in Nat
    BY QtyStockIs
  <2> QED BY <1>1, <1>2, <1>12, <2>1, <2>2
<1>14. Exists => \/ po'.received = Without(po.received, HeldHere(g)) + HeldHere(g)'
                 \/ po'.received = po.received /\ HeldHere(g)' = HeldHere(g)
  <2>1. Without(po.received, 0) = po.received
    BY <1>1 DEF Without
  <2> QED BY <1>1, <1>9, <1>10, <1>11, <2>1 DEF HasLine
<1>15. row.loose \/ po'.received <= po.received \/ po'.received <= MaxDeliverable
  <2>1. CASE draft \/ ~HasLine(l)
    BY <1>1, <1>9, <1>10, <2>1
  <2>3. CASE again # 0
    <3>1. again > 0
      BY <1>1, <2>3
    <3>2. row.loose
      BY <1>5, <3>1, Zenon
    <3> QED BY <3>2
  <2>2. CASE ~draft /\ HasLine(l) /\ again = 0
    <3>1. q <= Room(requests[r])
      BY <1>1, <1>20, <2>2 DEF CreateReceipt
    <3>2. Room(requests[r]) = IF MaxDeliverable - po.received > 0 THEN MaxDeliverable - po.received ELSE 0
      BY <1>1, AtLeastZero, DeliverableIsNat DEF Room
    <3>3. q # 0
      BY <1>1, <1>20, <2>2
    <3>4. po.received + q <= MaxDeliverable
      BY <1>1, <3>1, <3>2, <3>3, DeliverableIsNat
    <3> QED BY <1>9, <1>10, <2>2, <3>4
  <2> QED BY <2>1, <2>2, <2>3
<1>16. jobs[g] = <<>> /\ jobs \in [Receipts -> Seq(Nat)]
  BY <1>1, <1>2 DEF ProcurementInv, BookedOnce, NoReceipt, ProcurementTypeOK
<1>17. /\ jobs' \in [Receipts -> Seq(Nat)] /\ Booked(row, jobs'[g])
       /\ \A h \in Receipts : h # g => jobs'[h] = jobs[h]
  <2>1. CASE draft
    <3>1. jobs' = jobs /\ Len(<<>>) = 0
      BY <2>1 DEF CreateReceipt
    <3> QED BY <1>5, <1>16, <2>1, <3>1 DEF Booked
  <2>2. CASE ~draft
    <3>1. Job(g, q)
      BY <1>20, <2>2 DEF CreateReceipt
    <3>2. /\ jobs' \in [Receipts -> Seq(Nat)] /\ Len(jobs'[g]) = 1
          /\ \A h \in Receipts : h # g => jobs'[h] = jobs[h]
      BY <1>1, <1>16, <3>1, FirstJob
    <3> QED BY <1>5, <2>2, <3>2 DEF Booked
  <2> QED BY <2>1, <2>2
<1>18. /\ requests' \in [Requests -> Requesting]
       /\ \A s \in Requests : requests'[s] = requests[s] \/ requests'[s] = Idle
  BY <1>1, <1>2, ClearRequest
<1>19. /\ row.line <= po.line /\ receipts[g].status \in {"absent", "draft"}
       /\ UNCHANGED <<direct, returns>>
  BY <1>2, <1>5 DEF NoReceipt
<1> QED BY <1>2, <1>6, <1>7, <1>10, <1>13, <1>14, <1>15, <1>17, <1>18, <1>19, OneReceipt

LEMMA LoadReceiptHolds ==
  ASSUME ProcurementInv, NEW r \in Requests, NEW g \in Receipts, LoadReceipt(r, g)
  PROVE  ProcurementInv'
<1>1. ProcurementTypeOK /\ po \in PoRow
  BY Types DEF ProcurementInv
<1>2. receipts[g].status = "draft"
  BY DEF LoadReceipt
<1>3. po.status # "absent" /\ receipts[g].qty \in Nat
  BY <1>1, <1>2, Types DEF ProcurementInv, AbsentOK, NoReceipt
<1> DEFINE seen == [kind |-> "receipt", receipt |-> g, qty |-> receipts[g].qty]
<1>4. seen \in SawReceipt /\ seen.kind = "receipt"
  BY <1>3 DEF SawReceipt
<1>5. /\ requests' = [requests EXCEPT ![r] = seen]
      /\ UNCHANGED <<po, direct, receipts, returns, stock, jobs, lost>>
  BY DEF LoadReceipt
<1> HIDE DEF seen
<1>6. requests \in [Requests -> Requesting]
  BY <1>1 DEF ProcurementTypeOK, Requesting
<1>7. requests' \in [Requests -> Requesting]
  BY <1>4, <1>5, <1>6 DEF Requesting
<1>8. \A s \in Requests : requests'[s] = requests[s] \/ requests'[s] = seen
  BY <1>5, <1>6
<1> QED BY <1>1, <1>3, <1>4, <1>5, <1>7, <1>8, HeaderOnly DEF Exists

(* A draft: it was loose, nothing of it is booked. *)
LEMMA DraftIs ==
  ASSUME ProcurementInv, NEW g \in Receipts, receipts[g].status = "draft"
  PROVE  /\ po.status # "absent" /\ receipts[g].loose
         /\ receipts[g].qty \in Nat /\ receipts[g].line <= po.line /\ receipts[g].posted \in BOOLEAN
         /\ jobs[g] = <<>> /\ jobs \in [Receipts -> Seq(Nat)] /\ Len(<<>>) = 0
         /\ receipts \in [Receipts -> ReceiptRow]
         /\ Held(g) = (IF receipts[g].posted THEN receipts[g].qty ELSE 0)
         /\ HeldHere(g) = IF receipts[g].posted /\ receipts[g].line = po.line
                          THEN receipts[g].qty ELSE 0
<1>1. po.status # "absent" /\ MadeWell(receipts[g]) /\ receipts[g].line <= po.line
  BY DEF ProcurementInv, AbsentOK, ReceiptsOK, NoReceipt
<1>2. jobs[g] = <<>> /\ jobs \in [Receipts -> Seq(Nat)] /\ Len(<<>>) = 0
  BY DEF ProcurementInv, BookedOnce, ProcurementTypeOK
<1>3. receipts \in [Receipts -> ReceiptRow] /\ receipts[g].qty \in Nat
  BY Types DEF ProcurementInv
<1>4. receipts[g].posted \in BOOLEAN
  BY <1>3 DEF ReceiptRow
<1>5. Held(g) = (IF receipts[g].posted THEN receipts[g].qty ELSE 0)
  BY DEF Held, InStock
<1>6. HeldHere(g) = IF receipts[g].posted /\ receipts[g].line = po.line THEN receipts[g].qty ELSE 0
  BY DEF HeldHere, InStock
<1> QED BY <1>1, <1>2, <1>3, <1>4, <1>5, <1>6 DEF MadeWell

(* What is unwound of a draft is what was counted of it. *)
LEMMA UnwoundIs ==
  ASSUME ProcurementInv, NEW g \in Receipts, receipts[g].status = "draft"
  PROVE  /\ Unwound(po, g) \in PoRow /\ Unwound(po, g).line = po.line
         /\ Unwound(po, g).status = po.status
         /\ Unwound(po, g).received \in Nat /\ Unwound(po, g).received <= po.received
         /\ Exists => Unwound(po, g).received = Without(po.received, HeldHere(g))
<1>1. ProcurementTypeOK /\ po \in PoRow /\ po.received \in Nat
  BY Types DEF ProcurementInv, PoRow
<1>2. receipts[g].posted \in BOOLEAN /\ receipts[g].qty \in Nat
      /\ HeldHere(g) = IF receipts[g].posted /\ receipts[g].line = po.line
                       THEN receipts[g].qty ELSE 0
  BY DraftIs
<1>3. Without(po.received, 0) = po.received
  BY <1>1 DEF Without
<1>4. CASE receipts[g].posted
  <2> DEFINE p == Uncounted(po, receipts[g].line, receipts[g].qty)
  <2>1. Unwound(po, g) = p
    BY <1>4 DEF Unwound
  <2>2. /\ p \in PoRow /\ p.line = po.line /\ p.status = po.status
        /\ p.received = IF HasLine(receipts[g].line)
                        THEN (IF po.received > receipts[g].qty THEN po.received - receipts[g].qty ELSE 0)
                        ELSE po.received
    BY <1>1, <1>2, UncountedIs
  <2> HIDE DEF p
  <2>3. Exists => p.received = Without(po.received, HeldHere(g))
    BY <1>2, <1>3, <1>4, <2>2 DEF HasLine, Without
  <2>4. p.received \in Nat /\ p.received <= po.received
    BY <1>1, <1>2, <2>2
  <2> QED BY <2>1, <2>2, <2>3, <2>4
<1>5. CASE ~receipts[g].posted
  BY <1>1, <1>2, <1>3, <1>5 DEF Unwound
<1> QED BY <1>2, <1>4, <1>5

LEMMA CompleteReceiptHolds ==
  ASSUME ProcurementInv, NEW r \in Requests, CompleteReceipt(r)
  PROVE  ProcurementInv'
<1>1. ProcurementTypeOK /\ po \in PoRow /\ po.received \in Nat /\ stock \in Nat /\ lost \in Nat
  BY Types DEF ProcurementInv, PoRow
<1>2. PICK g \in Receipts : g = requests[r].receipt /\ requests[r].qty \in Nat
  BY <1>1, Seen DEF CompleteReceipt, SawReceipt
<1>3. /\ receipts[g].status = "draft"
      /\ po' = Fulfilled(Counted(po, receipts[g].line, Unposted(g)), returns)
      /\ stock' = stock + QtyStock(Unposted(g))
      /\ receipts' = [receipts EXCEPT ![g].status = "completed", ![g].posted = TRUE]
      /\ Job(g, requests[r].qty) /\ Done(r) /\ UNCHANGED <<direct, returns, lost>>
  BY <1>2 DEF CompleteReceipt
<1>4. /\ po.status # "absent" /\ receipts[g].loose
      /\ receipts[g].qty \in Nat /\ receipts[g].line <= po.line /\ receipts[g].posted \in BOOLEAN
      /\ jobs[g] = <<>> /\ receipts \in [Receipts -> ReceiptRow]
      /\ Held(g) = (IF receipts[g].posted THEN receipts[g].qty ELSE 0)
      /\ HeldHere(g) = IF receipts[g].posted /\ receipts[g].line = po.line
                       THEN receipts[g].qty ELSE 0
  BY <1>2, <1>3, DraftIs
<1> DEFINE R1 == WithStatus(receipts, g, "completed")
<1>5. /\ R1 \in [Receipts -> ReceiptRow] /\ \A h \in Receipts : h # g => R1[h] = receipts[h]
      /\ R1[g].status = "completed" /\ R1[g].line = receipts[g].line
      /\ R1[g].qty = receipts[g].qty /\ R1[g].loose = receipts[g].loose
  <2>0. g \in Receipts /\ receipts \in [Receipts -> ReceiptRow]
    BY <1>2, <1>4
  <2>1. PICK s \in ReceiptStatus : s = "completed"
    BY DEF ReceiptStatus
  <2> DEFINE N == WithStatus(receipts, g, s)
  <2>2. /\ N \in [Receipts -> ReceiptRow] /\ \A h \in Receipts : h # g => N[h] = receipts[h]
        /\ N[g].status = s /\ N[g].line = receipts[g].line
        /\ N[g].qty = receipts[g].qty /\ N[g].loose = receipts[g].loose
    BY <2>0, <2>1, WriteStatus
  <2> QED BY <2>1, <2>2
<1>6. receipts' = WithPosted(R1, g, TRUE)
  BY <1>2, <1>3, <1>4 DEF WithStatus, WithPosted
<1> HIDE DEF R1
<1>7. /\ receipts' \in [Receipts -> ReceiptRow] /\ \A h \in Receipts : h # g => receipts'[h] = receipts[h]
      /\ receipts'[g].status = "completed" /\ receipts'[g].line = receipts[g].line
      /\ receipts'[g].qty = receipts[g].qty /\ receipts'[g].loose = receipts[g].loose
      /\ receipts'[g].posted = TRUE
  <2> DEFINE N == WithPosted(R1, g, TRUE)
  <2>1. /\ N \in [Receipts -> ReceiptRow] /\ \A h \in Receipts : h # g => N[h] = R1[h]
        /\ N[g].posted = TRUE /\ N[g].status = R1[g].status /\ N[g].line = R1[g].line
        /\ N[g].qty = R1[g].qty /\ N[g].loose = R1[g].loose
    <3>1. R1 \in [Receipts -> ReceiptRow] /\ g \in Receipts /\ TRUE \in BOOLEAN
      BY <1>2, <1>5
    <3> HIDE DEF N
    <3> QED BY <3>1, WritePosted DEF N
  <2> HIDE DEF N
  <2> QED BY <1>5, <1>6, <2>1 DEF N
<1> DEFINE p == Counted(po, receipts[g].line, Unposted(g))
<1>8. Unposted(g) \in Nat /\ Unposted(g) = IF receipts[g].posted THEN 0 ELSE receipts[g].qty
  BY <1>4 DEF Unposted
<1>9. /\ p \in PoRow /\ p.line = po.line /\ p.status = po.status
      /\ p.received = IF HasLine(receipts[g].line) THEN po.received + Unposted(g) ELSE po.received
  BY <1>1, <1>8, CountedIs
<1>10. po' = Fulfilled(p, returns)
  BY <1>3
<1> HIDE DEF p
<1>11. /\ po' \in PoRow /\ po'.line = po.line /\ po'.received = p.received
       /\ po'.status # "absent" /\ (Exists' => Exists)
  BY <1>4, <1>9, <1>10, FulfilledIs DEF Exists
<1>12. /\ Held(g)' = receipts[g].qty
       /\ HeldHere(g)' = IF receipts[g].line = po.line THEN receipts[g].qty ELSE 0
  <2>1. g \in InStock'
    BY <1>2, <1>7 DEF InStock
  <2>2. receipts'[g].qty = receipts[g].qty /\ receipts'[g].line = receipts[g].line /\ po'.line = po.line
    BY <1>7, <1>9, <1>11
  <2> QED BY <2>1, <2>2 DEF Held, HeldHere
<1>13. /\ stock' \in Nat /\ lost' \in Nat
       /\ stock' - lost' = stock - lost - QtyStock(Held(g)) + QtyStock(Held(g)')
  <2>1. PICK n \in Nat, h \in Nat : n = QtyStock(Unposted(g)) /\ h = QtyStock(receipts[g].qty)
    BY <1>4, <1>8, QtyStockIs
  <2>2. CASE receipts[g].posted
    <3>1. n = 0 /\ QtyStock(Held(g)) = h /\ QtyStock(Held(g)') = h
      BY <1>4, <1>8, <1>12, <2>1, <2>2, QtyStockOfNone
    <3> QED BY <1>1, <1>3, <2>1, <3>1
  <2>3. CASE ~receipts[g].posted
    <3>1. n = h /\ QtyStock(Held(g)) = 0 /\ QtyStock(Held(g)') = h
      BY <1>4, <1>8, <1>12, <2>1, <2>3, QtyStockOfNone
    <3> QED BY <1>1, <1>3, <2>1, <3>1
  <2> QED BY <1>4, <2>2, <2>3
<1>14. Exists => \/ po'.received = Without(po.received, HeldHere(g)) + HeldHere(g)'
                 \/ po'.received = po.received /\ HeldHere(g)' = HeldHere(g)
  <2>1. Without(po.received, 0) = po.received
    BY <1>1 DEF Without
  <2> QED BY <1>1, <1>4, <1>8, <1>9, <1>11, <1>12, <2>1 DEF HasLine
<1>15. /\ jobs' \in [Receipts -> Seq(Nat)] /\ Len(jobs'[g]) = 1
       /\ \A h \in Receipts : h # g => jobs'[h] = jobs[h]
  BY <1>1, <1>2, <1>3, <1>4, FirstJob
<1>16. Booked(receipts'[g], jobs'[g]) /\ MadeWell(receipts'[g]) /\ receipts'[g].line <= po.line
  BY <1>4, <1>7, <1>15 DEF Booked, MadeWell
<1>17. /\ requests' \in [Requests -> Requesting]
       /\ \A s \in Requests : requests'[s] = requests[s] \/ requests'[s] = Idle
  BY <1>1, <1>3, ClearRequest
<1>18. receipts[g].status \in {"absent", "draft"} /\ receipts'[g].status # "absent" /\ receipts'[g].loose /\ UNCHANGED <<direct, returns>>
  BY <1>3, <1>4, <1>7
<1> QED BY <1>2, <1>4, <1>7, <1>11, <1>13, <1>14, <1>15, <1>16, <1>17, <1>18, OneReceipt

LEMMA PostByHeaderHolds ==
  ASSUME ProcurementInv, NEW g \in Receipts, PostByHeader(g)
  PROVE  ProcurementInv'
<1>1. ProcurementTypeOK /\ po \in PoRow /\ po.received \in Nat /\ stock \in Nat /\ lost \in Nat
  BY Types DEF ProcurementInv, PoRow
<1>3. /\ receipts[g].status = "draft"
      /\ po' = Counted(po, receipts[g].line, Unposted(g))
      /\ stock' = stock + QtyStock(Unposted(g))
      /\ receipts' = [receipts EXCEPT ![g].posted = TRUE]
      /\ UNCHANGED <<direct, returns, jobs, requests, lost>>
  BY DEF PostByHeader
<1>4. /\ po.status # "absent" /\ receipts[g].loose
      /\ receipts[g].qty \in Nat /\ receipts[g].line <= po.line /\ receipts[g].posted \in BOOLEAN
      /\ jobs[g] = <<>> /\ receipts \in [Receipts -> ReceiptRow]
      /\ jobs \in [Receipts -> Seq(Nat)] /\ Len(<<>>) = 0
      /\ Held(g) = (IF receipts[g].posted THEN receipts[g].qty ELSE 0)
      /\ HeldHere(g) = IF receipts[g].posted /\ receipts[g].line = po.line
                       THEN receipts[g].qty ELSE 0
  BY <1>3, DraftIs
<1>5. receipts' = WithPosted(receipts, g, TRUE)
  BY <1>3 DEF WithPosted
<1>7. /\ receipts' \in [Receipts -> ReceiptRow] /\ \A h \in Receipts : h # g => receipts'[h] = receipts[h]
      /\ receipts'[g].status = "draft" /\ receipts'[g].line = receipts[g].line
      /\ receipts'[g].qty = receipts[g].qty /\ receipts'[g].loose = receipts[g].loose
      /\ receipts'[g].posted = TRUE
  <2> DEFINE N == WithPosted(receipts, g, TRUE)
  <2>1. /\ N \in [Receipts -> ReceiptRow] /\ \A h \in Receipts : h # g => N[h] = receipts[h]
        /\ N[g].posted = TRUE /\ N[g].status = receipts[g].status /\ N[g].line = receipts[g].line
        /\ N[g].qty = receipts[g].qty /\ N[g].loose = receipts[g].loose
    BY <1>4, WritePosted
  <2> HIDE DEF N
  <2> QED BY <1>3, <1>5, <2>1 DEF N
<1>8. Unposted(g) \in Nat /\ Unposted(g) = IF receipts[g].posted THEN 0 ELSE receipts[g].qty
  BY <1>4 DEF Unposted
<1>9. /\ po' \in PoRow /\ po'.line = po.line /\ po'.status = po.status
      /\ po'.received = IF HasLine(receipts[g].line) THEN po.received + Unposted(g) ELSE po.received
  BY <1>1, <1>3, <1>8, CountedIs
<1>11. po'.status # "absent" /\ (Exists' => Exists)
  BY <1>4, <1>9 DEF Exists
<1>12. /\ Held(g)' = receipts[g].qty
       /\ HeldHere(g)' = IF receipts[g].line = po.line THEN receipts[g].qty ELSE 0
  <2>1. g \in InStock'
    BY <1>7 DEF InStock
  <2> QED BY <1>7, <1>9, <2>1 DEF Held, HeldHere
<1>13. /\ stock' \in Nat /\ lost' \in Nat
       /\ stock' - lost' = stock - lost - QtyStock(Held(g)) + QtyStock(Held(g)')
  <2>1. PICK n \in Nat, h \in Nat : n = QtyStock(Unposted(g)) /\ h = QtyStock(receipts[g].qty)
    BY <1>4, <1>8, QtyStockIs
  <2>2. CASE receipts[g].posted
    <3>1. n = 0 /\ QtyStock(Held(g)) = h /\ QtyStock(Held(g)') = h
      BY <1>4, <1>8, <1>12, <2>1, <2>2, QtyStockOfNone
    <3> QED BY <1>1, <1>3, <2>1, <3>1
  <2>3. CASE ~receipts[g].posted
    <3>1. n = h /\ QtyStock(Held(g)) = 0 /\ QtyStock(Held(g)') = h
      BY <1>4, <1>8, <1>12, <2>1, <2>3, QtyStockOfNone
    <3> QED BY <1>1, <1>3, <2>1, <3>1
  <2> QED BY <1>4, <2>2, <2>3
<1>14. Exists => \/ po'.received = Without(po.received, HeldHere(g)) + HeldHere(g)'
                 \/ po'.received = po.received /\ HeldHere(g)' = HeldHere(g)
  <2>1. Without(po.received, 0) = po.received
    BY <1>1 DEF Without
  <2> QED BY <1>1, <1>4, <1>8, <1>9, <1>12, <2>1 DEF HasLine
<1>15. jobs' \in [Receipts -> Seq(Nat)] /\ \A h \in Receipts : h # g => jobs'[h] = jobs[h]
  BY <1>3, <1>4
<1>16. Booked(receipts'[g], jobs'[g]) /\ MadeWell(receipts'[g]) /\ receipts'[g].line <= po.line
  BY <1>3, <1>4, <1>7 DEF Booked, MadeWell
<1>17. /\ requests' \in [Requests -> Requesting]
       /\ \A s \in Requests : requests'[s] = requests[s] \/ requests'[s] = Idle
  BY <1>1, <1>3 DEF ProcurementTypeOK, Requesting
<1>18. receipts[g].status \in {"absent", "draft"} /\ receipts'[g].status # "absent" /\ receipts'[g].loose /\ UNCHANGED <<direct, returns>>
  BY <1>3, <1>4, <1>7
<1> QED BY <1>4, <1>7, <1>9, <1>11, <1>13, <1>14, <1>15, <1>16, <1>17, <1>18, OneReceipt

LEMMA EndReceiptHolds ==
  ASSUME ProcurementInv, NEW g \in Receipts, NEW s \in {"cancelled", "deleted"}, EndReceipt(g, s)
  PROVE  ProcurementInv'
<1>1. ProcurementTypeOK /\ po \in PoRow /\ po.received \in Nat /\ stock \in Nat /\ lost \in Nat
  BY Types DEF ProcurementInv, PoRow
<1>2. /\ receipts[g].status = "draft" /\ po' = Unwound(po, g) /\ Unwind(g)
      /\ receipts' = [receipts EXCEPT ![g].status = s, ![g].posted = FALSE]
      /\ UNCHANGED <<direct, returns, jobs, requests>>
  BY DEF EndReceipt
<1>3. /\ po.status # "absent" /\ receipts[g].loose
      /\ receipts[g].qty \in Nat /\ receipts[g].line <= po.line /\ receipts[g].posted \in BOOLEAN
      /\ jobs[g] = <<>> /\ receipts \in [Receipts -> ReceiptRow]
      /\ jobs \in [Receipts -> Seq(Nat)] /\ Len(<<>>) = 0
      /\ Held(g) = (IF receipts[g].posted THEN receipts[g].qty ELSE 0)
  BY <1>2, DraftIs
<1>4. /\ receipts' \in [Receipts -> ReceiptRow] /\ \A h \in Receipts : h # g => receipts'[h] = receipts[h]
      /\ receipts'[g].status = s /\ receipts'[g].line = receipts[g].line
      /\ receipts'[g].qty = receipts[g].qty /\ receipts'[g].loose = receipts[g].loose
      /\ receipts'[g].posted = FALSE
  <2>0. receipts \in [Receipts -> ReceiptRow]
    BY <1>3
  <2>1. PICK t \in ReceiptStatus : t = s
    BY DEF ReceiptStatus
  <2> DEFINE R1 == WithStatus(receipts, g, t)
             N == WithPosted(R1, g, FALSE)
  <2>2. /\ R1 \in [Receipts -> ReceiptRow] /\ \A h \in Receipts : h # g => R1[h] = receipts[h]
        /\ R1[g].status = t /\ R1[g].line = receipts[g].line
        /\ R1[g].qty = receipts[g].qty /\ R1[g].loose = receipts[g].loose
    BY <2>0, WriteStatus
  <2>3. receipts' = N
    BY <1>2, <1>3, <2>1 DEF WithStatus, WithPosted
  <2> HIDE DEF R1
  <2>4. /\ N \in [Receipts -> ReceiptRow] /\ \A h \in Receipts : h # g => N[h] = R1[h]
        /\ N[g].posted = FALSE /\ N[g].status = R1[g].status /\ N[g].line = R1[g].line
        /\ N[g].qty = R1[g].qty /\ N[g].loose = R1[g].loose
    BY <2>2, WritePosted
  <2> HIDE DEF N
  <2> QED BY <2>1, <2>2, <2>3, <2>4
<1>5. /\ po' \in PoRow /\ po'.line = po.line /\ po'.status = po.status
      /\ po'.received \in Nat /\ po'.received <= po.received
      /\ Exists => po'.received = Without(po.received, HeldHere(g))
  BY <1>1, <1>2, UnwoundIs
<1>6. po'.status # "absent" /\ (Exists' => Exists)
  BY <1>3, <1>5 DEF Exists
<1>7. Held(g)' = 0 /\ HeldHere(g)' = 0
  BY <1>4 DEF Held, HeldHere, InStock
<1>8. /\ stock' \in Nat /\ lost' \in Nat
      /\ stock' - lost' = stock - lost - QtyStock(Held(g)) + QtyStock(Held(g)')
  <2>1. CASE receipts[g].posted
    <3>1. PICK h \in Nat : h = QtyStock(receipts[g].qty)
      BY <1>3, QtyStockIs
    <3>2. stock' \in Nat /\ lost' \in Nat /\ stock' - lost' = stock - lost - h
      BY <1>1, <1>2, <2>1, <3>1, TakenBack DEF Unwind
    <3>3. QtyStock(Held(g)) = h /\ QtyStock(Held(g)') = 0
      BY <1>3, <1>7, <2>1, <3>1, QtyStockOfNone
    <3>4. PICK a \in Nat, b \in Nat : a = stock /\ b = lost
      BY <1>1
    <3>5. stock - lost - h = a - b - h + 0
      BY <3>4
    <3> QED BY <3>2, <3>3, <3>4, <3>5
  <2>2. CASE ~receipts[g].posted
    <3>1. QtyStock(Held(g)) = 0 /\ QtyStock(Held(g)') = 0
      BY <1>3, <1>7, <2>2, QtyStockOfNone
    <3> QED BY <1>1, <1>2, <2>2, <3>1 DEF Unwind
  <2> QED BY <1>3, <2>1, <2>2
<1>9. Exists => po'.received = Without(po.received, HeldHere(g)) + HeldHere(g)'
  <2>1. Exists => po'.received = Without(po.received, HeldHere(g)) /\ po'.received \in Nat
    BY <1>5
  <2> QED BY <1>7, <2>1
<1>10. jobs' \in [Receipts -> Seq(Nat)] /\ \A h \in Receipts : h # g => jobs'[h] = jobs[h]
  BY <1>2, <1>3
<1>11. Booked(receipts'[g], jobs'[g]) /\ MadeWell(receipts'[g]) /\ receipts'[g].line <= po.line
  BY <1>2, <1>3, <1>4 DEF Booked, MadeWell
<1>12. /\ requests' \in [Requests -> Requesting]
       /\ \A r \in Requests : requests'[r] = requests[r] \/ requests'[r] = Idle
  BY <1>1, <1>2 DEF ProcurementTypeOK, Requesting
<1>13. receipts[g].status \in {"absent", "draft"} /\ receipts'[g].status # "absent" /\ receipts'[g].loose /\ UNCHANGED <<direct, returns>>
  BY <1>2, <1>3, <1>4
<1> QED BY <1>3, <1>4, <1>5, <1>6, <1>8, <1>9, <1>10, <1>11, <1>12, <1>13, OneReceipt

(* All that an update with items writes. *)
LEMMA Rewritten ==
  ASSUME NEW R \in [Receipts -> ReceiptRow], NEW g \in Receipts, NEW s \in ReceiptStatus,
         NEW l \in 0..(MaxEdits + 1), NEW q \in Nat, NEW b \in BOOLEAN,
         NEW N, N = WithPosted(WithQty(WithLine(WithStatus(R, g, s), g, l), g, q), g, b)
  PROVE  /\ N \in [Receipts -> ReceiptRow]
         /\ \A h \in Receipts : h # g => N[h] = R[h]
         /\ N[g].status = s /\ N[g].line = l /\ N[g].qty = q /\ N[g].posted = b
         /\ N[g].loose = R[g].loose
<1> DEFINE R1 == WithStatus(R, g, s)
           R2 == WithLine(R1, g, l)
           R3 == WithQty(R2, g, q)
<1>1. /\ R1 \in [Receipts -> ReceiptRow] /\ \A h \in Receipts : h # g => R1[h] = R[h]
      /\ R1[g].status = s /\ R1[g].loose = R[g].loose
  BY WriteStatus
<1> HIDE DEF R1
<1>2. /\ R2 \in [Receipts -> ReceiptRow] /\ \A h \in Receipts : h # g => R2[h] = R1[h]
      /\ R2[g].line = l /\ R2[g].status = R1[g].status /\ R2[g].loose = R1[g].loose
  BY <1>1, WriteLine
<1> HIDE DEF R2
<1>3. /\ R3 \in [Receipts -> ReceiptRow] /\ \A h \in Receipts : h # g => R3[h] = R2[h]
      /\ R3[g].qty = q /\ R3[g].status = R2[g].status /\ R3[g].line = R2[g].line
      /\ R3[g].loose = R2[g].loose
  BY <1>2, WriteQty
<1> HIDE DEF R3
<1>4. N = WithPosted(R3, g, b)
  BY DEF R1, R2, R3
<1>5. /\ N \in [Receipts -> ReceiptRow] /\ \A h \in Receipts : h # g => N[h] = R3[h]
      /\ N[g].posted = b /\ N[g].status = R3[g].status /\ N[g].line = R3[g].line
      /\ N[g].qty = R3[g].qty /\ N[g].loose = R3[g].loose
  BY <1>3, <1>4, WritePosted
<1> QED BY <1>1, <1>2, <1>3, <1>5

LEMMA EditReceiptHolds ==
  ASSUME ProcurementInv, NEW g \in Receipts, NEW n \in Quantities, NEW again \in Repeats \cup {0},
         NEW complete \in BOOLEAN, EditReceipt(g, n, again, complete)
  PROVE  ProcurementInv'
<1>1. /\ ProcurementTypeOK /\ po \in PoRow /\ po.received \in Nat /\ stock \in Nat /\ lost \in Nat
      /\ n \in Nat /\ again \in Nat /\ po.line \in Lines
  BY Types, ProcurementAssumption DEF ProcurementInv, PoRow
<1>20. PICK q \in Nat : q = n + again
  BY <1>1
<1> DEFINE post == receipts[g].posted \/ complete
           held == IF receipts[g].posted THEN QtyStock(receipts[g].qty) ELSE 0
           left == Max({0, stock - held})
           over == Max({0, held - stock})
           unwound == Unwound(po, g)
<1>2. /\ receipts[g].status = "draft"
      /\ receipts' = [receipts EXCEPT ![g].status = IF complete THEN "completed" ELSE @,
                                      ![g].line = IF Exists THEN po.line ELSE @,
                                      ![g].qty = q, ![g].posted = post]
      /\ po' = (IF post THEN Counted(unwound, po.line, q) ELSE unwound)
      /\ stock' = (IF post THEN left + QtyStock(q) ELSE left)
      /\ lost' = lost + over
      /\ BookUpdate(g, q, complete)
      /\ UNCHANGED <<direct, returns, requests>>
  BY <1>20 DEF EditReceipt
<1>3. /\ po.status # "absent" /\ receipts[g].loose /\ receipts[g].qty \in Nat
      /\ receipts[g].line <= po.line /\ receipts[g].posted \in BOOLEAN
      /\ jobs[g] = <<>> /\ receipts \in [Receipts -> ReceiptRow]
      /\ jobs \in [Receipts -> Seq(Nat)] /\ Len(<<>>) = 0
      /\ Held(g) = (IF receipts[g].posted THEN receipts[g].qty ELSE 0)
  BY <1>2, DraftIs
<1>4. PICK s \in ReceiptStatus : s = IF complete THEN "completed" ELSE "draft"
  BY DEF ReceiptStatus
<1>5. PICK l \in 0..(MaxEdits + 1) : l = (IF Exists THEN po.line ELSE receipts[g].line) /\ l <= po.line
  <2>1. po.line \in 0..(MaxEdits + 1) /\ po.line <= po.line
    BY <1>1, ProcurementAssumption DEF Lines
  <2>2. receipts[g].line \in 0..(MaxEdits + 1)
    BY <1>3 DEF ReceiptRow
  <2> QED BY <1>3, <2>1, <2>2
<1>6. PICK b \in BOOLEAN : b = post
  BY <1>3
<1>7. /\ receipts' \in [Receipts -> ReceiptRow] /\ \A h \in Receipts : h # g => receipts'[h] = receipts[h]
      /\ receipts'[g].status = s /\ receipts'[g].line = l /\ receipts'[g].qty = q
      /\ receipts'[g].posted = b /\ receipts'[g].loose = receipts[g].loose
  <2>0. receipts \in [Receipts -> ReceiptRow]
    BY <1>3
  <2>1. receipts' = WithPosted(WithQty(WithLine(WithStatus(receipts, g, s), g, l), g, q), g, b)
    BY <1>2, <1>4, <1>5, <1>6, <2>0 DEF WithStatus, WithLine, WithQty, WithPosted
  <2> QED BY <2>0, <2>1, Rewritten
<1>8. /\ unwound \in PoRow /\ unwound.line = po.line /\ unwound.status = po.status
      /\ unwound.received \in Nat
      /\ Exists => unwound.received = Without(po.received, HeldHere(g))
  BY <1>1, <1>2, UnwoundIs
<1> HIDE DEF unwound
<1>9. /\ po' \in PoRow /\ po'.line = po.line /\ po'.status = po.status
      /\ po'.received = IF b /\ HasLine(po.line) THEN unwound.received + q ELSE unwound.received
  <2>1. CASE b
    <3>1. po' = Counted(unwound, po.line, q)
      BY <1>2, <1>6, <2>1
    <3> QED BY <1>1, <1>8, <2>1, <3>1, CountedIs
  <2>2. CASE ~b
    BY <1>2, <1>6, <1>8, <2>2
  <2> QED BY <2>1, <2>2
<1>10. po'.status # "absent" /\ (Exists' => Exists)
  BY <1>3, <1>9 DEF Exists
<1>11. /\ Held(g)' = (IF b THEN q ELSE 0)
       /\ HeldHere(g)' = IF b /\ l = po.line THEN q ELSE 0
  <2>1. s # "cancelled"
    BY <1>4
  <2>2. g \in InStock' <=> b
    BY <1>7, <2>1 DEF InStock
  <2>3. receipts'[g].qty = q /\ receipts'[g].line = l /\ po'.line = po.line
    BY <1>7, <1>9
  <2> QED BY <2>2, <2>3 DEF Held, HeldHere
<1>12. /\ stock' \in Nat /\ lost' \in Nat
       /\ stock' - lost' = stock - lost - QtyStock(Held(g)) + QtyStock(Held(g)')
  <2>1. held \in Nat /\ QtyStock(Held(g)) = held
    <3>1. CASE receipts[g].posted
      BY <1>3, <3>1, QtyStockIs
    <3>2. CASE ~receipts[g].posted
      BY <1>3, <3>2, QtyStockOfNone
    <3> QED BY <1>3, <3>1, <3>2
  <2>2. PICK new \in Nat : new = QtyStock(Held(g)') /\ new = IF b THEN QtyStock(q) ELSE 0
    <3>1. QtyStock(q) \in Nat
      BY QtyStockIs
    <3>2. CASE b
      BY <1>11, <3>1, <3>2
    <3>3. CASE ~b
      BY <1>11, <3>3, QtyStockOfNone
    <3> QED BY <3>2, <3>3
  <2> HIDE DEF held
  <2>3. left \in Nat /\ over \in Nat /\ left - over = stock - held
    <3>1. stock - held \in Int /\ held - stock \in Int
      BY <1>1, <2>1
    <3>2. /\ left = IF stock - held > 0 THEN stock - held ELSE 0
          /\ over = IF held - stock > 0 THEN held - stock ELSE 0
      BY <3>1, AtLeastZero
    <3> HIDE DEF left, over
    <3> QED BY <1>1, <2>1, <3>2
  <2> HIDE DEF left, over
  <2>4. PICK x \in Nat, y \in Nat, h \in Nat, s0 \in Nat, l0 \in Nat :
          x = left /\ y = over /\ h = held /\ s0 = stock /\ l0 = lost
    BY <1>1, <2>1, <2>3
  <2>5. stock' = x + new /\ lost' = l0 + y
    <3>1. lost' = l0 + y
      BY <1>2, <2>4
    <3>2. CASE b
      BY <1>2, <1>6, <2>2, <2>4, <3>1, <3>2
    <3>3. CASE ~b
      <4>1. stock' = x /\ new = 0
        BY <1>2, <1>6, <2>2, <2>4, <3>3
      <4> QED BY <3>1, <4>1
    <3> QED BY <3>2, <3>3
  <2>6. (x + new) - (l0 + y) = s0 - l0 - h + new
    BY <2>3, <2>4
  <2> QED BY <2>1, <2>2, <2>4, <2>5, <2>6
<1>13. Exists => po'.received = Without(po.received, HeldHere(g)) + HeldHere(g)'
  <2> SUFFICES ASSUME Exists PROVE po'.received = Without(po.received, HeldHere(g)) + HeldHere(g)'
    OBVIOUS
  <2>1. l = po.line /\ HasLine(po.line)
    BY <1>5 DEF HasLine
  <2>2. HeldHere(g)' = (IF b THEN q ELSE 0)
    BY <1>11, <2>1
  <2>3. po'.received = IF b THEN unwound.received + q ELSE unwound.received
    BY <1>9, <2>1
  <2> QED BY <1>8, <2>2, <2>3
<1>14. /\ jobs' \in [Receipts -> Seq(Nat)] /\ Booked(receipts'[g], jobs'[g])
       /\ \A h \in Receipts : h # g => jobs'[h] = jobs[h]
  <2>1. CASE complete
    <3>1. /\ jobs' \in [Receipts -> Seq(Nat)] /\ Len(jobs'[g]) = 1
          /\ \A h \in Receipts : h # g => jobs'[h] = jobs[h]
      BY <1>1, <1>2, <1>3, <2>1, FirstJob DEF BookUpdate
    <3> QED BY <1>4, <1>7, <2>1, <3>1 DEF Booked
  <2>2. CASE ~complete
    <3>1. jobs' = jobs
      BY <1>2, <2>2 DEF BookUpdate
    <3> QED BY <1>3, <1>4, <1>7, <2>2, <3>1 DEF Booked
  <2> QED BY <2>1, <2>2
<1>15. MadeWell(receipts'[g]) /\ receipts'[g].line <= po.line /\ receipts'[g].status # "absent"
  BY <1>3, <1>4, <1>5, <1>6, <1>7 DEF MadeWell
<1>16. /\ requests' \in [Requests -> Requesting]
       /\ \A r \in Requests : requests'[r] = requests[r] \/ requests'[r] = Idle
  BY <1>1, <1>2 DEF ProcurementTypeOK, Requesting
<1>17. receipts'[g].loose /\ receipts[g].status \in {"absent", "draft"} /\ UNCHANGED <<direct, returns>>
  BY <1>2, <1>3, <1>7
<1> QED BY <1>3, <1>7, <1>9, <1>10, <1>12, <1>13, <1>14, <1>15, <1>16, <1>17, OneReceipt

-----------------------------------------------------------------------------
(* A cancel takes receipts back.  What it does to the stock is not said;   *)
(* the line is left with no more than what still stands for it.            *)
LEMMA FloorStaysBelow ==
  ASSUME NEW a \in Nat, NEW t \in Nat, NEW d \in Nat, NEW gone \in Nat, NEW taken \in Nat,
         a <= t + d, gone <= taken, gone <= t
  PROVE  Without(a, taken) <= (t - gone) + d
BY DEF Without

LEMMA TakeReceiptsBackHolds ==
  ASSUME ProcurementInv, NEW r \in Requests, TakeReceiptsBack(r)
  PROVE  ProcurementInv'
<1>1. /\ ProcurementTypeOK /\ po \in PoRow /\ po.received \in Nat /\ lost \in Nat
      /\ po.line \in Lines /\ receipts \in [Receipts -> ReceiptRow]
  BY Types DEF ProcurementInv, PoRow
<1>2. /\ requests[r].kind = "stock" /\ Done(r) /\ UNCHANGED <<direct, returns, jobs>>
  BY DEF TakeReceiptsBack
<1>3. po.status # "absent"
  <2>1. requests[r] # Idle
    BY <1>2 DEF Idle
  <2> QED BY <2>1, RequestMeansOrder
<1> DEFINE taken == requests[r].taken
           shelf == requests[r].shelf
           all == Total(receipts, taken)
           mine == {g \in taken : HasLine(receipts[g].line)}
           ofLine == Total(receipts, mine)
           p == [po EXCEPT !.status = "cancelled", !.received = Max({0, @ - ofLine})]
           here == {g \in InStock : receipts[g].line = po.line}
           gone == {g \in here : g \in taken}
<1>4. /\ Save(p) /\ stock' = IF shelf = 0 THEN stock ELSE Max({0, shelf - all})
      /\ lost' = lost + Max({0, all - shelf})
      /\ receipts' = [g \in Receipts |->
           IF g \in taken THEN [receipts[g] EXCEPT !.status = "cancelled"] ELSE receipts[g]]
  BY DEF TakeReceiptsBack
<1>5. /\ taken \in SUBSET Receipts /\ taken # {} /\ shelf \in Nat
      /\ \A g \in taken : OnceTaken(receipts[g])
  BY <1>1, <1>2, Seen DEF ProcurementInv, TakenOK, SawStock
<1>6. IsFiniteSet(Receipts) /\ \A g \in Receipts : receipts[g].qty \in Nat
  BY <1>1, Types, ProcurementAssumption
<1>7. /\ mine \in SUBSET taken /\ mine \in SUBSET Receipts /\ here \in SUBSET Receipts
      /\ gone \in SUBSET here /\ here \ gone = here \ taken /\ here \ gone \in SUBSET Receipts
      /\ Exists => gone \in SUBSET mine
  BY <1>5 DEF HasLine, InStock
<1> HIDE DEF taken, shelf
<1>8. \A g \in Receipts :
        /\ receipts'[g] \in ReceiptRow /\ receipts'[g].qty = receipts[g].qty
        /\ receipts'[g].line = receipts[g].line /\ receipts'[g].posted = receipts[g].posted
        /\ receipts'[g].loose = receipts[g].loose
        /\ receipts'[g].status = IF g \in taken THEN "cancelled" ELSE receipts[g].status
        /\ g \notin taken => receipts'[g] = receipts[g]
  <2> SUFFICES ASSUME NEW g \in Receipts
               PROVE  /\ receipts'[g] \in ReceiptRow /\ receipts'[g].qty = receipts[g].qty
                      /\ receipts'[g].line = receipts[g].line
                      /\ receipts'[g].posted = receipts[g].posted
                      /\ receipts'[g].loose = receipts[g].loose
                      /\ receipts'[g].status = IF g \in taken THEN "cancelled" ELSE receipts[g].status
                      /\ g \notin taken => receipts'[g] = receipts[g]
    OBVIOUS
  <2>1. receipts[g] \in ReceiptRow
    BY <1>1
  <2>2. receipts'[g] = IF g \in taken THEN [receipts[g] EXCEPT !.status = "cancelled"] ELSE receipts[g]
    BY <1>4
  <2> QED BY <2>1, <2>2 DEF ReceiptRow
<1>9. receipts' \in [Receipts -> ReceiptRow]
  BY <1>4, <1>8
<1>10. {g \in InStock' : receipts'[g].line = po.line} = here \ gone
  BY <1>7, <1>8 DEF InStock
<1>11. OrderTookBack'
  BY <1>5, <1>8 DEF OrderTookBack, OnceTaken
<1> HIDE DEF mine, here, gone
<1>12. all \in Nat /\ ofLine \in Nat /\ LineTotal \in Nat /\ Total(receipts, gone) \in Nat
  <2>1. gone \in SUBSET Receipts
    BY <1>7
  <2> QED BY <1>1, <1>5, <1>6, <1>7, <2>1, TotalIs, ShelfIsNat
<1>13. Max({0, po.received - ofLine}) = Without(po.received, ofLine)
       /\ Without(po.received, ofLine) \in Nat /\ Without(po.received, ofLine) <= po.received
  <2>1. po.received - ofLine \in Int
    BY <1>1, <1>12
  <2> QED BY <1>1, <1>12, <2>1, AtLeastZero DEF Without
<1>14. /\ po' \in PoRow /\ po'.line = po.line /\ po'.status # "absent"
       /\ (Exists' => Exists) /\ po'.received <= po.received
       /\ Exists => po'.received = Without(po.received, ofLine)
  <2>1. CASE po.status = "deleted"
    BY <1>1, <1>4, <2>1 DEF Save, Exists
  <2>2. CASE po.status # "deleted"
    <3> DEFINE p1 == [po EXCEPT !.status = "cancelled"]
    <3>0. PICK back \in Nat : back = Without(po.received, ofLine)
      BY <1>13
    <3>1. p1 \in PoRow /\ p1.status = "cancelled" /\ p1.line = po.line /\ p1.received = po.received
      BY <1>1 DEF PoRow, OrderStatus
    <3>2. po' = [p1 EXCEPT !.received = back]
      BY <1>1, <1>4, <1>13, <2>2, <3>0 DEF Save, PoRow
    <3> HIDE DEF p1
    <3>3. po' \in PoRow /\ po'.status = "cancelled" /\ po'.line = po.line /\ po'.received = back
      BY <3>1, <3>2 DEF PoRow
    <3> QED BY <1>3, <1>13, <2>2, <3>0, <3>3 DEF Exists
  <2> QED BY <2>1, <2>2
<1>15. stock' \in Nat /\ lost' \in Nat
  <2>1. shelf - all \in Int /\ all - shelf \in Int
    BY <1>5, <1>12
  <2>2. Max({0, shelf - all}) \in Nat /\ Max({0, all - shelf}) \in Nat
    BY <2>1, AtLeastZero
  <2>3. stock \in Nat /\ lost \in Nat
    BY <1>1, Types
  <2>4. stock' \in Nat
    <3>1. CASE shelf = 0
      BY <1>4, <2>3, <3>1
    <3>2. CASE shelf # 0
      BY <1>4, <2>2, <3>2
    <3> QED BY <3>1, <3>2
  <2>5. lost' \in Nat
    BY <1>4, <2>2, <2>3
  <2> QED BY <2>4, <2>5
<1>16. /\ requests' \in [Requests -> Requesting]
       /\ \A s \in Requests : requests'[s] = requests[s] \/ requests'[s] = Idle
  BY <1>1, <1>2, ClearRequest
<1>17. ProcurementTypeOK'
  BY <1>1, <1>2, <1>9, <1>14, <1>15, <1>16
     DEF ProcurementTypeOK, PoRow, ReceiptRow, Requesting
<1>18. ReceiptsOK'
  <2> SUFFICES ASSUME NEW g \in Receipts
               PROVE  /\ receipts'[g].status = "absent" => receipts'[g] = NoReceipt
                      /\ receipts'[g].status # "absent" =>
                           MadeWell(receipts'[g]) /\ receipts'[g].line <= po'.line
    BY DEF ReceiptsOK, MadeWell
  <2>1. CASE g \in taken
    <3>1. receipts[g].status # "absent"
      BY <1>5, <2>1 DEF OnceTaken
    <3> QED BY <1>8, <1>14, <2>1, <3>1 DEF ProcurementInv, ReceiptsOK, MadeWell
  <2>2. CASE g \notin taken
    BY <1>8, <1>14, <2>2 DEF ProcurementInv, ReceiptsOK
  <2> QED BY <2>1, <2>2
<1>19. LinesOK'
  <2>1. ASSUME NEW s \in Requests, requests'[s].kind = "order" PROVE requests'[s].line <= po'.line
    <3>1. requests'[s] = requests[s]
      BY <1>16, <2>1 DEF Idle
    <3> QED BY <1>14, <2>1, <3>1 DEF ProcurementInv, LinesOK
  <2> QED BY <1>2, <1>14, <2>1 DEF ProcurementInv, LinesOK
<1>20. AbsentOK'
  BY <1>14 DEF AbsentOK
<1>21. TakenOK'
  <2>1. \A g \in Receipts : OnceTaken(receipts[g]) => OnceTaken(receipts'[g])
    BY <1>8 DEF OnceTaken
  <2> QED BY <1>1, <1>16, <2>1, TakenStays DEF ProcurementInv
<1>22. StockFollowsDocuments'
  BY <1>11, SumsAreNow
<1>23. ReceivedIsCounted'
  <2> SUFFICES ASSUME Exists' PROVE LineIs'
    BY SumsAreNow
  <2>1. Exists /\ LineIs /\ gone \in SUBSET mine
    BY <1>7, <1>14, SumsAre DEF ProcurementInv
  <2>2. LineTotal' = LineTotal - Total(receipts, gone) /\ Total(receipts, gone) <= LineTotal
    <3>1. LineTotal = Total(receipts, here)
      BY DEF LineTotal, here
    <3>2. /\ Total(receipts, here \ gone) = Total(receipts, here) - Total(receipts, gone)
          /\ Total(receipts, gone) <= Total(receipts, here)
      BY <1>6, <1>7, TotalWithout
    <3>3. Total(receipts', here \ gone) = Total(receipts, here \ gone)
      BY <1>6, <1>7, <1>8, TotalSame
    <3> QED BY <1>10, <1>14, <3>1, <3>2, <3>3 DEF LineTotal
  <2>3. Total(receipts, gone) <= ofLine
    BY <1>6, <1>7, <2>1, TotalWithout
  <2>4. direct[po.line] \in Nat /\ po.received <= LineTotal + direct[po.line]
    BY <1>1, <2>1, Types DEF LineIs
  <2>5. Without(po.received, ofLine) <= (LineTotal - Total(receipts, gone)) + direct[po.line]
    BY <1>1, <1>12, <2>2, <2>3, <2>4, FloorStaysBelow
  <2> QED BY <1>2, <1>11, <1>14, <2>1, <2>2, <2>5 DEF LineIs
<1>24. WithinTolerance'
  <2> SUFFICES ASSUME \A h \in Receipts : ~receipts'[h].loose
               PROVE  po'.received <= MaxDeliverable
    BY DEF WithinTolerance, MaxDeliverable
  <2>1. po.received <= MaxDeliverable
    BY <1>8 DEF ProcurementInv, WithinTolerance
  <2>2. po'.received \in Nat
    BY <1>14 DEF PoRow
  <2> QED BY <1>1, <1>14, <2>1, <2>2, DeliverableIsNat
<1>25. BookedOnce'
  <2> SUFFICES ASSUME NEW g \in Receipts PROVE Booked(receipts'[g], jobs'[g])
    BY DEF BookedOnce, Booked
  <2>1. Booked(receipts[g], jobs[g])
    BY DEF ProcurementInv, BookedOnce, Booked
  <2> QED BY <1>2, <1>8, <2>1 DEF Booked
<1> QED BY <1>17, <1>18, <1>19, <1>20, <1>21, <1>22, <1>23, <1>24, <1>25 DEF ProcurementInv

-----------------------------------------------------------------------------
(* Returns. *)
ClaimedBy(x) == IF returns[x].status # "rejected" THEN returns[x].qty ELSE 0

LEMMA ReturnChanges ==
  ASSUME ProcurementTypeOK, returns' \in [Returns -> ReturnRow], NEW x \in Returns,
         \A y \in Returns : y # x => returns'[y] = returns[y]
  PROVE  Claimed \in Nat /\ Claimed' \in Nat /\ Claimed' = Claimed - ClaimedBy(x) + ClaimedBy(x)'
<1>1. IsFiniteSet(Returns) /\ \A y \in Returns : returns[y].qty \in Nat
  BY Types, ProcurementAssumption
<1>2. \A y \in Returns : returns'[y].qty \in Nat
  <2>1. \A y \in Returns : returns'[y].qty \in Quantities \cup {0}
    BY DEF ReturnRow
  <2>2. Quantities \cup {0} \subseteq Nat
    BY ProcurementAssumption
  <2> QED BY <2>1, <2>2
<1> DEFINE S == {y \in Returns : returns[y].status # "rejected"}
           T == {y \in Returns : returns'[y].status # "rejected"}
<1>3. \A y \in Returns : y # x => returns'[y].qty = returns[y].qty /\ (y \in T <=> y \in S)
  OBVIOUS
<1> HIDE DEF S, T
<1>4. S \in SUBSET Returns /\ T \in SUBSET Returns
  BY DEF S, T
<1>5. /\ Total(returns, S) \in Nat /\ Total(returns', T) \in Nat
      /\ Total(returns', T) = Total(returns, S) - (IF x \in S THEN returns[x].qty ELSE 0)
                                                + (IF x \in T THEN returns'[x].qty ELSE 0)
  BY <1>1, <1>2, <1>3, <1>4, TotalOneChanges
<1> QED BY <1>5 DEF Claimed, ClaimedBy, S, T

LEMMA OneReturn ==
  ASSUME ProcurementInv, NEW x \in Returns,
         returns' \in [Returns -> ReturnRow],
         \A y \in Returns : y # x => returns'[y] = returns[y],
         po' \in PoRow, po'.line = po.line, po'.received = po.received, Exists' => Exists,
         po'.status = "absent" => po' = po /\ requests' = requests,
         stock' \in Nat, stock' = stock + QtyStock(ClaimedBy(x)) - QtyStock(ClaimedBy(x)'),
         UNCHANGED <<direct, receipts, jobs, lost>>,
         requests' \in [Requests -> Requesting],
         \A r \in Requests : requests'[r] = requests[r] \/ requests'[r] = Idle
  PROVE  ProcurementInv'
<1>1. ProcurementTypeOK /\ po \in PoRow /\ stock \in Nat /\ lost \in Nat
  BY Types DEF ProcurementInv
<1>2. ProcurementTypeOK'
  BY <1>1 DEF ProcurementTypeOK, PoRow, ReturnRow, Requesting
<1>3. ReceiptsOK' /\ BookedOnce' /\ WithinTolerance'
  BY DEF ProcurementInv, ReceiptsOK, BookedOnce, WithinTolerance, MaxDeliverable
<1>4. AbsentOK'
  BY DEF ProcurementInv, AbsentOK
<1>9. TakenOK'
  BY <1>1, TakenStays DEF ProcurementInv
<1>5. LinesOK'
  <2>1. ASSUME NEW s \in Requests, requests'[s].kind = "order" PROVE requests'[s].line <= po'.line
    <3>1. requests'[s] = requests[s]
      BY <2>1 DEF Idle
    <3> QED BY <2>1, <3>1 DEF ProcurementInv, LinesOK
  <2> QED BY <2>1 DEF ProcurementInv, LinesOK
<1>6. Shelf' = Shelf /\ LineTotal' = LineTotal /\ Shelf \in Nat
  BY <1>1, ReceiptsStay, ShelfIsNat
<1>7. StockFollowsDocuments'
  <2>1. Claimed \in Nat /\ Claimed' \in Nat /\ Claimed' = Claimed - ClaimedBy(x) + ClaimedBy(x)'
    BY <1>1, ReturnChanges
  <2> SUFFICES ASSUME ~OrderTookBack' PROVE StockIs'
    BY SumsAreNow
  <2>2. /\ stock = QtyStock(Shelf) + SumFunction(direct) - QtyStock(Claimed) + lost
        /\ SumFunction(direct) \in Nat
    BY <1>1, SumsAre, OtherSums, TookBackStays DEF ProcurementInv, StockIs
  <2>3. ClaimedBy(x) \in Nat /\ ClaimedBy(x)' \in Nat
    <3>1. returns[x].qty \in Nat
      BY <1>1, Types
    <3>2. returns'[x].qty \in Nat
      <4>1. returns'[x] \in ReturnRow
        OBVIOUS
      <4>2. returns'[x].qty \in Quantities \cup {0}
        BY <4>1 DEF ReturnRow
      <4>3. Quantities \cup {0} \subseteq Nat
        BY ProcurementAssumption
      <4> QED BY <4>2, <4>3
    <3> QED BY <3>1, <3>2 DEF ClaimedBy
  <2>7. PICK c0 \in Nat, k0 \in Nat, o0 \in Nat, n0 \in Nat :
          c0 = Claimed /\ k0 = Claimed' /\ o0 = ClaimedBy(x) /\ n0 = ClaimedBy(x)'
    BY <2>1, <2>3
  <2>8. QtyStock(k0) = QtyStock(c0) - QtyStock(o0) + QtyStock(n0)
    <3>1. k0 = c0 - o0 + n0
      BY <2>1, <2>7
    <3> QED BY <3>1, QtyStockMoves
  <2>4. PICK s \in Nat, t \in Nat, h \in Nat, d \in Nat, c \in Nat, k \in Nat, l \in Nat,
             o \in Nat, n \in Nat :
          /\ s = stock /\ t = stock' /\ h = QtyStock(Shelf) /\ d = SumFunction(direct)
          /\ c = QtyStock(c0) /\ k = QtyStock(k0) /\ l = lost
          /\ o = QtyStock(o0) /\ n = QtyStock(n0)
    BY <1>1, <1>6, <2>2, QtyStockIs
  <2>5. s = h + d - c + l /\ k = c - o + n /\ t = s + o - n
    BY <2>2, <2>4, <2>7, <2>8
  <2>6. t = h + d - k + l
    BY <2>5
  <2> QED BY <1>6, <2>4, <2>6, <2>7, StockIsNow
<1>8. ReceivedIsCounted'
  <2>1. Exists => LineIs
    BY SumsAre DEF ProcurementInv
  <2> QED BY <1>6, <2>1, SumsAreNow, TookBackStays DEF LineIs
<1> QED BY <1>2, <1>3, <1>4, <1>5, <1>7, <1>8, <1>9 DEF ProcurementInv

LEMMA CreateReturnHolds ==
  ASSUME ProcurementInv, NEW r \in Requests, NEW x \in Returns, NEW q \in Quantities,
         CreateReturn(r, x, q)
  PROVE  ProcurementInv'
<1>1. /\ ProcurementTypeOK /\ po \in PoRow /\ stock \in Nat /\ q \in Nat
      /\ returns \in [Returns -> ReturnRow]
  BY Types DEF ProcurementInv
<1>2. /\ Done(r) /\ returns[x] = NoReturn /\ QtyStock(q) <= stock /\ stock' = stock - QtyStock(q)
      /\ returns' = [returns EXCEPT ![x] = [status |-> "pending", qty |-> q]]
      /\ UNCHANGED <<po, direct, receipts, jobs, lost>> /\ Exists
  BY DEF CreateReturn
<1> DEFINE row == [status |-> "pending", qty |-> q]
<1>3. row \in ReturnRow /\ row.status = "pending" /\ row.qty = q
  BY DEF ReturnRow
<1> HIDE DEF row
<1>4. /\ returns' \in [Returns -> ReturnRow] /\ returns'[x] = row
      /\ \A y \in Returns : y # x => returns'[y] = returns[y]
  BY <1>1, <1>2, <1>3 DEF row
<1>5. ClaimedBy(x) = 0 /\ ClaimedBy(x)' = q
  BY <1>2, <1>3, <1>4 DEF ClaimedBy, NoReturn
<1>6. stock' \in Nat /\ stock' = stock + QtyStock(ClaimedBy(x)) - QtyStock(ClaimedBy(x)')
  <2>1. QtyStock(q) \in Nat
    BY <1>1, QtyStockIs
  <2> QED BY <1>1, <1>2, <1>5, <2>1, QtyStockOfNone
<1>7. /\ po' \in PoRow /\ po'.line = po.line /\ po'.received = po.received
      /\ (Exists' => Exists) /\ po'.status # "absent"
  BY <1>1, <1>2 DEF Exists
<1>8. /\ requests' \in [Requests -> Requesting]
      /\ \A s \in Requests : requests'[s] = requests[s] \/ requests'[s] = Idle
  BY <1>1, <1>2, ClearRequest
<1> QED BY <1>2, <1>4, <1>6, <1>7, <1>8, OneReturn

LEMMA DecideReturnHolds ==
  ASSUME ProcurementInv, NEW x \in Returns, ApproveReturn(x) \/ RejectReturn(x)
  PROVE  ProcurementInv'
<1>1. /\ ProcurementTypeOK /\ po \in PoRow /\ stock \in Nat
      /\ returns \in [Returns -> ReturnRow] /\ returns[x].qty \in Nat /\ Ordered \in Nat
  BY Types DEF ProcurementInv
<1>2. PICK s \in {"approved", "rejected"} :
        /\ returns' = [returns EXCEPT ![x].status = s]
        /\ s = "approved" => ApproveReturn(x)
        /\ s = "rejected" => RejectReturn(x)
  BY DEF ApproveReturn, RejectReturn
<1>3. /\ returns[x].status = "pending"
      /\ UNCHANGED <<direct, receipts, jobs, requests, lost>>
  BY <1>2 DEF ApproveReturn, RejectReturn
<1>4. /\ returns' \in [Returns -> ReturnRow]
      /\ \A y \in Returns : y # x => returns'[y] = returns[y]
      /\ returns'[x].status = s /\ returns'[x].qty = returns[x].qty
  <2> DEFINE row == [returns[x] EXCEPT !.status = s]
  <2>1. returns[x] \in ReturnRow
    BY <1>1
  <2>2. row \in ReturnRow /\ row.status = s /\ row.qty = returns[x].qty
    BY <2>1 DEF ReturnRow
  <2>3. returns' = [returns EXCEPT ![x] = row]
    BY <1>1, <1>2
  <2> HIDE DEF row
  <2> QED BY <1>1, <2>2, <2>3
<1>5. /\ ClaimedBy(x) = returns[x].qty
      /\ ClaimedBy(x)' = IF s = "rejected" THEN 0 ELSE returns[x].qty
  BY <1>3, <1>4 DEF ClaimedBy
<1>6. stock' \in Nat /\ stock' = stock + QtyStock(ClaimedBy(x)) - QtyStock(ClaimedBy(x)')
  <2>0. PICK n \in Nat : n = QtyStock(returns[x].qty)
    BY <1>1, QtyStockIs
  <2>1. CASE s = "approved"
    <3>1. stock' = stock
      BY <1>2, <2>1 DEF ApproveReturn
    <3>2. QtyStock(ClaimedBy(x)) = n /\ QtyStock(ClaimedBy(x)') = n
      BY <1>5, <2>0, <2>1
    <3> QED BY <1>1, <2>0, <3>1, <3>2
  <2>2. CASE s = "rejected"
    <3>1. stock' = stock + n
      BY <1>2, <2>0, <2>2 DEF RejectReturn
    <3>2. QtyStock(ClaimedBy(x)) = n /\ QtyStock(ClaimedBy(x)') = 0
      BY <1>5, <2>0, <2>2, QtyStockOfNone
    <3> QED BY <1>1, <2>0, <3>1, <3>2
  <2> QED BY <2>1, <2>2
<1>7. /\ po' \in PoRow /\ po'.line = po.line /\ po'.received = po.received
      /\ (Exists' => Exists) /\ (po'.status = "absent" => po' = po)
  <2>1. CASE po' = po
    BY <1>1, <2>1 DEF Exists
  <2>2. CASE po' # po
    <3>1. ApproveReturn(x)
      BY <1>2, <2>2 DEF RejectReturn
    <3> DEFINE credited == Max({0, po.final - returns[x].qty})
               p == [po EXCEPT !.final = Max({0, @ - returns[x].qty})]
               approved == [returns EXCEPT ![x].status = "approved"]
    <3>2. Exists /\ po' = Fulfilled(p, approved)
      BY <2>2, <3>1 DEF ApproveReturn
    <3>3. credited \in 0..Ordered
      <4>1. po.final \in 0..Ordered /\ po.final - returns[x].qty \in Int
        BY <1>1 DEF PoRow
      <4>2. credited = IF po.final - returns[x].qty > 0 THEN po.final - returns[x].qty ELSE 0
        BY <4>1, AtLeastZero
      <4> HIDE DEF credited
      <4> QED BY <1>1, <4>1, <4>2
    <3>4. p = [po EXCEPT !.final = credited]
      BY <1>1 DEF PoRow
    <3> HIDE DEF credited
    <3>5. p \in PoRow /\ p.line = po.line /\ p.received = po.received /\ p.status = po.status
      BY <1>1, <3>3, <3>4 DEF PoRow
    <3> HIDE DEF p, approved
    <3> QED BY <3>2, <3>5, FulfilledIs DEF Exists
  <2> QED BY <2>1, <2>2
<1>8. /\ requests' \in [Requests -> Requesting] /\ requests' = requests
      /\ \A r \in Requests : requests'[r] = requests[r] \/ requests'[r] = Idle
  BY <1>1, <1>3 DEF ProcurementTypeOK, Requesting
<1>9. UNCHANGED <<direct, receipts, jobs, lost>>
  BY <1>3
<1> QED BY <1>4, <1>6, <1>7, <1>8, <1>9, OneReturn

-----------------------------------------------------------------------------
(* The theorems. *)
LEMMA InitHolds == Init => ProcurementInv
<1> SUFFICES ASSUME Init PROVE ProcurementInv
  OBVIOUS
<1>1. ProcurementTypeOK
  BY ProcurementAssumption DEF Init, ProcurementTypeOK, OrderStatus, Lines, NoReceipt, NoReturn, Idle
<1>2. ReceiptsOK /\ LinesOK /\ TakenOK /\ AbsentOK /\ WithinTolerance /\ BookedOnce
  <2>1. Len(<<>>) = 0
    OBVIOUS
  <2> QED BY <2>1, DeliverableIsNat
          DEF Init, ReceiptsOK, LinesOK, TakenOK, AbsentOK, WithinTolerance, BookedOnce, NoReceipt, Idle
<1>3. StockFollowsDocuments
  <2>1. InStock = {}
    BY DEF Init, InStock, NoReceipt
  <2>2. Shelf = 0
    BY <2>1, TotalOfNone DEF Shelf
  <2>3. SumFunction(direct) = 0
    <3>1. DOMAIN direct = Lines /\ \A l \in Lines : direct[l] = 0
      BY DEF Init
    <3> QED BY <3>1, OtherSums, SumZero DEF SumFunction
  <2>4. Claimed = 0
    <3> DEFINE S == {x \in Returns : returns[x].status # "rejected"}
    <3>1. S = Returns /\ \A x \in Returns : returns[x].qty = 0
      BY DEF Init, NoReturn
    <3>2. Claimed = Total(returns, Returns)
      BY <3>1 DEF Claimed
    <3> DEFINE f == [x \in Returns |-> returns[x].qty]
    <3>3. DOMAIN f = Returns /\ \A x \in Returns : f[x] = 0
      BY <3>1
    <3>4. Total(returns, Returns) = SumFunctionOnSet(f, Returns)
      BY <3>3 DEF Total, SumFunction
    <3> HIDE DEF f, S
    <3> QED BY <3>2, <3>3, <3>4, OtherSums, SumZero
  <2> QED BY <2>2, <2>3, <2>4, SumsAre, QtyStockOfNone DEF Init, StockIs
<1>4. ReceivedIsCounted
  BY DEF Init, ReceivedIsCounted, Exists
<1> QED BY <1>1, <1>2, <1>3, <1>4 DEF ProcurementInv

LEMMA StutterHolds ==
  ASSUME ProcurementInv, UNCHANGED vars
  PROVE  ProcurementInv'
<1>1. UNCHANGED <<po, direct, receipts, returns, stock, jobs, requests, lost>>
  BY DEF vars
<1>2. /\ Shelf' = Shelf /\ LineTotal' = LineTotal /\ Claimed' = Claimed
      /\ OrderTookBack' <=> OrderTookBack
  BY <1>1, ReceiptsStay, OtherSums, TookBackStays
<1>3. StockFollowsDocuments' /\ ReceivedIsCounted'
  BY <1>1, <1>2, SumsAre, SumsAreNow DEF ProcurementInv, Exists, StockIs, LineIs
<1>4. ProcurementTypeOK' /\ ReceiptsOK' /\ LinesOK' /\ TakenOK' /\ AbsentOK'
  BY <1>1 DEF ProcurementInv, ProcurementTypeOK, ReceiptsOK, LinesOK, TakenOK, AbsentOK
<1>5. WithinTolerance' /\ BookedOnce'
  BY <1>1 DEF ProcurementInv, WithinTolerance, BookedOnce, MaxDeliverable
<1> QED BY <1>3, <1>4, <1>5 DEF ProcurementInv

LEMMA StepHolds == ProcurementInv /\ [Next]_vars => ProcurementInv'
<1> SUFFICES ASSUME ProcurementInv, [Next]_vars PROVE ProcurementInv'
  OBVIOUS
<1>1. CASE CreateOrder
  BY <1>1, CreateOrderHolds
<1>2. ASSUME NEW r \in Requests, OrderStep(r) PROVE ProcurementInv'
  <2>1. CASE Load(r)
    BY <2>1, LoadHolds
  <2>2. CASE SendToSupplier(r) \/ DeleteOrder(r) \/ Refuse(r)
             \/ \E activate \in BOOLEAN : UpdateOrder(r, activate)
    BY <2>2, HeaderHolds
  <2>3. CASE ReplaceLine(r)
    BY <2>3, ReplaceLineHolds
  <2>4. CASE CancelOrder(r) \/ FindReceipts(r) \/ ReadStock(r)
    BY <2>4, CancelReadsHolds
  <2>6. CASE TakeReceiptsBack(r)
    BY <2>6, TakeReceiptsBackHolds
  <2>5. CASE \E q \in Quantities : Receive(r, q)
    BY <2>5, ReceiveHolds
  <2> QED BY <1>2, <2>1, <2>2, <2>3, <2>4, <2>5, <2>6 DEF OrderStep
<1>3. ASSUME NEW r \in Requests, CompleteReceipt(r) PROVE ProcurementInv'
  BY <1>3, CompleteReceiptHolds
<1>4. ASSUME NEW g \in Receipts, ReceiptStep(g) PROVE ProcurementInv'
  <2>1. CASE \E r \in Requests : LoadReceipt(r, g)
    BY <2>1, LoadReceiptHolds
  <2>2. CASE \E r \in Requests, q \in Quantities, again \in Repeats \cup {0}, draft \in BOOLEAN :
               CreateReceipt(r, g, q, again, draft)
    BY <2>2, CreateReceiptHolds
  <2>3. CASE \E s \in {"cancelled", "deleted"} : EndReceipt(g, s)
    <3>1. PICK s \in {"cancelled", "deleted"} : EndReceipt(g, s)
      BY <2>3
    <3> QED BY <3>1, EndReceiptHolds
  <2>4. CASE \E q \in Quantities, again \in Repeats \cup {0}, complete \in BOOLEAN :
               EditReceipt(g, q, again, complete)
    BY <2>4, EditReceiptHolds
  <2>5. CASE PostByHeader(g)
    BY <2>5, PostByHeaderHolds
  <2> QED BY <1>4, <2>1, <2>2, <2>3, <2>4, <2>5 DEF ReceiptStep
<1>5. ASSUME NEW x \in Returns, ReturnStep(x) PROVE ProcurementInv'
  <2>1. CASE \E r \in Requests, q \in Quantities : CreateReturn(r, x, q)
    BY <2>1, CreateReturnHolds
  <2>2. CASE ApproveReturn(x) \/ RejectReturn(x)
    BY <2>2, DecideReturnHolds
  <2> QED BY <1>5, <2>1, <2>2 DEF ReturnStep
<1>6. ASSUME NEW a \in Payments, RecordPayment(a) PROVE ProcurementInv'
  BY <1>6, PaymentHolds
<1>7. CASE UNCHANGED vars
  BY <1>7, StutterHolds
<1> QED BY <1>1, <1>2, <1>3, <1>4, <1>5, <1>6, <1>7 DEF Next

LEMMA AlwaysHolds == Spec => []ProcurementInv
<1> QED BY InitHolds, StepHolds, PTL DEF Spec

(* Every row of an order, its receipts, returns and jobs keeps its type;   *)
(* stock and received quantities are never negative.                       *)
THEOREM ProcurementTypeCorrect == Spec => []ProcurementTypeOK
<1>1. ProcurementInv => ProcurementTypeOK
  BY DEF ProcurementInv
<1> QED BY <1>1, AlwaysHolds, PTL

(* The stock is what the documents say, for any conversion and any number  *)
(* of receipts, returns and handlers at work: receipts and returns count   *)
(* in base units, direct receivings as the quantity they name, and each    *)
(* posting of a receipt is taken back once at most.  Nothing is said after *)
(* the cancel of a received order took a completed receipt back.           *)
THEOREM StockIsDocumented == Spec => []StockFollowsDocuments
<1>1. ProcurementInv => StockFollowsDocuments
  BY DEF ProcurementInv
<1> QED BY <1>1, AlwaysHolds, PTL

(* The line of the order has received what is posted for it and no more,   *)
(* although orders are read without a lock and the line may be replaced:   *)
(* exactly that much while no cancel took a completed receipt back, never  *)
(* more after one.                                                         *)
THEOREM LineIsCounted == Spec => []ReceivedIsCounted
<1>1. ProcurementInv => ReceivedIsCounted
  BY DEF ProcurementInv
<1> QED BY <1>1, AlwaysHolds, PTL

(* While no receipt is made as a draft or names the line twice, receipts   *)
(* and receivings at once never exceed the tolerance together: the         *)
(* quantity already received is read under the lock of the line.           *)
THEOREM ToleranceHolds == Spec => []WithinTolerance
<1>1. ProcurementInv => WithinTolerance
  BY DEF ProcurementInv
<1> QED BY <1>1, AlwaysHolds, PTL

(* No receipt is booked twice, and one that is completed has been.         *)
THEOREM ReceiptsBookedOnce == Spec => []BookedOnce
<1>1. ProcurementInv => BookedOnce
  BY DEF ProcurementInv
<1> QED BY <1>1, AlwaysHolds, PTL
==============================================================================

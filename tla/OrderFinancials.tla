--------------------------- MODULE OrderFinancials ---------------------------
(***************************************************************************)
(* The money state of an order, derived from the payment ledger            *)
(* (api/service/orderFinancials.js).  The code never stores this state: it *)
(* recomputes it from the ledger rows under the order lock, and keeps a    *)
(* legacy cache of it in order.paymentStatus.                              *)
(*                                                                         *)
(* The tables are abstracted by the sums the code reads from them:         *)
(* collected is the sum of the positive ledger rows, refunded that of the  *)
(* negative ones, approved the sum of the approved returns' amounts.       *)
(***************************************************************************)
EXTENDS Integers

TerminalFulfilment == {"cancelled", "void"}

FinancialStates == {"UNPAID", "PARTIALLY_PAID", "PAID",
                    "PARTIALLY_REFUNDED", "REFUNDED", "INVALID"}

(* States in which money may still be collected. *)
OpenStates == {"UNPAID", "PARTIALLY_PAID"}

PaymentStatuses == {"unpaid", "partial", "paid", "refunded"}

(* Mutants: the state itself is cached; part money reads as paid; a fully  *)
(* refunded order reads as never paid.                                     *)
CacheIsState ==
  [UNPAID |-> "UNPAID", PARTIALLY_PAID |-> "PARTIALLY_PAID", PAID |-> "PAID",
   PARTIALLY_REFUNDED |-> "PARTIALLY_REFUNDED", REFUNDED |-> "REFUNDED"]
CachePaidEarly ==
  [UNPAID |-> "unpaid", PARTIALLY_PAID |-> "paid", PAID |-> "paid",
   PARTIALLY_REFUNDED |-> "partial", REFUNDED |-> "refunded"]
CacheForgets ==
  [UNPAID |-> "unpaid", PARTIALLY_PAID |-> "partial", PAID |-> "paid",
   PARTIALLY_REFUNDED |-> "partial", REFUNDED |-> "unpaid"]

(* order.paymentStatus keeps four values for five states; INVALID has none. *)
LegacyPaymentStatus ==
  [UNPAID |-> "unpaid", PARTIALLY_PAID |-> "partial", PAID |-> "paid",
   PARTIALLY_REFUNDED |-> "partial", REFUNDED |-> "refunded"]

DeriveFinancialState(G, C, R, O, terminal) ==
  IF O < 0 \/ R > C \/ (R > 0 /\ O > 0) THEN "INVALID"
  ELSE IF C = 0 /\ R = 0 THEN IF G = 0 /\ ~terminal THEN "PAID" ELSE "UNPAID"
  ELSE IF R = 0 THEN IF O > 0 THEN "PARTIALLY_PAID" ELSE "PAID"
  ELSE IF C = R THEN "REFUNDED" ELSE "PARTIALLY_REFUNDED"

(* What the commercial value of the order has lost: all of it once the     *)
(* order ended, else its approved returns.                                 *)
ReversedValue(row, money) ==
  IF row.status \in TerminalFulfilment \/ money.approved > row.total
  THEN row.total
  ELSE money.approved

Outstanding(row, money) ==
  row.total - ReversedValue(row, money) - money.collected + money.refunded

(* Mutant: refunds are forgotten. *)
GrossCollected(money) == money.collected

NetCollected(money) == money.collected - money.refunded

LedgerState(row, money) ==
  DeriveFinancialState(row.total, money.collected, money.refunded,
                       Outstanding(row, money), row.status \in TerminalFulfilment)

(* A cached 'paid' the ledger does not support makes the order             *)
(* unreconciled, whatever the ledger alone says.                           *)
FinancialState(row, money) ==
  IF row.paymentStatus = "paid" /\ LedgerState(row, money) \in OpenStates
  THEN "INVALID"
  ELSE LedgerState(row, money)

OpenForCollection(row, money) ==
  /\ row.status \notin TerminalFulfilment
  /\ FinancialState(row, money) \in OpenStates
==============================================================================

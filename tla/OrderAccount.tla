---------------------------- MODULE OrderAccount ----------------------------
(***************************************************************************)
(* What the order handlers promise about one order's money, without        *)
(* splits, caches, retries or rows: an account is opened for an amount,    *)
(* paid down to nothing, may then hand back what it holds, and is closed   *)
(* empty, for good.                                                        *)
(***************************************************************************)
EXTENDS Integers

CONSTANTS Orders, Totals

VARIABLE account   \* per order: its phase, what it is owed, what it holds

Phases == {"none", "open", "settled", "closed"}

TypeOK == account \in [Orders -> [phase: Phases, due: Nat, held: Nat]]

Init == account = [o \in Orders |-> [phase |-> "none", due |-> 0, held |-> 0]]

Open(o, amount) ==
  /\ account[o].phase = "none"
  /\ account' = [account EXCEPT ![o] = [phase |-> "open", due |-> amount, held |-> 0]]

Sell(o, amount) ==
  /\ account[o].phase = "none"
  /\ account' = [account EXCEPT ![o] = [phase |-> "settled", due |-> 0, held |-> amount]]

Pay(o, amount) ==
  /\ account[o].phase = "open"
  /\ amount <= account[o].due
  /\ account' = [account EXCEPT ![o] =
       [phase |-> IF amount = account[o].due THEN "settled" ELSE "open",
        due   |-> account[o].due - amount,
        held  |-> account[o].held + amount]]

Refund(o, amount) ==
  /\ account[o].phase = "settled"
  /\ amount <= account[o].held
  /\ account' = [account EXCEPT ![o].held = @ - amount]

Close(o) ==
  /\ account[o].phase \in {"open", "settled"}
  /\ account' = [account EXCEPT ![o] = [phase |-> "closed", due |-> 0, held |-> 0]]

Next ==
  \E o \in Orders :
    \/ \E amount \in Totals : Open(o, amount) \/ Sell(o, amount)
    \/ \E amount \in 0..account[o].due : Pay(o, amount)
    \/ \E amount \in 1..account[o].held : Refund(o, amount)
    \/ Close(o)

Spec == Init /\ [][Next]_account
==============================================================================

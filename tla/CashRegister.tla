----------------------------- MODULE CashRegister -----------------------------
(***************************************************************************)
(* The cash drawers of one store, from opening to close.                   *)
(*                                                                         *)
(* api/controller/cashRegister.js opens a register, takes movements of     *)
(* cash in and out, and closes it with a frozen account of what it held.   *)
(* Money comes in and goes out through other handlers too: they find the   *)
(* open register, take a share lock on it and verify that it is still open *)
(* (api/service/settlementAttribution.js), while a close and every         *)
(* movement take an update lock: each is one step here.                    *)
(*                                                                         *)
(* An account is the set of records it adds up; of an amount only its side *)
(* of the approval threshold and whether two are equal matter.             *)
(***************************************************************************)
EXTENDS Integers, Sequences

CONSTANTS
  Tenders,       \* requests that collect or refund money
  Asks,          \* requests to record a movement
  Keys,          \* idempotency keys
  NoKey,         \* a movement asked for without a key
  Amounts,       \* amounts of movements
  Threshold,     \* the store's cashOutApprovalThreshold
  Expenses,      \* cash expenses of the store
  MaxRegisters,  \* bound: registers ever opened
  MaxMovements   \* bound: movements ever recorded

ASSUME AmountsAssumption == Amounts \subseteq Nat /\ Threshold \in Nat
ASSUME BoundsAssumption == MaxRegisters \in Nat /\ MaxMovements \in Nat
ASSUME KeyAssumption == NoKey \notin Keys

VARIABLES
  registers,  \* registers in the order they were opened
  takings,    \* cash rows of the transaction table, and their registers
  movements,  \* cash movements in the order they were recorded
  tenders,    \* per collecting request, its step and the register it found
  asks,       \* per movement request, its step, its body and its answer
  spending    \* per expense, its status and the register open at its entry

vars == <<registers, takings, movements, tenders, asks, spending>>

Directions == {"cash_in", "cash_out"}
Ids == 0..MaxRegisters     \* 0: no register

Register == [status: {"open", "closed"},
             counted: [rows: SUBSET Nat, ins: SUBSET Nat, outs: SUBSET Nat,
                       spent: SUBSET Expenses],
             variance: {"none", "auto_approved", "pending_approval",
                        "approved", "rejected"}]
Movement == [register: Ids, key: Keys \cup {NoKey}, type: Directions,
             amount: Nat,
             status: {"pending_approval", "active", "rejected", "reversed"}]
Tender == [step: {"idle", "found", "done", "refused"}, register: Ids]
Ask == [step: {"idle", "asked", "recorded", "refused"}, register: Ids,
        key: Keys \cup {NoKey}, type: Directions, amount: Nat]
Spending == [status: {"absent", "pending", "approved", "rejected"}, register: Ids]

CashTypeOK ==
  /\ registers \in Seq(Register) /\ Len(registers) <= MaxRegisters
  /\ takings \in Seq(Ids)
  /\ movements \in Seq(Movement)
  /\ tenders \in [Tenders -> Tender]
  /\ asks \in [Asks -> Ask]
  /\ spending \in [Expenses -> Spending]

NoAsk == [step |-> "idle", register |-> 0, key |-> NoKey, type |-> "cash_in", amount |-> 0]

Init ==
  /\ registers = <<>>
  /\ takings = <<>>
  /\ movements = <<>>
  /\ tenders = [s \in Tenders |-> [step |-> "idle", register |-> 0]]
  /\ asks = [a \in Asks |-> NoAsk]
  /\ spending = [e \in Expenses |-> [status |-> "absent", register |-> 0]]

IsOpen(r) == r \in DOMAIN registers /\ registers[r].status = "open"

-----------------------------------------------------------------------------
(* Collecting and refunding. *)

(* The open register is looked up without a lock; there must be one.       *)
FindRegister(s, r) ==
  /\ tenders[s].step = "idle"
  /\ IsOpen(r)
  /\ tenders' = [tenders EXCEPT ![s] = [step |-> "found", register |-> r]]
  /\ UNCHANGED <<registers, takings, movements, asks, spending>>

(* Mutant: the register found is used as it was found. *)
AttributeAsFound(s) ==
  /\ tenders[s].step = "found"
  /\ takings' = Append(takings, tenders[s].register)
  /\ tenders' = [tenders EXCEPT ![s].step = "done"]
  /\ UNCHANGED <<registers, movements, asks, spending>>

(* The share lock: closed meanwhile, the payment is refused as a whole.    *)
AttributeTender(s) ==
  LET r == tenders[s].register
  IN /\ tenders[s].step = "found"
     /\ IF IsOpen(r)
        THEN /\ takings' = Append(takings, r)
             /\ tenders' = [tenders EXCEPT ![s].step = "done"]
        ELSE /\ tenders' = [tenders EXCEPT ![s].step = "refused"]
             /\ UNCHANGED takings
     /\ UNCHANGED <<registers, movements, asks, spending>>

(* A void looks for the open register under the share lock at once; what   *)
(* was collected into a closed one goes out of the open one.               *)
RefundVoid(s, r) ==
  /\ tenders[s].step = "idle"
  /\ IsOpen(r)
  /\ takings' = Append(takings, r)
  /\ tenders' = [tenders EXCEPT ![s] = [step |-> "done", register |-> r]]
  /\ UNCHANGED <<registers, movements, asks, spending>>

(* An expense is entered and changed without any lock on the register; the *)
(* register that counts it is the one open when it was entered.  One       *)
(* deleted later is still counted.                                         *)
EnterExpense(e, status) ==
  /\ spending[e].status = "absent"
  /\ \E r \in Ids : /\ IF r = 0 THEN \A k \in DOMAIN registers : ~IsOpen(k) ELSE IsOpen(r)
                    /\ spending' = [spending EXCEPT ![e] = [status |-> status, register |-> r]]
  /\ UNCHANGED <<registers, takings, movements, tenders, asks>>

ChangeExpense(e, status) ==
  /\ spending[e].status # "absent"
  /\ spending' = [spending EXCEPT ![e].status = status]
  /\ UNCHANGED <<registers, takings, movements, tenders, asks>>

-----------------------------------------------------------------------------
(* Movements. *)

Recorded(r, key) == {m \in DOMAIN movements : movements[m].register = r /\ movements[m].key = key}

SameMovement(m, ask) == movements[m].type = ask.type /\ movements[m].amount = ask.amount

(* Mutant: a key that was used is answered whatever it was used for. *)
ReplyByKey(ask) == "recorded"

(* What a key already used is answered: the movement if it is the same.    *)
ReplyOnKey(ask) ==
  IF \E m \in Recorded(ask.register, ask.key) : SameMovement(m, ask)
  THEN "recorded" ELSE "refused"

UsedKey(ask) == ask.key # NoKey /\ Recorded(ask.register, ask.key) # {}

(* The unlocked look for the key. *)
AskMovement(a, ask) ==
  /\ asks[a].step = "idle"
  /\ asks' = [asks EXCEPT ![a] =
                [ask EXCEPT !.step = IF UsedKey(ask) THEN ReplyOnKey(ask) ELSE "asked"]]
  /\ UNCHANGED <<registers, takings, movements, tenders, spending>>

MovementOf(ask) ==
  [register |-> ask.register, key |-> ask.key, type |-> ask.type, amount |-> ask.amount,
   status |-> IF ask.type = "cash_out" /\ ask.amount > Threshold
              THEN "pending_approval" ELSE "active"]

(* Under the register's lock.  A key used since the first look violates    *)
(* the unique index, and is answered from the movement that used it.       *)
RecordMovement(a) ==
  LET ask == asks[a]
  IN /\ ask.step = "asked"
     /\ \/ /\ ~IsOpen(ask.register)
           /\ asks' = [asks EXCEPT ![a].step = "refused"]
           /\ UNCHANGED movements
        \/ /\ IsOpen(ask.register) /\ UsedKey(ask)
           /\ asks' = [asks EXCEPT ![a].step = ReplyOnKey(ask)]
           /\ UNCHANGED movements
        \/ /\ IsOpen(ask.register) /\ ~UsedKey(ask)
           /\ Len(movements) < MaxMovements
           /\ movements' = Append(movements, MovementOf(ask))
           /\ asks' = [asks EXCEPT ![a].step = "recorded"]
     /\ UNCHANGED <<registers, takings, tenders, spending>>

DecideMovement(m, status) ==
  /\ IsOpen(movements[m].register)
  /\ movements[m].status = "pending_approval"
  /\ movements' = [movements EXCEPT ![m].status = status]
  /\ UNCHANGED <<registers, takings, tenders, asks, spending>>

Opposite(type) == CHOOSE other \in Directions : other # type

(* The original is marked and its opposite recorded, both in the open      *)
(* register.                                                               *)
ReverseMovement(m) ==
  /\ IsOpen(movements[m].register)
  /\ movements[m].status = "active"
  /\ Len(movements) < MaxMovements
  /\ movements' = Append([movements EXCEPT ![m].status = "reversed"],
                         [movements[m] EXCEPT !.type = Opposite(@), !.key = NoKey])
  /\ UNCHANGED <<registers, takings, tenders, asks, spending>>

-----------------------------------------------------------------------------
(* Opening and closing. *)

Active(r, type) == {m \in DOMAIN movements : /\ movements[m].register = r
                                             /\ movements[m].status = "active"
                                             /\ movements[m].type = type}

(* computeCashLedgerSummary: the records a register's account adds up now. *)
Ledger(r) ==
  [rows |-> {k \in DOMAIN takings : takings[k] = r},
   ins |-> Active(r, "cash_in"), outs |-> Active(r, "cash_out"),
   spent |-> {e \in Expenses : spending[e].register = r /\ spending[e].status = "approved"}]

NothingCounted == [rows |-> {}, ins |-> {}, outs |-> {}, spent |-> {}]

(* One open register per store, whoever opens it: a unique index. *)
Open ==
  /\ \A r \in DOMAIN registers : ~IsOpen(r)
  /\ Len(registers) < MaxRegisters
  /\ registers' = Append(registers, [status |-> "open", counted |-> NothingCounted,
                                     variance |-> "none"])
  /\ UNCHANGED <<takings, movements, tenders, asks, spending>>

AwaitsApproval(r) ==
  \E m \in DOMAIN movements : movements[m].register = r /\ movements[m].status = "pending_approval"

(* The account is taken and frozen under the update lock; what was counted *)
(* by hand may be near it or not.                                          *)
Close(r, variance) ==
  /\ IsOpen(r)
  /\ ~AwaitsApproval(r)
  /\ registers' = [registers EXCEPT ![r] = [status |-> "closed", counted |-> Ledger(r),
                                            variance |-> variance]]
  /\ UNCHANGED <<takings, movements, tenders, asks, spending>>

DecideVariance(r, variance) ==
  /\ registers[r].status = "closed" /\ registers[r].variance = "pending_approval"
  /\ registers' = [registers EXCEPT ![r].variance = variance]
  /\ UNCHANGED <<takings, movements, tenders, asks, spending>>

Collect == \E s \in Tenders : \/ AttributeTender(s)
                              \/ \E r \in DOMAIN registers : FindRegister(s, r) \/ RefundVoid(s, r)

Spend == \E e \in Expenses : \E status \in {"pending", "approved", "rejected"} :
           EnterExpense(e, status) \/ ChangeExpense(e, status)

Move ==
  \/ \E a \in Asks : \/ RecordMovement(a)
                     \/ \E r \in DOMAIN registers, key \in Keys \cup {NoKey},
                           type \in Directions, amount \in Amounts :
                          AskMovement(a, [step |-> "idle", register |-> r, key |-> key,
                                          type |-> type, amount |-> amount])
  \/ \E m \in DOMAIN movements : \/ ReverseMovement(m)
                                 \/ \E status \in {"active", "rejected"} : DecideMovement(m, status)

Shift ==
  \/ Open
  \/ \E r \in DOMAIN registers :
       \/ \E variance \in {"auto_approved", "pending_approval"} : Close(r, variance)
       \/ \E variance \in {"approved", "rejected"} : DecideVariance(r, variance)

Next == Collect \/ Spend \/ Move \/ Shift

Spec == Init /\ [][Next]_vars

-----------------------------------------------------------------------------
(* Correctness. *)

(* The account frozen at the close stays the register's account: no        *)
(* payment, refund or movement that was under way is added to a closed     *)
(* register, or taken from it, and none is left to be approved.            *)
ClosedIsFinal ==
  \A r \in DOMAIN registers : registers[r].status = "closed" =>
    /\ registers[r].counted.rows = Ledger(r).rows
    /\ registers[r].counted.ins = Ledger(r).ins
    /\ registers[r].counted.outs = Ledger(r).outs
    /\ ~AwaitsApproval(r)

(* Who is told that a movement is recorded finds it, once, in the register *)
(* asked for and as asked for, whoever else used the key.                  *)
AnswerMeansRecorded ==
  \A a \in Asks : asks[a].step = "recorded" =>
    /\ \E m \in Recorded(asks[a].register, asks[a].key) : SameMovement(m, asks[a])
    /\ asks[a].key # NoKey =>
         \A m, n \in Recorded(asks[a].register, asks[a].key) : m = n

(* The same of the expenses a register counts.                             *)
SpentIsFinal ==
  \A r \in DOMAIN registers : registers[r].status = "closed" =>
    registers[r].counted.spent = Ledger(r).spent
===============================================================================

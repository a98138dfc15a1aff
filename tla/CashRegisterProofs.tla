-------------------------- MODULE CashRegisterProofs --------------------------
(* A closed register's account is final, and who is told that a movement is *)
(* recorded finds it, for every store.                                      *)
EXTENDS CashRegister, SequenceTheorems, TLAPS

(* A key names one movement of a register, and a request told "recorded"    *)
(* finds its own.                                                           *)
KeysOK ==
  \A m, n \in DOMAIN movements :
    /\ movements[m].key # NoKey
    /\ movements[m].key = movements[n].key
    /\ movements[m].register = movements[n].register
    => m = n

AnswersOK ==
  \A a \in Asks : asks[a].step = "recorded" =>
    \E m \in Recorded(asks[a].register, asks[a].key) : SameMovement(m, asks[a])

CashInv == CashTypeOK /\ ClosedIsFinal /\ KeysOK /\ AnswersOK

LEMMA InitHolds == Init => CashInv
BY AmountsAssumption, BoundsAssumption, KeyAssumption
   DEF Init, CashInv, CashTypeOK, ClosedIsFinal, KeysOK, AnswersOK, Register, Tender,
       Ask, NoAsk, Spending, Ids, Directions

(* What the steps that record no movement and touch no register keep.       *)
LEMMA CollectHolds == CashInv /\ Collect => CashInv'
<1> SUFFICES ASSUME CashInv, Collect PROVE CashInv'
  OBVIOUS
<1> USE DEF CashInv
<1>1. PICK s \in Tenders, r \in Ids :
        \/ /\ takings' = takings
           /\ \E t \in Tender : tenders' = [tenders EXCEPT ![s] = t]
        \/ /\ takings' = Append(takings, r) /\ IsOpen(r)
           /\ \E t \in Tender : tenders' = [tenders EXCEPT ![s] = t]
  <2>1. PICK s \in Tenders : \/ AttributeTender(s)
                             \/ \E r \in DOMAIN registers : FindRegister(s, r) \/ RefundVoid(s, r)
    BY DEF Collect
  <2>2. DOMAIN registers \subseteq Ids
    BY BoundsAssumption DEF CashTypeOK, Ids
  <2>3. tenders[s] \in Tender /\ 0 \in Ids
    BY BoundsAssumption DEF CashTypeOK, Ids
  <2>4. CASE AttributeTender(s)
    <3> DEFINE t(step) == [tenders[s] EXCEPT !.step = step]
    <3>1. t("done") \in Tender /\ t("refused") \in Tender /\ tenders[s].register \in Ids
      BY <2>3 DEF Tender
    <3> QED  BY <2>4, <3>1 DEF AttributeTender, CashTypeOK
  <2>5. CASE \E r \in DOMAIN registers : FindRegister(s, r) \/ RefundVoid(s, r)
    BY <2>5, <2>2 DEF FindRegister, RefundVoid, Tender
  <2> QED  BY <2>1, <2>4, <2>5
<1>2. UNCHANGED <<registers, movements, asks, spending>>
  BY DEF Collect, AttributeTender, FindRegister, RefundVoid
<1>3. CashTypeOK'
  <2> USE DEF CashTypeOK
  <2>1. takings \in Seq(Ids) /\ tenders \in [Tenders -> Tender]
    OBVIOUS
  <2>2. takings' \in Seq(Ids)
    <3>1. Append(takings, r) \in Seq(Ids)
      BY <2>1, AppendProperties
    <3> QED  BY <1>1, <2>1, <3>1
  <2>3. tenders' \in [Tenders -> Tender]
    BY <1>1, <2>1
  <2> QED  BY <1>2, <2>2, <2>3
<1>4. ClosedIsFinal'
  <2> SUFFICES ASSUME NEW c \in DOMAIN registers, registers[c].status = "closed"
               PROVE Ledger(c).rows' = Ledger(c).rows
    BY <1>2 DEF ClosedIsFinal, Ledger, Active, AwaitsApproval
  <2>1. takings' = takings \/ (takings' = Append(takings, r) /\ r # c)
    BY <1>1 DEF IsOpen
  <2>2. {k \in DOMAIN takings' : takings'[k] = c} = {k \in DOMAIN takings : takings[k] = c}
    <3>1. takings \in Seq(Ids)
      BY DEF CashTypeOK
    <3>2. CASE takings' = takings
      BY <3>2
    <3>3. CASE takings' = Append(takings, r) /\ r # c
      <4>1. \A k \in DOMAIN takings' : k \in DOMAIN takings \/ takings'[k] = r
        BY <3>1, <3>3
      <4>2. \A k \in DOMAIN takings : k \in DOMAIN takings' /\ takings'[k] = takings[k]
        BY <3>1, <3>3
      <4> QED  BY <4>1, <4>2, <3>3
    <3> QED  BY <2>1, <3>2, <3>3
  <2> QED  BY <2>2 DEF Ledger
<1>5. (KeysOK /\ AnswersOK)'
  BY <1>2 DEF KeysOK, AnswersOK, Recorded, SameMovement
<1> QED  BY <1>3, <1>4, <1>5

LEMMA SpendHolds == CashInv /\ Spend => CashInv'
<1> SUFFICES ASSUME CashInv, Spend PROVE CashInv'
  OBVIOUS
<1> USE DEF CashInv
<1>1. UNCHANGED <<registers, takings, movements, tenders, asks>>
  BY DEF Spend, EnterExpense, ChangeExpense
<1>2. spending' \in [Expenses -> Spending]
  <2>1. PICK e \in Expenses, status \in {"pending", "approved", "rejected"} :
          EnterExpense(e, status) \/ ChangeExpense(e, status)
    BY DEF Spend
  <2>2. spending[e] \in Spending /\ spending \in [Expenses -> Spending]
    BY DEF CashTypeOK
  <2>3. CASE EnterExpense(e, status)
    <3>1. PICK r \in Ids :
            spending' = [spending EXCEPT ![e] = [status |-> status, register |-> r]]
      BY <2>3 DEF EnterExpense
    <3>2. [status |-> status, register |-> r] \in Spending
      BY DEF Spending
    <3> QED  BY <2>2, <3>1, <3>2
  <2>4. CASE ChangeExpense(e, status)
    <3>1. [spending[e] EXCEPT !.status = status] \in Spending
      BY <2>2 DEF Spending
    <3> QED  BY <2>2, <2>4, <3>1 DEF ChangeExpense
  <2> QED  BY <2>1, <2>3, <2>4
<1>3. (ClosedIsFinal /\ KeysOK /\ AnswersOK)'
  BY <1>1 DEF ClosedIsFinal, Ledger, Active, AwaitsApproval, KeysOK, AnswersOK, Recorded,
              SameMovement
<1> QED  BY <1>1, <1>2, <1>3 DEF CashTypeOK

LEMMA ShiftHolds == CashInv /\ Shift => CashInv'
<1> SUFFICES ASSUME CashInv, Shift PROVE CashInv'
  OBVIOUS
<1> USE DEF CashInv
<1>1. UNCHANGED <<takings, movements, tenders, asks, spending>>
  BY DEF Shift, Open, Close, DecideVariance
<1>2. (KeysOK /\ AnswersOK)'
  BY <1>1 DEF KeysOK, AnswersOK, Recorded, SameMovement
<1>3. registers \in Seq(Register) /\ Len(registers) <= MaxRegisters
  BY DEF CashTypeOK
<1>4. \A c \in DOMAIN registers : Ledger(c)' = Ledger(c) /\ AwaitsApproval(c)' = AwaitsApproval(c)
  BY <1>1 DEF Ledger, Active, AwaitsApproval
<1>5. CASE Open
  <2> DEFINE new == [status |-> "open", counted |-> NothingCounted, variance |-> "none"]
  <2>1. registers' = Append(registers, new) /\ Len(registers) < MaxRegisters
    BY <1>5 DEF Open
  <2>2. new \in Register
    BY DEF Register, NothingCounted
  <2>3. registers' \in Seq(Register) /\ Len(registers') = Len(registers) + 1
    BY <1>3, <2>1, <2>2
  <2>4. CashTypeOK'
    BY <1>1, <1>3, <2>1, <2>3, BoundsAssumption DEF CashTypeOK
  <2>5. \A c \in DOMAIN registers' : registers'[c].status = "closed" =>
          c \in DOMAIN registers /\ registers'[c] = registers[c]
    BY <1>3, <2>1
  <2>6. ClosedIsFinal'
    BY <1>4, <2>5 DEF ClosedIsFinal
  <2> QED  BY <1>2, <2>4, <2>6
<1>6. ASSUME NEW r \in DOMAIN registers, NEW variance \in {"auto_approved", "pending_approval"},
             Close(r, variance)
      PROVE  CashInv'
  <2> DEFINE new == [status |-> "closed", counted |-> Ledger(r), variance |-> variance]
  <2>1. registers' = [registers EXCEPT ![r] = new] /\ ~AwaitsApproval(r)
    BY <1>6 DEF Close
  <2>2. Ledger(r) \in [rows: SUBSET Nat, ins: SUBSET Nat, outs: SUBSET Nat,
                       spent: SUBSET Expenses]
    <3>1. DOMAIN takings \subseteq Nat /\ DOMAIN movements \subseteq Nat
      BY DEF CashTypeOK
    <3> QED  BY <3>1 DEF Ledger, Active
  <2>3. new \in Register
    BY <2>2 DEF Register
  <2>4. registers' \in Seq(Register) /\ Len(registers') = Len(registers)
    BY <1>3, <2>1, <2>3
  <2>5. CashTypeOK'
    BY <1>1, <1>3, <2>4 DEF CashTypeOK
  <2>6. \A c \in DOMAIN registers' :
          c \in DOMAIN registers /\ registers'[c] = IF c = r THEN new ELSE registers[c]
    BY <1>3, <2>1
  <2>7. ClosedIsFinal'
    BY <1>4, <2>1, <2>6 DEF ClosedIsFinal
  <2> QED  BY <1>2, <2>5, <2>7
<1>7. ASSUME NEW r \in DOMAIN registers, NEW variance \in {"approved", "rejected"},
             DecideVariance(r, variance)
      PROVE  CashInv'
  <2> DEFINE new == [registers[r] EXCEPT !.variance = variance]
  <2>1. registers' = [registers EXCEPT ![r] = new]
    BY <1>7 DEF DecideVariance
  <2>2. registers[r] \in Register
    BY <1>3
  <2>3. /\ new \in Register /\ new.status = registers[r].status
        /\ new.counted = registers[r].counted
    BY <2>2 DEF Register
  <2>4. registers' \in Seq(Register) /\ Len(registers') = Len(registers)
    BY <1>3, <2>1, <2>3
  <2>5. CashTypeOK'
    BY <1>1, <1>3, <2>4 DEF CashTypeOK
  <2>6. \A c \in DOMAIN registers' :
          /\ c \in DOMAIN registers
          /\ registers'[c].status = registers[c].status
          /\ registers'[c].counted = registers[c].counted
    BY <1>3, <2>1, <2>3
  <2>7. ClosedIsFinal'
    BY <1>4, <2>6 DEF ClosedIsFinal
  <2> QED  BY <1>2, <2>5, <2>7
<1> QED  BY <1>5, <1>6, <1>7 DEF Shift

(* A movement taken down in an open register, or changed there: the closed  *)
(* ones' accounts are untouched.                                            *)
LEMMA MoveKeepsClosed ==
  ASSUME CashTypeOK, ClosedIsFinal, UNCHANGED <<registers, takings, spending>>,
         \A c \in DOMAIN registers : registers[c].status = "closed" =>
           /\ \A m \in DOMAIN movements : movements[m].register = c =>
                m \in DOMAIN movements' /\ movements'[m] = movements[m]
           /\ \A m \in DOMAIN movements' : movements'[m].register = c =>
                m \in DOMAIN movements /\ movements'[m] = movements[m]
  PROVE  ClosedIsFinal'
<1> SUFFICES ASSUME NEW c \in DOMAIN registers, registers[c].status = "closed"
             PROVE  /\ Ledger(c).rows' = Ledger(c).rows
                    /\ Ledger(c).ins' = Ledger(c).ins
                    /\ Ledger(c).outs' = Ledger(c).outs
                    /\ AwaitsApproval(c)' = AwaitsApproval(c)
  BY DEF ClosedIsFinal
<1>1. Ledger(c).rows' = Ledger(c).rows
  BY DEF Ledger
<1>2. Active(c, "cash_in")' = Active(c, "cash_in") /\ Active(c, "cash_out")' = Active(c, "cash_out")
  BY DEF Active
<1>3. AwaitsApproval(c)' = AwaitsApproval(c)
  BY DEF AwaitsApproval
<1> QED  BY <1>1, <1>2, <1>3 DEF Ledger

LEMMA AskHolds ==
  ASSUME CashInv, NEW a \in Asks, NEW ask \in Ask, AskMovement(a, ask)
  PROVE  CashInv'
<1> USE DEF CashInv
<1> DEFINE new == [ask EXCEPT !.step = IF UsedKey(ask) THEN ReplyOnKey(ask) ELSE "asked"]
<1>1. UNCHANGED <<registers, takings, movements, tenders, spending>>
  BY DEF AskMovement
<1>2. asks' = [asks EXCEPT ![a] = new]
  BY DEF AskMovement
<1>3. /\ new \in Ask /\ new.register = ask.register /\ new.key = ask.key
      /\ new.type = ask.type /\ new.amount = ask.amount
  BY DEF Ask, ReplyOnKey
<1>4. new.step = "recorded" => \E m \in Recorded(ask.register, ask.key) : SameMovement(m, ask)
  BY DEF Ask, ReplyOnKey
<1>5. CashTypeOK'
  BY <1>1, <1>2, <1>3 DEF CashTypeOK
<1>6. ClosedIsFinal' /\ KeysOK'
  BY <1>1 DEF ClosedIsFinal, KeysOK, Ledger, Active, AwaitsApproval
<1>7. AnswersOK'
  <2> SUFFICES ASSUME NEW b \in Asks, asks'[b].step = "recorded"
               PROVE  \E m \in Recorded(asks'[b].register, asks'[b].key) : SameMovement(m, asks'[b])
    BY <1>1 DEF AnswersOK, Recorded, SameMovement
  <2>1. CASE b = a
    <3>1. asks'[b] = new
      BY <1>2, <2>1 DEF CashTypeOK
    <3> QED  BY <1>3, <1>4, <3>1 DEF SameMovement
  <2>2. CASE b # a
    BY <1>2, <2>2 DEF AnswersOK, CashTypeOK
  <2> QED  BY <2>1, <2>2
<1> QED  BY <1>5, <1>6, <1>7

LEMMA RecordHolds ==
  ASSUME CashInv, NEW a \in Asks, RecordMovement(a)
  PROVE  CashInv'
<1> USE DEF CashInv
<1> DEFINE ask == asks[a]
<1>1. UNCHANGED <<registers, takings, tenders, spending>> /\ ask \in Ask
      /\ movements \in Seq(Movement) /\ asks \in [Asks -> Ask]
  BY DEF RecordMovement, CashTypeOK
<1>2. ASSUME NEW step \in {"refused", "recorded"}, asks' = [asks EXCEPT ![a].step = step],
             UNCHANGED movements,
             step = "recorded" =>
               \E m \in Recorded(ask.register, ask.key) : SameMovement(m, ask)
      PROVE  CashInv'
  <2>1. [ask EXCEPT !.step = step] \in Ask
    BY <1>1 DEF Ask
  <2>2. CashTypeOK'
    BY <1>1, <1>2, <2>1 DEF CashTypeOK
  <2>3. ClosedIsFinal' /\ KeysOK'
    BY <1>1, <1>2 DEF ClosedIsFinal, KeysOK, Ledger, Active, AwaitsApproval
  <2>4. ASSUME NEW b \in Asks, asks'[b].step = "recorded"
        PROVE  \E m \in Recorded(asks'[b].register, asks'[b].key) : SameMovement(m, asks'[b])
    <3>1. /\ asks'[b].register = asks[b].register /\ asks'[b].key = asks[b].key
          /\ asks'[b].type = asks[b].type /\ asks'[b].amount = asks[b].amount
          /\ b # a => asks'[b].step = asks[b].step
          /\ b = a => asks'[b].step = step
      BY <1>1, <1>2 DEF Ask
    <3>2. \E m \in Recorded(asks[b].register, asks[b].key) : SameMovement(m, asks[b])
      BY <1>2, <2>4, <3>1 DEF AnswersOK
    <3> QED  BY <3>1, <3>2 DEF SameMovement
  <2>5. AnswersOK'
    BY <1>2, <2>4 DEF AnswersOK, Recorded, SameMovement
  <2> QED  BY <2>2, <2>3, <2>5
<1>3. CASE ~IsOpen(ask.register) /\ asks' = [asks EXCEPT ![a].step = "refused"]
           /\ UNCHANGED movements
  BY <1>2, <1>3
<1>4. CASE UsedKey(ask) /\ asks' = [asks EXCEPT ![a].step = ReplyOnKey(ask)]
           /\ UNCHANGED movements
  <2>1. CASE ReplyOnKey(ask) = "recorded"
    <3>1. \E m \in Recorded(ask.register, ask.key) : SameMovement(m, ask)
      BY <2>1 DEF ReplyOnKey
    <3> QED  BY <1>2, <1>4, <2>1, <3>1
  <2>2. CASE ReplyOnKey(ask) = "refused"
    BY <1>2, <1>4, <2>2
  <2> QED  BY <2>1, <2>2 DEF ReplyOnKey
<1>5. CASE /\ IsOpen(ask.register) /\ ~UsedKey(ask)
           /\ movements' = Append(movements, MovementOf(ask))
           /\ asks' = [asks EXCEPT ![a].step = "recorded"]
  <2> DEFINE new == MovementOf(ask)
  <2>1. /\ new \in Movement /\ new.register = ask.register /\ new.key = ask.key
        /\ new.type = ask.type /\ new.amount = ask.amount
    BY <1>1 DEF MovementOf, Movement, Ask
  <2>2. /\ movements' \in Seq(Movement)
        /\ DOMAIN movements' = DOMAIN movements \cup {Len(movements) + 1}
        /\ Len(movements) + 1 \notin DOMAIN movements
        /\ movements'[Len(movements) + 1] = new
        /\ \A m \in DOMAIN movements : movements'[m] = movements[m]
    BY <1>1, <1>5, <2>1
  <2>3. [ask EXCEPT !.step = "recorded"] \in Ask
    BY <1>1 DEF Ask
  <2>4. CashTypeOK'
    BY <1>1, <1>5, <2>2, <2>3 DEF CashTypeOK
  <2>5. ClosedIsFinal'
    <3>1. \A c \in DOMAIN registers : registers[c].status = "closed" => c # new.register
      BY <1>5, <2>1 DEF IsOpen
    <3> QED  BY <1>1, <2>2, <3>1, MoveKeepsClosed
  <2>6. KeysOK'
    <3>1. \A m \in DOMAIN movements : new.key # NoKey =>
            ~(movements[m].key = new.key /\ movements[m].register = new.register)
      BY <1>5, <2>1 DEF UsedKey, Recorded
    <3> QED  BY <2>2, <3>1 DEF KeysOK
  <2>7. ASSUME NEW b \in Asks, asks'[b].step = "recorded"
        PROVE  \E m \in DOMAIN movements' :
                 /\ movements'[m].register = asks'[b].register
                 /\ movements'[m].key = asks'[b].key
                 /\ movements'[m].type = asks'[b].type
                 /\ movements'[m].amount = asks'[b].amount
    <3>1. CASE b = a
      <4>1. /\ asks'[a].register = ask.register /\ asks'[a].key = ask.key
            /\ asks'[a].type = ask.type /\ asks'[a].amount = ask.amount
        BY <1>1, <1>5 DEF Ask
      <4> QED  BY <2>1, <2>2, <3>1, <4>1
    <3>2. CASE b # a
      <4>1. asks'[b] = asks[b]
        BY <1>1, <1>5, <3>2
      <4> QED  BY <2>2, <2>7, <4>1 DEF AnswersOK, Recorded, SameMovement
    <3> QED  BY <3>1, <3>2
  <2>8. AnswersOK'
    BY <2>7 DEF AnswersOK, Recorded, SameMovement
  <2> QED  BY <2>4, <2>5, <2>6, <2>8
<1> QED  BY <1>3, <1>4, <1>5 DEF RecordMovement

(* A movement that keeps everything but its status.                         *)
LEMMA StatusHolds ==
  ASSUME CashInv, NEW m \in DOMAIN movements, IsOpen(movements[m].register),
         NEW status \in {"active", "rejected", "reversed"},
         movements' = [movements EXCEPT ![m].status = status],
         UNCHANGED <<registers, takings, tenders, asks, spending>>
  PROVE  CashInv'
<1> USE DEF CashInv
<1> DEFINE new == [movements[m] EXCEPT !.status = status]
<1>1. movements \in Seq(Movement)
  BY DEF CashTypeOK
<1>2. movements[m] \in Movement
  BY <1>1
<1>3. /\ new \in Movement /\ new.register = movements[m].register
      /\ new.key = movements[m].key /\ new.type = movements[m].type
      /\ new.amount = movements[m].amount
  BY <1>2 DEF Movement
<1>4. /\ movements' \in Seq(Movement) /\ DOMAIN movements' = DOMAIN movements
      /\ \A n \in DOMAIN movements : movements'[n] = IF n = m THEN new ELSE movements[n]
  BY <1>1, <1>3
<1>5. CashTypeOK'
  BY <1>4 DEF CashTypeOK
<1>6. ClosedIsFinal'
  <2>1. \A c \in DOMAIN registers : registers[c].status = "closed" => c # movements[m].register
    BY DEF IsOpen
  <2> QED  BY <1>3, <1>4, <2>1, MoveKeepsClosed
<1>7. \A n \in DOMAIN movements :
        /\ movements'[n].register = movements[n].register
        /\ movements'[n].key = movements[n].key
        /\ movements'[n].type = movements[n].type
        /\ movements'[n].amount = movements[n].amount
  BY <1>3, <1>4
<1>8. KeysOK'
  BY <1>4, <1>7 DEF KeysOK
<1>9. AnswersOK'
  BY <1>4, <1>7 DEF AnswersOK, Recorded, SameMovement
<1> QED  BY <1>5, <1>6, <1>8, <1>9

LEMMA ReverseHolds ==
  ASSUME CashInv, NEW m \in DOMAIN movements, ReverseMovement(m)
  PROVE  CashInv'
<1> USE DEF CashInv
<1> DEFINE old == [movements[m] EXCEPT !.status = "reversed"]
           opposite == [movements[m] EXCEPT !.type = Opposite(movements[m].type), !.key = NoKey]
           marked == [movements EXCEPT ![m].status = "reversed"]
           last == Len(movements) + 1
<1>1. /\ UNCHANGED <<registers, takings, tenders, asks, spending>>
      /\ IsOpen(movements[m].register)
      /\ movements' = Append(marked, opposite)
  BY DEF ReverseMovement
<1>2. movements \in Seq(Movement) /\ movements[m] \in Movement
  BY DEF CashTypeOK
<1>3. Opposite(movements[m].type) \in Directions
  BY DEF Opposite, Directions
<1>4. /\ old \in Movement /\ old.register = movements[m].register
      /\ old.key = movements[m].key /\ old.type = movements[m].type
      /\ old.amount = movements[m].amount
  BY <1>2 DEF Movement
<1>5. /\ opposite \in Movement /\ opposite.register = movements[m].register
      /\ opposite.key = NoKey
  BY <1>2, <1>3 DEF Movement
<1>6. /\ marked \in Seq(Movement) /\ Len(marked) = Len(movements)
      /\ DOMAIN marked = DOMAIN movements
      /\ \A n \in DOMAIN movements : marked[n] = IF n = m THEN old ELSE movements[n]
  BY <1>2, <1>4
<1>7. /\ movements' \in Seq(Movement) /\ DOMAIN movements' = DOMAIN movements \cup {last}
      /\ last \notin DOMAIN movements /\ movements'[last] = opposite
      /\ \A n \in DOMAIN movements : movements'[n] = IF n = m THEN old ELSE movements[n]
  <2> HIDE DEF marked, opposite, old
  <2> QED  BY <1>1, <1>2, <1>5, <1>6
<1> HIDE DEF opposite, old, marked, last
<1>8. CashTypeOK'
  BY <1>1, <1>7 DEF CashTypeOK
<1>9. ClosedIsFinal'
  <2>1. \A c \in DOMAIN registers : registers[c].status = "closed" => c # movements[m].register
    BY <1>1 DEF IsOpen
  <2> QED  BY <1>1, <1>4, <1>5, <1>7, <2>1, MoveKeepsClosed
<1>10. \A n \in DOMAIN movements :
         /\ movements'[n].register = movements[n].register
         /\ movements'[n].key = movements[n].key
         /\ movements'[n].type = movements[n].type
         /\ movements'[n].amount = movements[n].amount
  BY <1>4, <1>7
<1>11. KeysOK'
  BY <1>5, <1>7, <1>10 DEF KeysOK
<1>12. AnswersOK'
  BY <1>1, <1>7, <1>10 DEF AnswersOK, Recorded, SameMovement
<1> QED  BY <1>8, <1>9, <1>11, <1>12

LEMMA MoveHolds == CashInv /\ Move => CashInv'
<1> SUFFICES ASSUME CashInv, Move PROVE CashInv'
  OBVIOUS
<1>1. ASSUME NEW a \in Asks, RecordMovement(a) PROVE CashInv'
  BY <1>1, RecordHolds
<1>2. ASSUME NEW a \in Asks, NEW r \in DOMAIN registers, NEW key \in Keys \cup {NoKey},
             NEW type \in Directions, NEW amount \in Amounts,
             AskMovement(a, [step |-> "idle", register |-> r, key |-> key,
                             type |-> type, amount |-> amount])
      PROVE  CashInv'
  <2>1. r \in Ids
    BY BoundsAssumption DEF CashInv, CashTypeOK, Ids
  <2>2. [step |-> "idle", register |-> r, key |-> key, type |-> type, amount |-> amount] \in Ask
    BY <2>1, AmountsAssumption DEF Ask
  <2> QED  BY <1>2, <2>2, AskHolds
<1>3. ASSUME NEW m \in DOMAIN movements, ReverseMovement(m) PROVE CashInv'
  BY <1>3, ReverseHolds
<1>4. ASSUME NEW m \in DOMAIN movements, NEW status \in {"active", "rejected"},
             DecideMovement(m, status)
      PROVE  CashInv'
  BY <1>4, StatusHolds DEF DecideMovement
<1> QED  BY <1>1, <1>2, <1>3, <1>4 DEF Move

(* The inductive invariant of cashRegister.js holds at every step: the      *)
(* rows are well formed, a closed register's figures stand, every movement  *)
(* key names one movement and every answer given names a recorded one.      *)
THEOREM CashInvHolds == Spec => []CashInv
<1>1. CashInv /\ [Next]_vars => CashInv'
  <2>1. CashInv /\ UNCHANGED vars => CashInv'
    BY DEF CashInv, CashTypeOK, ClosedIsFinal, KeysOK, AnswersOK, vars, Ledger, Active,
           AwaitsApproval, Recorded, SameMovement
  <2> QED  BY <2>1, CollectHolds, SpendHolds, MoveHolds, ShiftHolds DEF Next
<1> QED  BY InitHolds, <1>1, PTL DEF Spec

(* The types of the model's state, for any store and any bounds.            *)
THEOREM CashTypeCorrect == Spec => []CashTypeOK
BY CashInvHolds, PTL DEF CashInv

(* Once a register is closed, no payment, refund or movement is ever added  *)
(* to its account or taken from it: the locks of close, createMovement and  *)
(* settlementAttribution are enough.                                        *)
THEOREM ClosedRegistersFinal == Spec => []ClosedIsFinal
BY CashInvHolds, PTL DEF CashInv

(* Whoever is answered that a movement is recorded finds it, once, as asked *)
(* for: createMovement's replay by idempotency key never answers for        *)
(* another movement.                                                        *)
THEOREM AnswersTrue == Spec => []AnswerMeansRecorded
<1>1. CashInv => AnswerMeansRecorded
  BY DEF CashInv, AnswersOK, KeysOK, AnswerMeansRecorded, Recorded
<1> QED  BY CashInvHolds, <1>1, PTL
===============================================================================

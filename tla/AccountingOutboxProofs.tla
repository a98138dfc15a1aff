------------------------ MODULE AccountingOutboxProofs ------------------------
(***************************************************************************)
(* Theorems of AccountingOutbox for any orders, drains, limits, attempts   *)
(* and crashes: no number of attempts posts twice, a row says posted only  *)
(* of what the books hold, and says so for good.                           *)
(***************************************************************************)
EXTENDS AccountingOutbox, SumTheorems

Present == {j \in Jobs : outbox[j].status # "absent"}

(* The job's entry is in the books, if it had an amount. *)
Written(j) ==
  /\ j[2] = "order_journal" /\ "order" \in worth[j[1]] => journal[j[1]]["order"] = 1
  /\ j[2] = "order_cogs_journal" /\ "cogs" \in worth[j[1]] => journal[j[1]]["cogs"] = 1

(* What Oldest chooses, by the places b. *)
Leads(b, j, rows) ==
  \A k \in rows : \/ b[j] < b[k] \/ j = k
                  \/ b[j] = b[k] /\ j[2] = "order_journal"

(* Only the sale and the cost of one order share a place. *)
Ordered(b, rows) ==
  /\ \A j \in rows : b[j] \in Nat
  /\ \A j, k \in rows : b[j] = b[k] =>
       j[1] = k[1] /\ (j[2] = k[2] \/ j[2] = "order_journal" \/ k[2] = "order_journal")

(* Rows that exist have places below the next one to be given.             *)
BirthsOK ==
  /\ IsFiniteSet(Present)
  /\ \A j \in Present : births[j] < Cardinality(Present)
  /\ Ordered(births, Present)

JournalOK == PostedOnce /\ ReversalHasOriginal

RowsOK == \A j \in Jobs : outbox[j].status = "posted" => Written(j)

(* A request works on its own jobs; the success it has yet to record is    *)
(* that of the job it will record it for.                                  *)
RequestsOK ==
  \A r \in Requests :
    /\ requests[r].todo \subseteq JobsOf(r) \cap Present
    /\ requests[r].outcome # "none" => requests[r].todo # {}
    /\ requests[r].outcome = "ok" =>
         \A j \in requests[r].todo : Leads(births, j, requests[r].todo) => Written(j)

(* Locked rows are waiting, with attempts left, and locked once.           *)
DrainsOK ==
  \A d \in Drains :
    /\ drains[d].ok \subseteq drains[d].claimed /\ drains[d].bad \subseteq drains[d].claimed
    /\ drains[d].ok \cap drains[d].bad = {}
    /\ \A j \in drains[d].claimed : /\ outbox[j].status = "pending"
                                    /\ outbox[j].attempts < MaxAttempts
    /\ \A j \in drains[d].ok : Written(j)
    /\ \A e \in Drains \ {d} : drains[d].claimed \cap drains[e].claimed = {}

(* The inductive invariant. *)
OutboxInv == TypeOK /\ BirthsOK /\ JournalOK /\ RowsOK /\ RequestsOK /\ DrainsOK

-----------------------------------------------------------------------------
(* Jobs and the oldest of them. *)

LEMMA JobShape ==
  ASSUME NEW j \in Jobs
  PROVE  j = <<j[1], j[2]>> /\ j[1] \in Orders /\ j[2] \in JobTypes
BY DEF Jobs

LEMMA JobsOfShape ==
  ASSUME NEW r \in Requests
  PROVE  /\ JobsOf(r) \subseteq Jobs /\ JobsOf(r) # {}
         /\ \A j \in JobsOf(r) : j[1] = r[1]
         /\ \A j, k \in JobsOf(r) : j[2] = k[2] \/ j[2] = "order_journal" \/ k[2] = "order_journal"
         /\ IsFiniteSet(JobsOf(r))
<1> DEFINE types == IF r[2] = "settle" THEN {"order_journal", "order_cogs_journal"}
                                       ELSE {"reverse_order_journals"}
<1>1. r[1] \in Orders /\ types \subseteq JobTypes /\ types # {} /\ JobsOf(r) = {r[1]} \X types
  BY DEF Requests, JobsOf, JobTypes
<1>2. \A j, k \in JobsOf(r) : j[2] = k[2] \/ j[2] = "order_journal" \/ k[2] = "order_journal"
  BY <1>1
<1>3. IsFiniteSet(JobsOf(r))
  <2>1. CASE r[2] = "settle"
    <3>1. JobsOf(r) = {<<r[1], "order_journal">>} \cup {<<r[1], "order_cogs_journal">>}
      BY <2>1 DEF JobsOf
    <3>2. IsFiniteSet({<<r[1], "order_journal">>}) /\ IsFiniteSet({<<r[1], "order_cogs_journal">>})
      BY FS_Singleton
    <3>3. IsFiniteSet({<<r[1], "order_journal">>} \cup {<<r[1], "order_cogs_journal">>})
      BY <3>2, FS_Union, ZenonT(20)
    <3> QED BY <3>1, <3>3
  <2>2. CASE r[2] # "settle"
    <3>1. JobsOf(r) = {<<r[1], "reverse_order_journals">>}
      BY <2>2 DEF JobsOf
    <3> QED BY <3>1, FS_Singleton
  <2> QED BY <2>1, <2>2
<1> HIDE DEF types
<1>4. JobsOf(r) \subseteq Jobs
  BY <1>1 DEF Jobs
<1>5. JobsOf(r) # {} /\ \A j \in JobsOf(r) : j[1] = r[1]
  <2>1. PICK t \in types : TRUE
    BY <1>1
  <2>2. <<r[1], t>> \in JobsOf(r)
    BY <1>1
  <2> QED BY <1>1, <2>2
<1> QED BY <1>2, <1>3, <1>4, <1>5

LEMMA SomeLeads ==
  ASSUME NEW b, NEW rows \in SUBSET Jobs, rows # {}, Ordered(b, rows)
  PROVE  \E j \in rows : Leads(b, j, rows)
<1> DEFINE places == {b[j] : j \in rows}
<1>1. places \in SUBSET Nat /\ places # {}
  BY DEF Ordered
<1>2. PICK n \in places : \A m \in places : n <= m
  BY <1>1, LeastNatural
<1> DEFINE first == {j \in rows : b[j] = n}
<1>3. PICK j \in first : j[2] = "order_journal" \/ \A k \in first : k[2] # "order_journal"
  BY <1>2
<1>4. \A k \in rows : b[k] \in Nat /\ n <= b[k]
  BY <1>2 DEF Ordered
<1>5. ASSUME NEW k \in rows, b[k] = n, j[2] # "order_journal" PROVE j = k
  BY <1>3, <1>5, JobShape DEF Ordered
<1>6. ASSUME NEW k \in rows PROVE b[j] < b[k] \/ j = k \/ (b[j] = b[k] /\ j[2] = "order_journal")
  BY <1>3, <1>4, <1>5
<1> QED BY <1>3, <1>6 DEF Leads

LEMMA OneLeads ==
  ASSUME NEW b, NEW rows \in SUBSET Jobs, Ordered(b, rows), NEW j \in rows, NEW k \in rows,
         Leads(b, j, rows), Leads(b, k, rows)
  PROVE  j = k
<1>1. b[j] \in Nat /\ b[k] \in Nat
  BY DEF Ordered
<1>2. j = k \/ (b[j] = b[k] /\ j[2] = "order_journal" /\ k[2] = "order_journal")
  BY <1>1 DEF Leads
<1> QED BY <1>2, JobShape DEF Ordered

LEMMA OldestLeads ==
  ASSUME NEW rows \in SUBSET Jobs, rows # {}, Ordered(births, rows)
  PROVE  Oldest(rows) \in rows /\ Leads(births, Oldest(rows), rows)
<1>1. \E j \in rows : Leads(births, j, rows)
  BY SomeLeads
<1> QED BY <1>1 DEF Oldest, Leads

(* Rows keep their order while their places stay. *)
LEMMA SameLeads ==
  ASSUME NEW b, NEW c, NEW rows, \A j \in rows : b[j] = c[j], NEW j \in rows
  PROVE  Leads(b, j, rows) <=> Leads(c, j, rows)
BY DEF Leads

LEMMA RequestTodo ==
  ASSUME OutboxInv, NEW r \in Requests, requests[r].todo # {}
  PROVE  LET j == Oldest(requests[r].todo)
         IN /\ requests[r].todo \in SUBSET Jobs
            /\ j \in requests[r].todo /\ j \in Jobs /\ j \in Present
            /\ Leads(births, j, requests[r].todo)
            /\ \A k \in requests[r].todo : Leads(births, k, requests[r].todo) => k = j
<1>1. requests[r].todo \in SUBSET Jobs /\ requests[r].todo \subseteq Present
  BY DEF OutboxInv, RequestsOK, Present
<1>2. Ordered(births, requests[r].todo)
  BY <1>1 DEF OutboxInv, BirthsOK, Ordered
<1> QED BY <1>1, <1>2, OldestLeads, OneLeads

LEMMA DrainTodo ==
  ASSUME OutboxInv, NEW d \in Drains, Todo(d) # {}
  PROVE  Oldest(Todo(d)) \in Todo(d) /\ Oldest(Todo(d)) \in Jobs
<1>1. drains[d].claimed \subseteq Jobs
  BY DEF OutboxInv, TypeOK
<1>2. Todo(d) \in SUBSET Jobs /\ Todo(d) \subseteq Present
  BY <1>1 DEF OutboxInv, DrainsOK, Present, Todo
<1>3. Ordered(births, Todo(d))
  BY <1>2 DEF OutboxInv, BirthsOK, Ordered
<1> QED BY <1>2, <1>3, OldestLeads

-----------------------------------------------------------------------------
(* Posting an entry, by whoever does it. *)

LEMMA EntryIsEntry ==
  ASSUME NEW j \in Jobs, NEW leg
  PROVE  Entry(j, leg) \in Entries
BY JobShape DEF Entry, Entries, JobTypes

LEMMA PostKeeps ==
  ASSUME TypeOK, JournalOK, NEW o \in Orders, NEW e \in Entries,
         CreateJournalEntry(o, e), worth' = worth
  PROVE  /\ journal' \in [Orders -> [Entries -> Nat]] /\ JournalOK'
         /\ \A p \in Orders, x \in Entries : journal[p][x] = 1 => journal'[p][x] = 1
         /\ e \in Originals /\ e \in worth[o] => journal'[o][e] = 1
<1>1. /\ journal \in [Orders -> [Entries -> Nat]]
      /\ \A p \in Orders, x \in Entries : journal[p][x] \in {0, 1}
  <2>1. journal \in [Orders -> [Entries -> Nat]]
    BY DEF TypeOK
  <2>2. \A p \in Orders, x \in Entries : journal[p][x] \in Nat /\ journal[p][x] <= 1
    BY <2>1 DEF JournalOK, PostedOnce
  <2>3. \A n \in Nat : n <= 1 => n \in {0, 1}
    OBVIOUS
  <2> QED BY <2>1, <2>2, <2>3
<1>2. CASE HasAmount(o, e) /\ journal[o][e] = 0
  <2>1. journal' = [journal EXCEPT ![o] = [journal[o] EXCEPT ![e] = 1]]
    BY <1>1, <1>2 DEF CreateJournalEntry
  <2>2. /\ journal' \in [Orders -> [Entries -> Nat]]
        /\ \A p \in Orders, x \in Entries :
             journal'[p][x] = IF p = o /\ x = e THEN 1 ELSE journal[p][x]
    BY <1>1, <2>1
  <2>3. PostedOnce'
    BY <1>1, <2>2 DEF PostedOnce
  <2>4. ASSUME NEW p \in Orders
        PROVE  /\ journal'[p]["order_reversal"] <= journal'[p]["order"]
               /\ journal'[p]["cogs_reversal"] <= journal'[p]["cogs"]
    <3>1. /\ journal[p]["order_reversal"] <= journal[p]["order"]
          /\ journal[p]["cogs_reversal"] <= journal[p]["cogs"]
      BY DEF JournalOK, ReversalHasOriginal
    <3>2. /\ journal[p]["order"] \in {0, 1} /\ journal[p]["order_reversal"] \in {0, 1}
          /\ journal[p]["cogs"] \in {0, 1} /\ journal[p]["cogs_reversal"] \in {0, 1}
      BY <1>1 DEF Entries
    <3>3. /\ e = "order_reversal" => journal[o]["order"] > 0
          /\ e = "cogs_reversal" => journal[o]["cogs"] > 0
      BY <1>2 DEF HasAmount, Originals
    <3>4. /\ journal'[p]["order"] = IF p = o /\ "order" = e THEN 1 ELSE journal[p]["order"]
          /\ journal'[p]["cogs"] = IF p = o /\ "cogs" = e THEN 1 ELSE journal[p]["cogs"]
          /\ journal'[p]["order_reversal"] =
               IF p = o /\ "order_reversal" = e THEN 1 ELSE journal[p]["order_reversal"]
          /\ journal'[p]["cogs_reversal"] =
               IF p = o /\ "cogs_reversal" = e THEN 1 ELSE journal[p]["cogs_reversal"]
      BY <2>2 DEF Entries
    <3> QED BY <3>1, <3>2, <3>3, <3>4
  <2> QED BY <2>2, <2>3, <2>4 DEF JournalOK, ReversalHasOriginal
<1>3. CASE ~(HasAmount(o, e) /\ journal[o][e] = 0)
  <2>1. journal' = journal
    BY <1>3 DEF CreateJournalEntry
  <2>2. e \in Originals /\ e \in worth[o] => journal[o][e] = 1
    BY <1>1, <1>3 DEF HasAmount, Originals
  <2> QED BY <1>1, <2>1, <2>2 DEF JournalOK, PostedOnce, ReversalHasOriginal
<1> QED BY <1>2, <1>3

(* What a leg of a job leaves written. *)
LEMMA LegWrites ==
  ASSUME OutboxInv, NEW j \in Jobs, NEW leg,
         CreateJournalEntry(j[1], Entry(j, leg)), worth' = worth
  PROVE  /\ journal' \in [Orders -> [Entries -> Nat]] /\ JournalOK'
         /\ \A k \in Jobs : Written(k) => Written(k)'
         /\ Written(j)'
<1>1. j[1] \in Orders /\ j[2] \in JobTypes /\ Entry(j, leg) \in Entries
  BY JobShape, EntryIsEntry
<1>2. /\ journal' \in [Orders -> [Entries -> Nat]] /\ JournalOK'
      /\ \A p \in Orders, x \in Entries : journal[p][x] = 1 => journal'[p][x] = 1
      /\ Entry(j, leg) \in Originals /\ Entry(j, leg) \in worth[j[1]]
           => journal'[j[1]][Entry(j, leg)] = 1
  BY <1>1, PostKeeps DEF OutboxInv
<1>3. \A k \in Jobs : Written(k) => Written(k)'
  BY <1>2, JobShape DEF Written, Entries
<1>4. Written(j)'
  <2>1. CASE j[2] = "order_journal"
    <3>1. Entry(j, leg) = "order"
      BY <2>1 DEF Entry
    <3> QED BY <1>2, <2>1, <3>1 DEF Written, Originals
  <2>2. CASE j[2] = "order_cogs_journal"
    <3>1. Entry(j, leg) = "cogs"
      BY <2>2 DEF Entry
    <3> QED BY <1>2, <2>2, <3>1 DEF Written, Originals
  <2>3. CASE j[2] = "reverse_order_journals"
    BY <2>3 DEF Written
  <2> QED BY <1>1, <2>1, <2>2, <2>3 DEF JobTypes
<1> QED BY <1>2, <1>3, <1>4

-----------------------------------------------------------------------------
(* Steps that leave the rows alone. *)

(* The parts of the invariant about rows, when none changes. *)
LEMMA SameRows ==
  ASSUME OutboxInv, UNCHANGED <<outbox, births>>
  PROVE  BirthsOK' /\ Present' = Present
BY DEF OutboxInv, BirthsOK, Present, Ordered

(* A request's next state, when nothing is unwritten and rows stay.        *)
LEMMA RequestMoves ==
  ASSUME OutboxInv, UNCHANGED <<outbox, births, drains, worth, crashes>>,
         journal' \in [Orders -> [Entries -> Nat]], JournalOK',
         \A k \in Jobs : Written(k) => Written(k)',
         NEW r \in Requests, NEW todo \in SUBSET requests[r].todo, NEW leg \in 1..2,
         NEW outcome \in Outcomes,
         requests' = [requests EXCEPT ![r] = [todo |-> todo, leg |-> leg, outcome |-> outcome]],
         outcome # "none" => todo # {},
         outcome = "ok" => \A j \in todo : Leads(births, j, todo) => Written(j)'
  PROVE  OutboxInv'
<1>1. BirthsOK' /\ Present' = Present
  BY SameRows
<1>2. TypeOK'
  BY DEF OutboxInv, TypeOK
<1>3. RowsOK'
  BY DEF OutboxInv, RowsOK
<1>4. DrainsOK'
  <2>1. \A d \in Drains : drains[d].ok \subseteq Jobs
    BY DEF OutboxInv, TypeOK
  <2> QED BY <2>1 DEF OutboxInv, DrainsOK
<1>5. ASSUME NEW x \in Requests
      PROVE  /\ requests'[x].todo \subseteq JobsOf(x) \cap Present'
             /\ requests'[x].outcome # "none" => requests'[x].todo # {}
             /\ requests'[x].outcome = "ok" =>
                  \A j \in requests'[x].todo : Leads(births', j, requests'[x].todo) => Written(j)'
  <2>1. /\ requests[x].todo \subseteq JobsOf(x) \cap Present
        /\ requests[x].todo \subseteq Jobs
        /\ requests[x].outcome # "none" => requests[x].todo # {}
        /\ requests[x].outcome = "ok" =>
             \A j \in requests[x].todo : Leads(births, j, requests[x].todo) => Written(j)
    BY DEF OutboxInv, RequestsOK, TypeOK
  <2>2. births' = births
    OBVIOUS
  <2>3. requests'[x] = IF x = r THEN [todo |-> todo, leg |-> leg, outcome |-> outcome]
                       ELSE requests[x]
    BY DEF OutboxInv, TypeOK
  <2>4. CASE x = r
    BY <1>1, <2>1, <2>2, <2>3, <2>4
  <2>5. CASE x # r
    BY <1>1, <2>1, <2>2, <2>3, <2>5
  <2> QED BY <2>4, <2>5
<1>6. RequestsOK'
  BY <1>5 DEF RequestsOK
<1> QED BY <1>1, <1>2, <1>3, <1>4, <1>6 DEF OutboxInv

LEMMA AttemptLegHolds ==
  ASSUME OutboxInv, NEW r \in Requests, AttemptLeg(r)
  PROVE  OutboxInv'
<1> DEFINE todo == requests[r].todo
           leg == requests[r].leg
<1>1. todo # {}
  BY DEF AttemptLeg, Attempting
<1>2. PICK j \in Jobs : j = Oldest(todo) /\ \A k \in todo : Leads(births, k, todo) => k = j
  BY <1>1, RequestTodo
<1>3. CreateJournalEntry(j[1], Entry(j, leg)) /\ UNCHANGED <<outbox, births, worth, drains, crashes>>
  BY <1>2 DEF AttemptLeg
<1>4. requests[r] = [todo |-> todo, leg |-> leg, outcome |-> "none"] /\ leg \in 1..2
  BY DEF OutboxInv, TypeOK, AttemptLeg, Attempting
<1>5. \/ requests' = [requests EXCEPT ![r] = [requests[r] EXCEPT !.outcome = "ok"]]
      \/ requests' = [requests EXCEPT ![r] = [requests[r] EXCEPT !.leg = 2]]
  BY DEF AttemptLeg
<1>6. /\ [requests[r] EXCEPT !.outcome = "ok"] = [todo |-> todo, leg |-> leg, outcome |-> "ok"]
      /\ [requests[r] EXCEPT !.leg = 2] = [todo |-> todo, leg |-> 2, outcome |-> "none"]
  BY <1>4
<1>7. todo \in SUBSET requests[r].todo
  OBVIOUS
<1> HIDE DEF todo, leg
<1>8. /\ journal' \in [Orders -> [Entries -> Nat]] /\ JournalOK'
      /\ \A k \in Jobs : Written(k) => Written(k)'
      /\ Written(j)'
  BY <1>3, LegWrites
<1>9. \A k \in todo : Leads(births, k, todo) => Written(k)'
  BY <1>2, <1>8
<1>10. CASE requests' = [requests EXCEPT ![r] = [todo |-> todo, leg |-> leg, outcome |-> "ok"]]
  BY <1>1, <1>3, <1>4, <1>7, <1>8, <1>9, <1>10, RequestMoves DEF Outcomes
<1>11. CASE requests' = [requests EXCEPT ![r] = [todo |-> todo, leg |-> 2, outcome |-> "none"]]
  <2>1. 2 \in 1..2 /\ "none" \in Outcomes
    BY DEF Outcomes
  <2> QED BY <1>1, <1>3, <1>7, <1>8, <1>11, <2>1, RequestMoves
<1> QED BY <1>5, <1>6, <1>10, <1>11

LEMMA AttemptFailsHolds ==
  ASSUME OutboxInv, NEW r \in Requests, AttemptFails(r)
  PROVE  OutboxInv'
<1>1. /\ requests[r].todo # {} /\ requests[r].leg \in 1..2
      /\ requests[r] = [todo |-> requests[r].todo, leg |-> requests[r].leg, outcome |-> "none"]
  BY DEF OutboxInv, TypeOK, AttemptFails, Attempting
<1>2. requests' = [requests EXCEPT ![r] = [requests[r] EXCEPT !.outcome = "error"]]
  BY DEF AttemptFails
<1>3. [requests[r] EXCEPT !.outcome = "error"] =
        [todo |-> requests[r].todo, leg |-> requests[r].leg, outcome |-> "error"]
  BY <1>1
<1>4. /\ journal' \in [Orders -> [Entries -> Nat]] /\ JournalOK'
      /\ \A k \in Jobs : Written(k) => Written(k)'
  BY DEF AttemptFails, OutboxInv, TypeOK, JournalOK, PostedOnce, ReversalHasOriginal, Written
<1>5. /\ UNCHANGED <<outbox, births, drains, worth, crashes>>
      /\ requests[r].todo \in SUBSET requests[r].todo /\ "error" \in Outcomes
  BY DEF AttemptFails, Outcomes
<1>6. requests' = [requests EXCEPT ![r] =
        [todo |-> requests[r].todo, leg |-> requests[r].leg, outcome |-> "error"]]
  BY <1>2, <1>3
<1> DEFINE todo == requests[r].todo
           leg == requests[r].leg
<1> HIDE DEF todo, leg
<1>7. /\ requests' = [requests EXCEPT ![r] = [todo |-> todo, leg |-> leg, outcome |-> "error"]]
      /\ todo \in SUBSET requests[r].todo /\ todo # {} /\ leg \in 1..2
  BY <1>1, <1>6 DEF todo, leg
<1> QED BY <1>4, <1>5, <1>7, RequestMoves

(* A drain's next state, when rows stay: it holds what it held, or rows    *)
(* that were claimable.                                                    *)
LEMMA DrainMoves ==
  ASSUME OutboxInv, UNCHANGED <<outbox, births, requests, worth, crashes>>,
         journal' \in [Orders -> [Entries -> Nat]], JournalOK',
         \A k \in Jobs : Written(k) => Written(k)',
         NEW d \in Drains, NEW claimed \in SUBSET Jobs, NEW ok \in SUBSET claimed,
         NEW bad \in SUBSET claimed, NEW leg \in 1..2,
         drains' = [drains EXCEPT ![d] = [claimed |-> claimed, ok |-> ok, bad |-> bad, leg |-> leg]],
         ok \cap bad = {},
         claimed \subseteq drains[d].claimed \/ claimed \subseteq Claimable,
         \A j \in ok : Written(j)'
  PROVE  OutboxInv'
<1>1. BirthsOK' /\ Present' = Present
  BY SameRows
<1>2. TypeOK'
  BY DEF OutboxInv, TypeOK
<1>3. RowsOK'
  BY DEF OutboxInv, RowsOK
<1>4. RequestsOK'
  <2>1. \A r \in Requests : requests[r].todo \subseteq Jobs
    BY DEF OutboxInv, TypeOK
  <2> QED BY <1>1, <2>1 DEF OutboxInv, RequestsOK
<1>5. \A x \in Drains : drains'[x] =
        IF x = d THEN [claimed |-> claimed, ok |-> ok, bad |-> bad, leg |-> leg] ELSE drains[x]
  BY DEF OutboxInv, TypeOK
<1>6. \A x \in Drains :
        /\ drains[x].ok \subseteq drains[x].claimed /\ drains[x].bad \subseteq drains[x].claimed
        /\ drains[x].ok \cap drains[x].bad = {} /\ drains[x].ok \subseteq Jobs
        /\ \A j \in drains[x].claimed : /\ outbox[j].status = "pending"
                                        /\ outbox[j].attempts < MaxAttempts
        /\ \A j \in drains[x].ok : Written(j)
        /\ \A e \in Drains \ {x} : drains[x].claimed \cap drains[e].claimed = {}
  BY DEF OutboxInv, DrainsOK, TypeOK
<1>7. /\ \A j \in claimed : outbox[j].status = "pending" /\ outbox[j].attempts < MaxAttempts
      /\ \A e \in Drains \ {d} : claimed \cap drains[e].claimed = {}
  BY <1>6 DEF Claimable
<1>8. ASSUME NEW x \in Drains
      PROVE  /\ drains'[x].ok \subseteq drains'[x].claimed /\ drains'[x].bad \subseteq drains'[x].claimed
             /\ drains'[x].ok \cap drains'[x].bad = {}
             /\ \A j \in drains'[x].claimed : /\ outbox'[j].status = "pending"
                                              /\ outbox'[j].attempts < MaxAttempts
             /\ \A j \in drains'[x].ok : Written(j)'
             /\ \A e \in Drains \ {x} : drains'[x].claimed \cap drains'[e].claimed = {}
  <2>1. outbox' = outbox
    OBVIOUS
  <2>2. CASE x = d
    BY <1>5, <1>7, <2>1, <2>2
  <2>3. CASE x # d
    BY <1>5, <1>6, <1>7, <2>1, <2>3
  <2> QED BY <2>2, <2>3
<1>9. DrainsOK'
  BY <1>8 DEF DrainsOK
<1> QED BY <1>1, <1>2, <1>3, <1>4, <1>9 DEF OutboxInv

LEMMA JournalSame ==
  ASSUME OutboxInv, UNCHANGED <<journal, worth>>
  PROVE  /\ journal' \in [Orders -> [Entries -> Nat]] /\ JournalOK'
         /\ \A k \in Jobs : Written(k) <=> Written(k)'
BY DEF OutboxInv, TypeOK, JournalOK, PostedOnce, ReversalHasOriginal, Written

LEMMA DrainRecord ==
  ASSUME OutboxInv, NEW d \in Drains
  PROVE  /\ drains[d] = [claimed |-> drains[d].claimed, ok |-> drains[d].ok,
                         bad |-> drains[d].bad, leg |-> drains[d].leg]
         /\ drains[d].claimed \in SUBSET Jobs /\ drains[d].leg \in 1..2
         /\ drains[d].ok \in SUBSET drains[d].claimed
         /\ drains[d].bad \in SUBSET drains[d].claimed
         /\ drains[d].ok \cap drains[d].bad = {}
         /\ \A j \in drains[d].ok : Written(j)
BY DEF OutboxInv, TypeOK, DrainsOK

LEMMA DrainSteps ==
  ASSUME NEW x \in [claimed: SUBSET Jobs, ok: SUBSET Jobs, bad: SUBSET Jobs, leg: 1..2], NEW s
  PROVE  /\ [x EXCEPT !.ok = s, !.leg = 1] = [claimed |-> x.claimed, ok |-> s, bad |-> x.bad, leg |-> 1]
         /\ [x EXCEPT !.bad = s, !.leg = 1] = [claimed |-> x.claimed, ok |-> x.ok, bad |-> s, leg |-> 1]
         /\ [x EXCEPT !.leg = 2] = [claimed |-> x.claimed, ok |-> x.ok, bad |-> x.bad, leg |-> 2]
<1>1. PICK c \in SUBSET Jobs, o \in SUBSET Jobs, b \in SUBSET Jobs, n \in 1..2 :
        x = [claimed |-> c, ok |-> o, bad |-> b, leg |-> n]
  BY Zenon
<1>2. [x EXCEPT !.ok = s, !.leg = 1] = [claimed |-> c, ok |-> s, bad |-> b, leg |-> 1]
  <2>1. [x EXCEPT !.ok = s, !.leg = 1] = [[x EXCEPT !.ok = s] EXCEPT !.leg = 1]
    BY <1>1
  <2>2. [x EXCEPT !.ok = s] = [claimed |-> c, ok |-> s, bad |-> b, leg |-> n]
    BY <1>1
  <2>3. [[claimed |-> c, ok |-> s, bad |-> b, leg |-> n] EXCEPT !.leg = 1] = [claimed |-> c, ok |-> s, bad |-> b, leg |-> 1]
    OBVIOUS
  <2> QED BY <2>1, <2>2, <2>3, Zenon
<1>3. [x EXCEPT !.bad = s, !.leg = 1] = [claimed |-> c, ok |-> o, bad |-> s, leg |-> 1]
  <2>1. [x EXCEPT !.bad = s, !.leg = 1] = [[x EXCEPT !.bad = s] EXCEPT !.leg = 1]
    BY <1>1
  <2>2. [x EXCEPT !.bad = s] = [claimed |-> c, ok |-> o, bad |-> s, leg |-> n]
    BY <1>1
  <2>3. [[claimed |-> c, ok |-> o, bad |-> s, leg |-> n] EXCEPT !.leg = 1] = [claimed |-> c, ok |-> o, bad |-> s, leg |-> 1]
    OBVIOUS
  <2> QED BY <2>1, <2>2, <2>3, Zenon
<1>4. [x EXCEPT !.leg = 2] = [claimed |-> c, ok |-> o, bad |-> b, leg |-> 2]
  BY <1>1
<1> QED BY <1>1, <1>2, <1>3, <1>4

LEMMA ClaimHolds ==
  ASSUME OutboxInv, NEW d \in Drains, Claim(d)
  PROVE  OutboxInv'
<1>1. PICK rows \in SUBSET Claimable : drains' = [drains EXCEPT ![d].claimed = rows]
  BY DEF Claim
<1>2. [drains[d] EXCEPT !.claimed = rows] = [claimed |-> rows, ok |-> {}, bad |-> {}, leg |-> 1]
  BY DEF Claim, DrainIdle
<1>3. drains' = [drains EXCEPT ![d] = [claimed |-> rows, ok |-> {}, bad |-> {}, leg |-> 1]]
  BY <1>1, <1>2
<1>4. rows \in SUBSET Jobs /\ rows \subseteq Claimable
  BY <1>1 DEF Claimable
<1>5. /\ UNCHANGED <<outbox, births, requests, worth, crashes>>
      /\ journal' \in [Orders -> [Entries -> Nat]] /\ JournalOK'
      /\ \A k \in Jobs : Written(k) => Written(k)'
  BY JournalSame DEF Claim
<1>6. {} \in SUBSET rows /\ {} \cap {} = {} /\ 1 \in 1..2 /\ \A j \in {} : Written(j)'
  OBVIOUS
<1> QED BY <1>3, <1>4, <1>5, <1>6, DrainMoves

LEMMA DrainLegHolds ==
  ASSUME OutboxInv, NEW d \in Drains, DrainLeg(d)
  PROVE  OutboxInv'
<1> DEFINE claimed == drains[d].claimed
           ok == drains[d].ok
           bad == drains[d].bad
           leg == drains[d].leg
<1>1. Todo(d) # {}
  BY DEF DrainLeg
<1>2. PICK j \in Jobs : j = Oldest(Todo(d)) /\ j \in Todo(d)
  BY <1>1, DrainTodo
<1>3. CreateJournalEntry(j[1], Entry(j, leg)) /\ UNCHANGED <<outbox, births, worth, requests, crashes>>
  BY <1>2 DEF DrainLeg
<1>4. /\ drains[d] = [claimed |-> claimed, ok |-> ok, bad |-> bad, leg |-> leg]
      /\ claimed \in SUBSET Jobs /\ ok \in SUBSET claimed /\ bad \in SUBSET claimed
      /\ leg \in 1..2 /\ ok \cap bad = {} /\ \A k \in ok : Written(k)
  BY DrainRecord
<1>5. \/ drains' = [drains EXCEPT ![d] = [drains[d] EXCEPT !.ok = ok \cup {j}, !.leg = 1]]
      \/ drains' = [drains EXCEPT ![d] = [drains[d] EXCEPT !.leg = 2]]
  BY <1>2 DEF DrainLeg
<1>6. /\ [drains[d] EXCEPT !.ok = ok \cup {j}, !.leg = 1] =
            [claimed |-> claimed, ok |-> ok \cup {j}, bad |-> bad, leg |-> 1]
      /\ [drains[d] EXCEPT !.leg = 2] = [claimed |-> claimed, ok |-> ok, bad |-> bad, leg |-> 2]
  BY DrainSteps DEF OutboxInv, TypeOK
<1>7. claimed \subseteq drains[d].claimed /\ j \in claimed /\ j \notin bad
  BY <1>2 DEF Todo
<1> HIDE DEF claimed, ok, bad, leg
<1>8. /\ journal' \in [Orders -> [Entries -> Nat]] /\ JournalOK'
      /\ \A k \in Jobs : Written(k) => Written(k)'
      /\ Written(j)'
  BY <1>3, LegWrites
<1>9. /\ \A k \in ok \cup {j} : Written(k)'
      /\ \A k \in ok : Written(k)'
      /\ ok \cup {j} \in SUBSET claimed /\ (ok \cup {j}) \cap bad = {}
      /\ 1 \in 1..2 /\ 2 \in 1..2
  BY <1>4, <1>7, <1>8
<1>10. CASE drains' = [drains EXCEPT ![d] = [claimed |-> claimed, ok |-> ok \cup {j}, bad |-> bad, leg |-> 1]]
  BY <1>3, <1>4, <1>7, <1>8, <1>9, <1>10, DrainMoves
<1>11. CASE drains' = [drains EXCEPT ![d] = [claimed |-> claimed, ok |-> ok, bad |-> bad, leg |-> 2]]
  BY <1>3, <1>4, <1>7, <1>8, <1>9, <1>11, DrainMoves
<1> QED BY <1>5, <1>6, <1>10, <1>11

LEMMA DrainFailsHolds ==
  ASSUME OutboxInv, NEW d \in Drains, DrainFails(d)
  PROVE  OutboxInv'
<1> DEFINE claimed == drains[d].claimed
           ok == drains[d].ok
           bad == drains[d].bad
           leg == drains[d].leg
<1>1. PICK j \in Jobs : j = Oldest(Todo(d)) /\ j \in Todo(d)
  BY DrainTodo DEF DrainFails
<1>2. /\ drains[d] = [claimed |-> claimed, ok |-> ok, bad |-> bad, leg |-> leg]
      /\ claimed \in SUBSET Jobs /\ ok \in SUBSET claimed /\ bad \in SUBSET claimed
      /\ ok \cap bad = {} /\ \A k \in ok : Written(k)
  BY DrainRecord
<1>3. drains' = [drains EXCEPT ![d] = [drains[d] EXCEPT !.bad = bad \cup {j}, !.leg = 1]]
  BY <1>1 DEF DrainFails
<1>4. [drains[d] EXCEPT !.bad = bad \cup {j}, !.leg = 1] =
        [claimed |-> claimed, ok |-> ok, bad |-> bad \cup {j}, leg |-> 1]
  BY DrainSteps DEF OutboxInv, TypeOK
<1>5. drains' = [drains EXCEPT ![d] = [claimed |-> claimed, ok |-> ok, bad |-> bad \cup {j}, leg |-> 1]]
  BY <1>3, <1>4
<1>6. claimed \subseteq drains[d].claimed /\ j \in claimed /\ j \notin ok
  BY <1>1 DEF Todo
<1>7. /\ UNCHANGED <<outbox, births, requests, worth, crashes>>
      /\ journal' \in [Orders -> [Entries -> Nat]] /\ JournalOK'
      /\ \A k \in Jobs : Written(k) => Written(k)'
  BY JournalSame DEF DrainFails
<1> HIDE DEF claimed, ok, bad, leg
<1>8. /\ \A k \in ok : Written(k)'
      /\ bad \cup {j} \in SUBSET claimed /\ ok \cap (bad \cup {j}) = {} /\ 1 \in 1..2
  BY <1>2, <1>6, <1>7
<1> QED BY <1>2, <1>5, <1>6, <1>7, <1>8, DrainMoves

LEMMA CrashHolds ==
  ASSUME OutboxInv, Crash
  PROVE  OutboxInv'
<1>1. BirthsOK' /\ Present' = Present
  BY SameRows DEF Crash
<1>2. /\ journal' \in [Orders -> [Entries -> Nat]] /\ JournalOK'
      /\ \A k \in Jobs : Written(k) <=> Written(k)'
  BY JournalSame DEF Crash
<1>3. RowsOK'
  BY <1>2 DEF OutboxInv, RowsOK, Crash
<1>4. outbox' = outbox /\ births' = births /\ worth' = worth /\ crashes' \in 0..MaxCrashes
  BY CrashesAssumption DEF Crash, OutboxInv, TypeOK
<1>5. \A x \in Requests :
        /\ requests[x] \in [todo: SUBSET Jobs, leg: 1..2, outcome: Outcomes]
        /\ requests[x].todo \subseteq JobsOf(x) \cap Present
        /\ requests[x].outcome # "none" => requests[x].todo # {}
        /\ requests[x].outcome = "ok" =>
             \A j \in requests[x].todo : Leads(births, j, requests[x].todo) => Written(j)
  BY DEF OutboxInv, RequestsOK, TypeOK
<1>6. \A x \in Drains :
        /\ drains[x] \in [claimed: SUBSET Jobs, ok: SUBSET Jobs, bad: SUBSET Jobs, leg: 1..2]
        /\ drains[x].ok \subseteq drains[x].claimed /\ drains[x].bad \subseteq drains[x].claimed
        /\ drains[x].ok \cap drains[x].bad = {}
        /\ \A j \in drains[x].claimed : /\ outbox[j].status = "pending"
                                        /\ outbox[j].attempts < MaxAttempts
        /\ \A j \in drains[x].ok : Written(j)
        /\ \A e \in Drains \ {x} : drains[x].claimed \cap drains[e].claimed = {}
  BY DEF OutboxInv, DrainsOK, TypeOK
<1>7. /\ requests' \in [Requests -> [todo: SUBSET Jobs, leg: 1..2, outcome: Outcomes]]
      /\ \A x \in Requests : requests'[x] \in {requests[x], RequestIdle}
  BY <1>5 DEF Crash, RequestIdle, Outcomes, OutboxInv, TypeOK
<1>8. /\ drains' \in [Drains -> [claimed: SUBSET Jobs, ok: SUBSET Jobs, bad: SUBSET Jobs, leg: 1..2]]
      /\ \A x \in Drains : drains'[x] \in {drains[x], DrainIdle}
  BY <1>6 DEF Crash, DrainIdle, OutboxInv, TypeOK
<1>9. TypeOK'
  BY <1>2, <1>4, <1>7, <1>8 DEF OutboxInv, TypeOK
<1>10. RequestsOK'
  <2>1. ASSUME NEW x \in Requests
        PROVE  /\ requests'[x].todo \subseteq JobsOf(x) \cap Present'
               /\ requests'[x].outcome # "none" => requests'[x].todo # {}
               /\ requests'[x].outcome = "ok" =>
                    \A j \in requests'[x].todo : Leads(births', j, requests'[x].todo) => Written(j)'
    <3>1. CASE requests'[x] = requests[x]
      BY <1>1, <1>2, <1>4, <1>5, <3>1
    <3>2. CASE requests'[x] = RequestIdle
      BY <3>2 DEF RequestIdle
    <3> QED BY <1>7, <3>1, <3>2
  <2> QED BY <2>1 DEF RequestsOK
<1>11. DrainsOK'
  <2>1. \A x \in Drains : /\ drains'[x].claimed \subseteq drains[x].claimed
                          /\ drains'[x].ok \subseteq drains[x].ok
                          /\ drains'[x].bad \subseteq drains[x].bad
                          /\ drains'[x].ok \subseteq drains'[x].claimed
                          /\ drains'[x].bad \subseteq drains'[x].claimed
    BY <1>6, <1>8 DEF DrainIdle
  <2> QED BY <1>2, <1>4, <1>6, <2>1 DEF DrainsOK
<1> QED BY <1>1, <1>2, <1>3, <1>9, <1>10, <1>11 DEF OutboxInv

-----------------------------------------------------------------------------
(* Steps that write rows. *)

LEMMA Marks ==
  ASSUME NEW row \in Row, NEW n \in Nat, n < MaxAttempts
  PROVE  /\ MarkPosted(row) \in Row /\ MarkPosted(row).status = "posted"
         /\ MarkAttemptFailed(row, n) \in Row
         /\ MarkAttemptFailed(row, n).status \in {"failed", row.status}
         /\ n + 1 < MaxAttempts => MarkAttemptFailed(row, n).status = row.status
<1>1. MarkPosted(row) \in Row /\ MarkPosted(row).status = "posted"
  BY DEF Row, MarkPosted
<1> DEFINE status == IF n + 1 >= MaxAttempts THEN "failed" ELSE row.status
<1>2. MarkAttemptFailed(row, n) = [status |-> status, attempts |-> n + 1]
  <2>1. MarkAttemptFailed(row, n) = [[row EXCEPT !.attempts = n + 1] EXCEPT !.status = status]
    BY DEF MarkAttemptFailed, Row
  <2>2. [row EXCEPT !.attempts = n + 1] = [status |-> row.status, attempts |-> n + 1]
    BY DEF Row
  <2> HIDE DEF status
  <2>3. [[status |-> row.status, attempts |-> n + 1] EXCEPT !.status = status] =
          [status |-> status, attempts |-> n + 1]
    OBVIOUS
  <2> QED BY <2>1, <2>2, <2>3, Zenon
<1>3. n + 1 \in 0..MaxAttempts /\ status \in {"failed", row.status}
      /\ (n + 1 < MaxAttempts => status = row.status)
  BY AttemptsAssumption
<1>4. row.status \in {"absent", "pending", "posted", "failed"}
  BY DEF Row
<1> HIDE DEF status
<1>5. MarkAttemptFailed(row, n) \in Row /\ MarkAttemptFailed(row, n).status = status
  BY <1>2, <1>3, <1>4 DEF Row
<1> QED BY <1>1, <1>3, <1>5

(* Rows that stay present and are marked posted only when written.         *)
LEMMA RowsMove ==
  ASSUME OutboxInv, outbox' \in [Jobs -> Row], UNCHANGED <<births, worth, journal>>,
         \A j \in Jobs : outbox'[j].status = "absent" <=> outbox[j].status = "absent",
         \A j \in Jobs : outbox'[j].status = "posted" => outbox[j].status = "posted" \/ Written(j)
  PROVE  BirthsOK' /\ Present' = Present /\ RowsOK' /\ JournalOK'
<1>1. Present' = Present
  BY DEF Present
<1>2. BirthsOK'
  BY <1>1 DEF OutboxInv, BirthsOK, Ordered
<1>3. JournalOK' /\ \A k \in Jobs : Written(k) <=> Written(k)'
  BY JournalSame
<1>4. RowsOK'
  BY <1>3 DEF OutboxInv, RowsOK
<1> QED BY <1>1, <1>2, <1>3, <1>4

LEMMA RecordRow ==
  ASSUME OutboxInv, NEW r \in Requests, RecordImmediateAttempt(r)
  PROVE  \E j \in requests[r].todo :
           /\ j \in Jobs /\ j = Oldest(requests[r].todo)
           /\ \A d \in Drains : j \notin drains[d].claimed
           /\ outbox[j].status # "absent" /\ outbox'[j] \in Row
           /\ \/ outbox'[j].status = "posted" /\ Written(j)
              \/ outbox'[j].status \in {"failed", outbox[j].status}
           /\ MaxAttempts > 1 /\ outbox[j].status = "posted" => outbox'[j].status = "posted"
           /\ \A k \in Jobs : k # j => outbox'[k] = outbox[k]
           /\ outbox' \in [Jobs -> Row]
<1>1. requests[r].outcome # "none" /\ requests[r].todo # {}
  BY DEF RecordImmediateAttempt, OutboxInv, RequestsOK
<1>2. PICK j \in requests[r].todo :
        j = Oldest(requests[r].todo) /\ j \in Jobs /\ j \in Present /\ Leads(births, j, requests[r].todo)
  BY <1>1, RequestTodo
<1>3. requests[r].outcome = "ok" => Written(j)
  BY <1>2 DEF OutboxInv, RequestsOK
<1>4. /\ outbox' = [outbox EXCEPT ![j] = IF requests[r].outcome = "ok"
                      THEN MarkPosted(outbox[j]) ELSE MarkAttemptFailed(outbox[j], 0)]
      /\ \A d \in Drains : j \notin drains[d].claimed
  BY <1>2 DEF RecordImmediateAttempt
<1>5. outbox \in [Jobs -> Row] /\ outbox[j] \in Row /\ 0 \in Nat /\ 0 < MaxAttempts
  BY <1>2, AttemptsAssumption DEF OutboxInv, TypeOK
<1>6. /\ MarkPosted(outbox[j]) \in Row /\ MarkPosted(outbox[j]).status = "posted"
      /\ MarkAttemptFailed(outbox[j], 0) \in Row
      /\ MarkAttemptFailed(outbox[j], 0).status \in {"failed", outbox[j].status}
      /\ MaxAttempts > 1 => MarkAttemptFailed(outbox[j], 0).status = outbox[j].status
  BY <1>5, Marks
<1>7. outbox'[j] = IF requests[r].outcome = "ok"
                   THEN MarkPosted(outbox[j]) ELSE MarkAttemptFailed(outbox[j], 0)
  BY <1>2, <1>4, <1>5
<1>8. /\ outbox'[j] \in Row
      /\ \/ outbox'[j].status = "posted" /\ Written(j)
         \/ outbox'[j].status \in {"failed", outbox[j].status}
      /\ MaxAttempts > 1 /\ outbox[j].status = "posted" => outbox'[j].status = "posted"
  BY <1>3, <1>6, <1>7
<1>9. /\ \A k \in Jobs : k # j => outbox'[k] = outbox[k]
      /\ outbox' \in [Jobs -> Row]
  BY <1>2, <1>4, <1>5, <1>6
<1>10. outbox[j].status # "absent"
  BY <1>2 DEF Present
<1> QED BY <1>2, <1>4, <1>8, <1>9, <1>10

LEMMA RecordHolds ==
  ASSUME OutboxInv, NEW r \in Requests, RecordImmediateAttempt(r)
  PROVE  OutboxInv'
<1>1. PICK j \in requests[r].todo :
        /\ j \in Jobs /\ j = Oldest(requests[r].todo)
        /\ \A d \in Drains : j \notin drains[d].claimed
        /\ outbox[j].status # "absent" /\ outbox'[j] \in Row
        /\ \/ outbox'[j].status = "posted" /\ Written(j)
           \/ outbox'[j].status \in {"failed", outbox[j].status}
        /\ \A k \in Jobs : k # j => outbox'[k] = outbox[k]
        /\ outbox' \in [Jobs -> Row]
  BY RecordRow
<1>2. UNCHANGED <<births, worth, journal, drains, crashes>>
  BY DEF RecordImmediateAttempt
<1>3. BirthsOK' /\ Present' = Present /\ RowsOK' /\ JournalOK'
  <2>1. \A k \in Jobs : outbox'[k].status = "absent" <=> outbox[k].status = "absent"
    BY <1>1
  <2>2. \A k \in Jobs : outbox'[k].status = "posted" => outbox[k].status = "posted" \/ Written(k)
    BY <1>1
  <2> QED BY <1>1, <1>2, <2>1, <2>2, RowsMove
<1>4. \A k \in Jobs : Written(k) <=> Written(k)'
  BY <1>2, JournalSame
<1>5. \A x \in Requests :
        /\ requests[x] \in [todo: SUBSET Jobs, leg: 1..2, outcome: Outcomes]
        /\ requests[x].todo \subseteq JobsOf(x) \cap Present
        /\ requests[x].outcome # "none" => requests[x].todo # {}
        /\ requests[x].outcome = "ok" =>
             \A k \in requests[x].todo : Leads(births, k, requests[x].todo) => Written(k)
  BY DEF OutboxInv, RequestsOK, TypeOK
<1>6. \A x \in Requests : requests'[x] =
        IF x = r THEN [todo |-> requests[r].todo \ {j}, leg |-> 1, outcome |-> "none"] ELSE requests[x]
  <2>1. [RequestIdle EXCEPT !.todo = requests[r].todo \ {j}] =
          [todo |-> requests[r].todo \ {j}, leg |-> 1, outcome |-> "none"]
    BY DEF RequestIdle
  <2>2. requests' = [requests EXCEPT ![r] = [RequestIdle EXCEPT !.todo = requests[r].todo \ {j}]]
    BY <1>1 DEF RecordImmediateAttempt
  <2> QED BY <2>1, <2>2 DEF OutboxInv, TypeOK
<1>7. requests' \in [Requests -> [todo: SUBSET Jobs, leg: 1..2, outcome: Outcomes]]
  BY <1>5 DEF RecordImmediateAttempt, RequestIdle, Outcomes, OutboxInv, TypeOK
<1>8. RequestsOK'
  <2>1. ASSUME NEW x \in Requests
        PROVE  /\ requests'[x].todo \subseteq JobsOf(x) \cap Present'
               /\ requests'[x].outcome # "none" => requests'[x].todo # {}
               /\ requests'[x].outcome = "ok" =>
                    \A k \in requests'[x].todo : Leads(births', k, requests'[x].todo) => Written(k)'
    <3>1. CASE x = r
      BY <1>3, <1>5, <1>6, <3>1
    <3>2. CASE x # r
      BY <1>2, <1>3, <1>4, <1>5, <1>6, <3>2
    <3> QED BY <3>1, <3>2
  <2> QED BY <2>1 DEF RequestsOK
<1>9. DrainsOK'
  <2>1. \A d \in Drains : /\ drains[d].claimed \subseteq Jobs /\ drains[d].ok \subseteq Jobs
                          /\ \A k \in drains[d].claimed : outbox'[k] = outbox[k]
    BY <1>1 DEF OutboxInv, TypeOK
  <2> QED BY <1>2, <1>4, <2>1 DEF OutboxInv, DrainsOK
<1>10. TypeOK'
  BY <1>1, <1>2, <1>7 DEF OutboxInv, TypeOK
<1> QED BY <1>3, <1>8, <1>9, <1>10 DEF OutboxInv

LEMMA CommitRows ==
  ASSUME OutboxInv, NEW d \in Drains, Commit(d)
  PROVE  /\ outbox' \in [Jobs -> Row]
         /\ \A j \in Jobs : j \notin drains[d].claimed => outbox'[j] = outbox[j]
         /\ \A j \in drains[d].claimed :
              \/ outbox'[j].status = "posted" /\ Written(j)
              \/ outbox'[j].status \in {"failed", "pending"}
<1>1. /\ outbox \in [Jobs -> Row] /\ drains[d].claimed \in SUBSET Jobs
      /\ drains[d].ok \in SUBSET drains[d].claimed /\ drains[d].bad \in SUBSET drains[d].claimed
      /\ drains[d].ok \cap drains[d].bad = {} /\ \A j \in drains[d].ok : Written(j)
      /\ \A j \in drains[d].claimed : outbox[j].status = "pending" /\ outbox[j].attempts < MaxAttempts
  BY DrainRecord DEF OutboxInv, TypeOK, DrainsOK
<1>2. outbox' = [j \in Jobs |->
        CASE j \in drains[d].ok  -> MarkPosted(outbox[j])
          [] j \in drains[d].bad -> MarkAttemptFailed(outbox[j], outbox[j].attempts)
          [] OTHER               -> outbox[j]]
  BY DEF Commit
<1>3. ASSUME NEW j \in Jobs
      PROVE  /\ j \in drains[d].ok => outbox'[j] = MarkPosted(outbox[j])
             /\ j \in drains[d].bad => outbox'[j] = MarkAttemptFailed(outbox[j], outbox[j].attempts)
             /\ j \notin drains[d].ok \cup drains[d].bad => outbox'[j] = outbox[j]
  BY <1>1, <1>2
<1>4. ASSUME NEW j \in Jobs, j \in drains[d].claimed
      PROVE  /\ MarkPosted(outbox[j]) \in Row /\ MarkPosted(outbox[j]).status = "posted"
             /\ MarkAttemptFailed(outbox[j], outbox[j].attempts) \in Row
             /\ MarkAttemptFailed(outbox[j], outbox[j].attempts).status \in {"failed", "pending"}
  <2>1. outbox[j] \in Row /\ outbox[j].attempts \in Nat /\ outbox[j].attempts < MaxAttempts
        /\ outbox[j].status = "pending"
    BY <1>1, <1>4 DEF Row
  <2> QED BY <2>1, Marks
<1>5. \A j \in Jobs : outbox'[j] \in Row
  BY <1>1, <1>3, <1>4
<1>6. outbox' \in [Jobs -> Row]
  BY <1>2, <1>5
<1>7. \A j \in Jobs : j \notin drains[d].claimed => outbox'[j] = outbox[j]
  BY <1>1, <1>3
<1>8. ASSUME NEW j \in drains[d].claimed
      PROVE  \/ outbox'[j].status = "posted" /\ Written(j)
             \/ outbox'[j].status \in {"failed", "pending"}
  BY <1>1, <1>3, <1>4
<1> QED BY <1>6, <1>7, <1>8

LEMMA CommitHolds ==
  ASSUME OutboxInv, NEW d \in Drains, Commit(d)
  PROVE  OutboxInv'
<1>1. /\ outbox' \in [Jobs -> Row]
      /\ \A j \in Jobs : j \notin drains[d].claimed => outbox'[j] = outbox[j]
      /\ \A j \in drains[d].claimed :
           \/ outbox'[j].status = "posted" /\ Written(j)
           \/ outbox'[j].status \in {"failed", "pending"}
  BY CommitRows
<1>2. UNCHANGED <<births, worth, journal, requests, crashes>> /\ drains' = [drains EXCEPT ![d] = DrainIdle]
  BY DEF Commit
<1>3. BirthsOK' /\ Present' = Present /\ RowsOK' /\ JournalOK'
  <2>1. \A j \in drains[d].claimed : outbox[j].status = "pending"
    BY DEF OutboxInv, DrainsOK
  <2>2. \A k \in Jobs : outbox'[k].status = "absent" <=> outbox[k].status = "absent"
    BY <1>1, <2>1
  <2>3. \A k \in Jobs : outbox'[k].status = "posted" => outbox[k].status = "posted" \/ Written(k)
    BY <1>1
  <2> QED BY <1>1, <1>2, <2>2, <2>3, RowsMove
<1>4. \A k \in Jobs : Written(k) <=> Written(k)'
  BY <1>2, JournalSame
<1>5. RequestsOK'
  <2>1. \A r \in Requests : requests[r].todo \subseteq Jobs
    BY DEF OutboxInv, TypeOK
  <2> QED BY <1>2, <1>3, <1>4, <2>1 DEF OutboxInv, RequestsOK
<1>6. \A x \in Drains :
        /\ drains[x].claimed \subseteq Jobs /\ drains[x].ok \subseteq drains[x].claimed
        /\ drains[x].bad \subseteq drains[x].claimed /\ drains[x].ok \cap drains[x].bad = {}
        /\ \A j \in drains[x].claimed : /\ outbox[j].status = "pending"
                                        /\ outbox[j].attempts < MaxAttempts
        /\ \A j \in drains[x].ok : Written(j)
        /\ \A e \in Drains \ {x} : drains[x].claimed \cap drains[e].claimed = {}
  BY DEF OutboxInv, DrainsOK, TypeOK
<1>7. \A x \in Drains : drains'[x] = IF x = d THEN DrainIdle ELSE drains[x]
  BY <1>2 DEF OutboxInv, TypeOK
<1>8. drains' \in [Drains -> [claimed: SUBSET Jobs, ok: SUBSET Jobs, bad: SUBSET Jobs, leg: 1..2]]
  BY <1>2 DEF DrainIdle, OutboxInv, TypeOK
<1>9. DrainsOK'
  <2>1. ASSUME NEW x \in Drains
        PROVE  /\ drains'[x].ok \subseteq drains'[x].claimed /\ drains'[x].bad \subseteq drains'[x].claimed
               /\ drains'[x].ok \cap drains'[x].bad = {}
               /\ \A j \in drains'[x].claimed : /\ outbox'[j].status = "pending"
                                                /\ outbox'[j].attempts < MaxAttempts
               /\ \A j \in drains'[x].ok : Written(j)'
               /\ \A e \in Drains \ {x} : drains'[x].claimed \cap drains'[e].claimed = {}
    <3>1. CASE x = d
      BY <1>7, <3>1 DEF DrainIdle
    <3>2. CASE x # d
      <4>1. drains'[x] = drains[x] /\ \A j \in drains[x].claimed : j \in Jobs /\ outbox'[j] = outbox[j]
        BY <1>1, <1>6, <1>7, <3>2
      <4>2. \A e \in Drains : drains'[e].claimed \subseteq drains[e].claimed
        BY <1>7 DEF DrainIdle
      <4> QED BY <1>4, <1>6, <4>1, <4>2
    <3> QED BY <3>1, <3>2
  <2> QED BY <2>1 DEF DrainsOK
<1>10. TypeOK'
  BY <1>1, <1>2, <1>8 DEF OutboxInv, TypeOK
<1> QED BY <1>3, <1>5, <1>9, <1>10 DEF OutboxInv

(* A business transaction inserts the rows of its request: new places, and *)
(* the amounts of an order change only while it has none.                  *)
LEMMA EnqueueHolds ==
  ASSUME OutboxInv, NEW r \in Requests, ~Enqueued(r), Enqueue(r),
         worth' \in [Orders -> SUBSET Originals],
         \A j \in Present : j[2] # "reverse_order_journals" => worth'[j[1]] = worth[j[1]]
  PROVE  OutboxInv'
<1> DEFINE new == JobsOf(r)
           next == Cardinality(Present)
<1>1. /\ new \subseteq Jobs /\ new # {} /\ new \cap Present = {} /\ IsFiniteSet(new)
      /\ \A j, k \in new : /\ j[1] = k[1]
                           /\ j[2] = k[2] \/ j[2] = "order_journal" \/ k[2] = "order_journal"
  BY JobsOfShape DEF Enqueued, Present
<1>2. /\ outbox' = [j \in Jobs |-> IF j \in new THEN [status |-> "pending", attempts |-> 0]
                                   ELSE outbox[j]]
      /\ births' = [j \in Jobs |-> IF j \in new THEN next ELSE births[j]]
      /\ requests' = [requests EXCEPT ![r] = [RequestIdle EXCEPT !.todo = new]]
      /\ UNCHANGED <<journal, drains, crashes>>
  BY DEF Enqueue, Present
<1> HIDE DEF new
<1>3. Present' = Present \cup new
  BY <1>1, <1>2 DEF Present
<1>4. IsFiniteSet(Present) /\ next \in Nat
  BY FS_CardinalityType DEF OutboxInv, BirthsOK
<1>5. IsFiniteSet(Present') /\ Cardinality(Present') \in Nat /\ Cardinality(Present') > next
  <2>1. PICK j \in new : TRUE
    BY <1>1
  <2>2. IsFiniteSet(Present')
    BY <1>1, <1>3, <1>4, FS_Union
  <2>3. IsFiniteSet(Present \cup {j}) /\ Cardinality(Present \cup {j}) = next + 1
    BY <1>1, <1>4, <2>1, FS_AddElement
  <2>4. Present \cup {j} \in SUBSET Present'
    BY <1>3, <2>1
  <2>5. Cardinality(Present \cup {j}) <= Cardinality(Present')
    BY <2>2, <2>4, FS_Subset
  <2>6. Cardinality(Present') \in Nat
    BY <2>2, FS_CardinalityType
  <2> QED BY <1>4, <2>2, <2>3, <2>5, <2>6
<1>6. /\ \A j \in new : births'[j] = next
      /\ \A j \in Present : births'[j] = births[j] /\ births[j] \in Nat /\ births[j] < next
      /\ Present \subseteq Jobs
  BY <1>1, <1>2 DEF OutboxInv, BirthsOK, Ordered, Present
<1> HIDE DEF next
<1>7. Ordered(births', Present')
  <2>1. \A j \in Present' : births'[j] \in Nat
    BY <1>3, <1>4, <1>6
  <2>2. ASSUME NEW j \in Present', NEW k \in Present', births'[j] = births'[k]
        PROVE  j[1] = k[1] /\ (j[2] = k[2] \/ j[2] = "order_journal" \/ k[2] = "order_journal")
    <3>1. (j \in new /\ k \in new) \/ (j \in Present /\ k \in Present)
      BY <1>3, <1>4, <1>6, <2>2
    <3>2. CASE j \in new /\ k \in new
      BY <1>1, <3>2
    <3>3. CASE j \in Present /\ k \in Present
      BY <1>6, <2>2, <3>3 DEF OutboxInv, BirthsOK, Ordered
    <3> QED BY <3>1, <3>2, <3>3
  <2> QED BY <2>1, <2>2 DEF Ordered
<1>8. BirthsOK'
  <2>1. \A j \in Present' : births'[j] < Cardinality(Present')
    BY <1>3, <1>4, <1>5, <1>6
  <2> QED BY <1>5, <1>7, <2>1 DEF BirthsOK
<1>9. JournalOK'
  BY <1>2 DEF OutboxInv, JournalOK, PostedOnce, ReversalHasOriginal
<1>10. \A j \in Present : Written(j) => Written(j)'
  BY <1>2 DEF Written
<1>11. \A j \in Jobs : outbox'[j] = IF j \in new THEN [status |-> "pending", attempts |-> 0] ELSE outbox[j]
  BY <1>2
<1>12. RowsOK'
  <2>1. \A j \in Jobs : outbox'[j].status = "posted" => j \in Present /\ outbox[j].status = "posted"
    BY <1>11 DEF Present
  <2> QED BY <1>10, <2>1 DEF OutboxInv, RowsOK
<1>13. [RequestIdle EXCEPT !.todo = new] = [todo |-> new, leg |-> 1, outcome |-> "none"]
  BY DEF RequestIdle
<1>14. /\ \A x \in Requests : requests'[x] =
            IF x = r THEN [todo |-> new, leg |-> 1, outcome |-> "none"] ELSE requests[x]
       /\ requests' \in [Requests -> [todo: SUBSET Jobs, leg: 1..2, outcome: Outcomes]]
  BY <1>1, <1>2, <1>13 DEF OutboxInv, TypeOK, Outcomes
<1>15. RequestsOK'
  <2>1. ASSUME NEW x \in Requests
        PROVE  /\ requests'[x].todo \subseteq JobsOf(x) \cap Present'
               /\ requests'[x].outcome # "none" => requests'[x].todo # {}
               /\ requests'[x].outcome = "ok" =>
                    \A k \in requests'[x].todo : Leads(births', k, requests'[x].todo) => Written(k)'
    <3>1. CASE x = r
      BY <1>3, <1>14, <3>1 DEF new
    <3>2. CASE x # r
      <4>1. /\ requests[x].todo \subseteq JobsOf(x) \cap Present
            /\ requests[x].outcome # "none" => requests[x].todo # {}
            /\ requests[x].outcome = "ok" =>
                 \A k \in requests[x].todo : Leads(births, k, requests[x].todo) => Written(k)
        BY DEF OutboxInv, RequestsOK
      <4>2. \A k \in requests[x].todo : Leads(births', k, requests[x].todo)
                                          => Leads(births, k, requests[x].todo)
        BY <1>6, <4>1 DEF Leads
      <4> QED BY <1>3, <1>10, <1>14, <3>2, <4>1, <4>2
    <3> QED BY <3>1, <3>2
  <2> QED BY <2>1 DEF RequestsOK
<1>16. DrainsOK'
  <2>1. \A x \in Drains : \A j \in drains[x].claimed : j \in Present /\ j \in Jobs
    BY DEF OutboxInv, DrainsOK, TypeOK, Present
  <2>2. \A x \in Drains : \A j \in drains[x].claimed : outbox'[j] = outbox[j]
    BY <1>1, <1>11, <2>1
  <2>3. drains' = drains
    BY <1>2
  <2> QED BY <1>10, <2>1, <2>2, <2>3 DEF OutboxInv, DrainsOK
<1>17. TypeOK'
  <2>1. outbox' \in [Jobs -> Row]
    BY <1>2, AttemptsAssumption DEF OutboxInv, TypeOK, Row
  <2>2. births' \in [Jobs -> Nat]
    BY <1>2, <1>4 DEF OutboxInv, TypeOK
  <2> QED BY <1>2, <1>14, <2>1, <2>2 DEF OutboxInv, TypeOK
<1> QED BY <1>8, <1>9, <1>12, <1>15, <1>16, <1>17 DEF OutboxInv

LEMMA SettleHolds ==
  ASSUME OutboxInv, NEW o \in Orders, NEW entries \in SUBSET Originals, SettleOrder(o, entries)
  PROVE  OutboxInv'
<1>1. <<o, "settle">> \in Requests
  BY DEF Requests
<1>2. worth' = [worth EXCEPT ![o] = entries] /\ worth \in [Orders -> SUBSET Originals]
  BY DEF SettleOrder, OutboxInv, TypeOK
<1>3. ASSUME NEW j \in Present, j[2] # "reverse_order_journals" PROVE worth'[j[1]] = worth[j[1]]
  <2>1. j \in Jobs /\ j = <<j[1], j[2]>> /\ j[1] \in Orders /\ j[2] \in JobTypes
    BY JobShape DEF Present
  <2>2. j \notin JobsOf(<<o, "settle">>)
    BY DEF SettleOrder, Enqueued, Present
  <2>3. JobsOf(<<o, "settle">>) = {o} \X {"order_journal", "order_cogs_journal"}
    BY DEF JobsOf
  <2>4. j[1] # o
    BY <1>3, <2>1, <2>2, <2>3 DEF JobTypes
  <2> QED BY <1>2, <2>1, <2>4
<1> QED BY <1>1, <1>2, <1>3, EnqueueHolds DEF SettleOrder

LEMMA ReverseHolds ==
  ASSUME OutboxInv, NEW o \in Orders, ReverseOrder(o)
  PROVE  OutboxInv'
<1>1. <<o, "reverse">> \in Requests
  BY DEF Requests
<1> QED BY <1>1, EnqueueHolds DEF ReverseOrder, OutboxInv, TypeOK

-----------------------------------------------------------------------------
(* The specification. *)

LEMMA InitHolds == Init => OutboxInv
<1> SUFFICES ASSUME Init PROVE OutboxInv
  OBVIOUS
<1>1. Present = {}
  BY DEF Init, Present
<1>2. TypeOK
  BY AttemptsAssumption, CrashesAssumption
     DEF Init, TypeOK, Row, RequestIdle, DrainIdle, Outcomes, Entries, Originals
<1>3. BirthsOK
  BY <1>1, FS_EmptySet DEF BirthsOK, Ordered
<1>4. JournalOK /\ RowsOK
  BY DEF Init, JournalOK, PostedOnce, ReversalHasOriginal, RowsOK, Entries
<1>5. RequestsOK /\ DrainsOK
  BY DEF Init, RequestsOK, DrainsOK, RequestIdle, DrainIdle
<1> QED BY <1>2, <1>3, <1>4, <1>5 DEF OutboxInv

LEMMA StutterHolds == OutboxInv /\ UNCHANGED vars => OutboxInv'
<1> SUFFICES ASSUME OutboxInv, UNCHANGED vars PROVE OutboxInv'
  OBVIOUS
<1>1. BirthsOK' /\ Present' = Present
  BY SameRows DEF vars
<1>2. JournalOK' /\ \A k \in Jobs : Written(k) <=> Written(k)'
  BY JournalSame DEF vars
<1>3. TypeOK' /\ RowsOK'
  BY <1>2 DEF vars, OutboxInv, TypeOK, RowsOK
<1>4. RequestsOK'
  <2>1. \A r \in Requests : requests[r].todo \subseteq Jobs
    BY DEF OutboxInv, TypeOK
  <2> QED BY <1>1, <1>2, <2>1 DEF vars, OutboxInv, RequestsOK
<1>5. DrainsOK'
  <2>1. \A d \in Drains : drains[d].ok \subseteq Jobs
    BY DEF OutboxInv, TypeOK
  <2> QED BY <1>2, <2>1 DEF vars, OutboxInv, DrainsOK
<1> QED BY <1>1, <1>2, <1>3, <1>4, <1>5 DEF OutboxInv

LEMMA NextHolds == OutboxInv /\ Next => OutboxInv'
<1> SUFFICES ASSUME OutboxInv, Next PROVE OutboxInv'
  OBVIOUS
<1>1. CASE \E o \in Orders : ReverseOrder(o) \/ \E entries \in SUBSET Originals : SettleOrder(o, entries)
  BY <1>1, ReverseHolds, SettleHolds
<1>2. CASE \E r \in Requests : AttemptLeg(r) \/ AttemptFails(r) \/ RecordImmediateAttempt(r)
  BY <1>2, AttemptLegHolds, AttemptFailsHolds, RecordHolds
<1>3. CASE Drain
  BY <1>3, ClaimHolds, DrainLegHolds, DrainFailsHolds, CommitHolds DEF Drain
<1>4. CASE Crash
  BY <1>4, CrashHolds
<1> QED BY <1>1, <1>2, <1>3, <1>4 DEF Next

(* The inductive invariant of the outbox: what the request that enqueued a *)
(* job and the drains that claim it (accountingOutboxService.js) hold of   *)
(* it, with the order of creation by which both pick the next.             *)
THEOREM OutboxInvHolds == Spec => []OutboxInv
<1>1. OutboxInv /\ [Next]_vars => OutboxInv'
  BY NextHolds, StutterHolds
<1> QED BY <1>1, InitHolds, PTL DEF Spec

(* Rows, entries and drains keep their types; no row counts more attempts  *)
(* than MAX_ATTEMPTS, whoever writes the count and from however old a copy.*)
THEOREM TypeCorrect == Spec => []TypeOK
BY OutboxInvHolds, PTL DEF OutboxInv

(* No number of requests, drains, failures and crashes posts an entry      *)
(* twice: createJournalEntry looks for it under the counter lock.          *)
THEOREM NeverPostedTwice == Spec => []PostedOnce
BY OutboxInvHolds, PTL DEF OutboxInv, JournalOK

(* Nothing is reversed that was not posted.                                *)
THEOREM OnlyPostedReversed == Spec => []ReversalHasOriginal
BY OutboxInvHolds, PTL DEF OutboxInv, JournalOK

(* A row says posted, whether the request that created it or a drain wrote *)
(* it, only if the entry it is about is in the books.                      *)
THEOREM PostedIsTrue == Spec => []PostedMeansEntry
<1>1. OutboxInv => PostedMeansEntry
  <2> SUFFICES ASSUME OutboxInv, NEW o \in Orders
               PROVE  /\ outbox[<<o, "order_journal">>].status = "posted" /\ "order" \in worth[o]
                            => journal[o]["order"] = 1
                      /\ outbox[<<o, "order_cogs_journal">>].status = "posted" /\ "cogs" \in worth[o]
                            => journal[o]["cogs"] = 1
    BY DEF PostedMeansEntry
  <2>1. <<o, "order_journal">> \in Jobs /\ <<o, "order_cogs_journal">> \in Jobs
    BY DEF Jobs, JobTypes
  <2> QED BY <2>1 DEF OutboxInv, RowsOK, Written
<1> QED BY <1>1, OutboxInvHolds, PTL

(* SKIP LOCKED: no two drains ever work on the same row, and every row one *)
(* works on still waits.                                                   *)
THEOREM DrainsExclude == Spec => []ClaimsExclusive
<1>1. OutboxInv => ClaimsExclusive
  BY DEF OutboxInv, DrainsOK, ClaimsExclusive
<1> QED BY <1>1, OutboxInvHolds, PTL

PostedStays == \A j \in Jobs : outbox[j].status = "posted" => outbox'[j].status = "posted"

LEMMA NextPostedStays ==
  ASSUME MaxAttempts > 1, OutboxInv, Next
  PROVE  PostedStays
<1>1. ASSUME NEW r \in Requests, ~Enqueued(r), Enqueue(r) PROVE PostedStays
  BY <1>1, JobsOfShape DEF Enqueue, Enqueued, PostedStays
<1>2. ASSUME UNCHANGED outbox PROVE PostedStays
  BY <1>2 DEF PostedStays
<1>3. ASSUME NEW o \in Orders,
             ReverseOrder(o) \/ \E entries \in SUBSET Originals : SettleOrder(o, entries)
      PROVE  PostedStays
  <2>1. <<o, "settle">> \in Requests /\ <<o, "reverse">> \in Requests
    BY DEF Requests
  <2> QED BY <1>1, <1>3, <2>1 DEF ReverseOrder, SettleOrder
<1>4. ASSUME NEW r \in Requests, RecordImmediateAttempt(r) PROVE PostedStays
  BY <1>4, RecordRow DEF PostedStays
<1>5. ASSUME NEW d \in Drains, Commit(d) PROVE PostedStays
  <2>1. \A j \in drains[d].claimed : outbox[j].status = "pending"
    BY DEF OutboxInv, DrainsOK
  <2> QED BY <1>5, <2>1, CommitRows DEF PostedStays
<1>6. CASE \E r \in Requests : AttemptLeg(r) \/ AttemptFails(r) \/ RecordImmediateAttempt(r)
  BY <1>2, <1>4, <1>6 DEF AttemptLeg, AttemptFails
<1>7. CASE Drain
  BY <1>2, <1>5, <1>7 DEF Drain, Claim, DrainLeg, DrainFails
<1>8. CASE Crash
  BY <1>2, <1>8 DEF Crash
<1> QED BY <1>3, <1>6, <1>7, <1>8 DEF Next

(* Once posted, a row stays posted: the request that writes its outcome    *)
(* late, from the row as it was enqueued, takes no drain's success back.   *)
(* It would if one failure used the attempts up: the code allows five.     *)
THEOREM PostedForGood ==
  ASSUME MaxAttempts > 1
  PROVE  Spec => PostedIsFinal
<1>1. OutboxInv /\ [Next]_vars => [PostedStays]_vars
  BY NextPostedStays
<1>2. Spec => [][PostedStays]_vars
  BY <1>1, OutboxInvHolds, PTL DEF Spec
<1> QED BY <1>2 DEF PostedIsFinal, PostedStays
==============================================================================

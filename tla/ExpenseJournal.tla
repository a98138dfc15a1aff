---------------------------- MODULE ExpenseJournal ----------------------------
(***************************************************************************)
(* Expenses and the journal entries that follow them.                      *)
(*                                                                         *)
(* A handler of api/controller/expense.js loads the expense, then saves it *)
(* in a transaction that also enqueues an expense_journal_sync job.        *)
(* syncExpenseJournalFromState (accountingService.js) reads the expense as *)
(* it is when the job runs, looks for its entry and posts, rewrites or     *)
(* removes it: three steps, each of which others may come between.         *)
(*                                                                         *)
(* The outbox is reduced to the set of jobs not yet posted; its claims and *)
(* its bounded retries are AccountingOutbox's.                             *)
(***************************************************************************)
EXTENDS Integers, Sequences

CONSTANTS
  Expenses,    \* expense ids of one store
  Requests,    \* requests in flight
  Workers,     \* attempts running at once: requests' own and drains'
  Amounts,     \* amounts that may be entered
  MaxCalls,    \* bound: requests that change an expense
  None

ASSUME AmountsAssumption == Amounts \subseteq Nat /\ MaxCalls \in Nat

Statuses == {"draft", "pending", "approved", "rejected"}
Operations == {"update", "approve", "reject", "setActive", "delete"}

VARIABLES
  expense,     \* per id, its row; status "absent" before it is created
  entries,     \* journal entries in the order they were posted
  jobs,        \* expense_journal_sync jobs not posted yet
  requests,    \* per request, what it was called for and the row it loaded
  workers,     \* per attempt, its step, its job, the row and the entry it saw
  calls,
  raced        \* history: expenses two attempts of which ever overlapped

vars == <<expense, entries, jobs, requests, workers, calls, raced>>

Row == [status: Statuses \cup {"absent"}, active: BOOLEAN, deleted: BOOLEAN,
        amount: Amounts \cup {0}]
Job == [expense: Expenses, call: 1..MaxCalls]

ASSUME NoneAssumption ==
  None \notin Expenses /\ None \notin Nat /\ None \notin Operations /\ None \notin Row

TypeOK ==
  /\ expense \in [Expenses -> Row]
  /\ entries \in Seq([expense: Expenses, live: BOOLEAN, amount: Amounts \ {0}])
  /\ jobs \subseteq Job
  /\ requests \in [Requests -> [op: Operations \cup {None}, id: Expenses \cup {None},
                                seen: Row \cup {None}, call: 0..MaxCalls]]
  /\ workers \in [Workers -> [step: {"idle", "find", "write", "done"}, job: Job \cup {None},
                              seen: Row \cup {None}, entry: DOMAIN entries \cup {None}]]
  /\ calls \in 0..MaxCalls
  /\ raced \subseteq Expenses

NoRow == [status |-> "absent", active |-> TRUE, deleted |-> FALSE, amount |-> 0]
NoRequest == [op |-> None, id |-> None, seen |-> None, call |-> 0]
IdleWorker == [step |-> "idle", job |-> None, seen |-> None, entry |-> None]

Init ==
  /\ expense = [e \in Expenses |-> NoRow]
  /\ entries = <<>>
  /\ jobs = {}
  /\ requests = [r \in Requests |-> NoRequest]
  /\ workers = [w \in Workers |-> IdleWorker]
  /\ calls = 0
  /\ raced = {}

-----------------------------------------------------------------------------
(* The handlers. *)

(* Sequelize writes the columns that differ from the loaded instance. *)
Saved(row, seen, new) ==
  [f \in DOMAIN row |-> IF new[f] # seen[f] THEN new[f] ELSE row[f]]

(* An expense entered as approved is enqueued with its row, one of a bulk  *)
(* or of a payroll run too.  Only a draft may lack its amount.             *)
Create(e) ==
  /\ expense[e].status = "absent"
  /\ calls < MaxCalls
  /\ calls' = calls + 1
  /\ \E status \in Statuses, amount \in Amounts \cup {0} :
       /\ status # "draft" => amount # 0
       /\ expense' = [expense EXCEPT ![e].status = status, ![e].amount = amount]
       /\ jobs' = IF status = "approved"
                  THEN jobs \cup {[expense |-> e, call |-> calls']} ELSE jobs
  /\ UNCHANGED <<entries, requests, workers, raced>>

(* Every other handler loads the row first, outside any transaction; a     *)
(* deleted one is not found, and only a pending one can be decided.        *)
Load(r, e, op) ==
  /\ requests[r] = NoRequest
  /\ expense[e].status # "absent" /\ ~expense[e].deleted
  /\ op \in {"approve", "reject"} => expense[e].status = "pending"
  /\ calls < MaxCalls
  /\ calls' = calls + 1
  /\ requests' = [requests EXCEPT ![r] =
                    [op |-> op, id |-> e, seen |-> expense[e], call |-> calls']]
  /\ UNCHANGED <<expense, entries, jobs, workers, raced>>

(* Mutant: only what was approved already is synced. *)
SaveQuietly(r, new) ==
  LET e == requests[r].id
  IN /\ expense' = [expense EXCEPT ![e] = Saved(@, requests[r].seen, new)]
     /\ jobs' = IF expense[e].status = "approved"
                THEN jobs \cup {[expense |-> e, call |-> requests[r].call]} ELSE jobs
     /\ requests' = [requests EXCEPT ![r] = NoRequest]
     /\ UNCHANGED <<entries, workers, calls, raced>>

(* The transaction: the row as changed, and a job to sync its journal.     *)
Save(r, new) ==
  LET e == requests[r].id
  IN /\ expense' = [expense EXCEPT ![e] = Saved(@, requests[r].seen, new)]
     /\ jobs' = jobs \cup {[expense |-> e, call |-> requests[r].call]}
     /\ requests' = [requests EXCEPT ![r] = NoRequest]
     /\ UNCHANGED <<entries, workers, calls, raced>>

Update(r) ==
  /\ requests[r].op = "update"
  /\ \E status \in Statuses, amount \in Amounts \cup {requests[r].seen.amount} :
       Save(r, [requests[r].seen EXCEPT !.status = status, !.amount = amount])

Approve(r) ==
  /\ requests[r].op = "approve"
  /\ Save(r, [requests[r].seen EXCEPT !.status = "approved"])

Reject(r) ==
  /\ requests[r].op = "reject"
  /\ Save(r, [requests[r].seen EXCEPT !.status = "rejected"])

SetActive(r) ==
  /\ requests[r].op = "setActive"
  /\ \E isActive \in BOOLEAN : Save(r, [requests[r].seen EXCEPT !.active = isActive])

Delete(r) ==
  /\ requests[r].op = "delete"
  /\ Save(r, [requests[r].seen EXCEPT !.deleted = TRUE])

-----------------------------------------------------------------------------
(* One attempt at an expense_journal_sync job. *)

Journalised(row) == row.status = "approved" /\ row.active /\ ~row.deleted

Working(w, e) == workers[w].step # "idle" /\ workers[w].job.expense = e

(* The row as it is now, soft-deleted or not. *)
ReadExpense(w, j) ==
  /\ workers[w] = IdleWorker
  /\ j \in jobs
  /\ workers' = [workers EXCEPT ![w] =
       [IdleWorker EXCEPT !.job = j, !.seen = expense[j.expense], !.step = "find"]]
  /\ raced' = raced \cup {e \in {j.expense} : \E v \in Workers : Working(v, e)}
  /\ UNCHANGED <<expense, entries, jobs, requests, calls>>

LiveEntries(e) == {k \in DOMAIN entries : entries[k].expense = e /\ entries[k].live}

(* An unlocked look for the entry; an expense that should have one but has *)
(* no amount is left alone.                                                *)
FindEntry(w) ==
  LET found == LiveEntries(workers[w].job.expense)
  IN /\ workers[w].step = "find"
     /\ IF Journalised(workers[w].seen) /\ workers[w].seen.amount = 0
        THEN workers' = [workers EXCEPT ![w].step = "done"]
        ELSE \E k \in (IF found = {} THEN {None} ELSE found) :
               workers' = [workers EXCEPT ![w].step = "write", ![w].entry = k]
     /\ UNCHANGED <<expense, entries, jobs, requests, calls, raced>>

(* Mutant: neither the look under the counter lock nor the unique index. *)
PostAnyway(e, amount) ==
  entries' = Append(entries, [expense |-> e, live |-> TRUE, amount |-> amount])

(* createJournalEntry looks again under the store's counter lock, and      *)
(* replays the entry it finds.                                             *)
PostEntry(e, amount) ==
  entries' = IF LiveEntries(e) # {} THEN entries
             ELSE Append(entries, [expense |-> e, live |-> TRUE, amount |-> amount])

(* Mutant: no second look at whether the entry is still there. *)
RewriteBlindly(k, amount) == entries' = [entries EXCEPT ![k].amount = amount]

(* Under the entry's lock; one removed meanwhile is left alone. *)
RewriteEntry(k, amount) ==
  entries' = IF entries[k].live THEN [entries EXCEPT ![k].amount = amount] ELSE entries

RemoveEntry(k) == entries' = [entries EXCEPT ![k].live = FALSE]

Write(w) ==
  LET seen == workers[w].seen
      k == workers[w].entry
  IN /\ workers[w].step = "write"
     /\ \/ Journalised(seen) /\ k = None /\ PostEntry(workers[w].job.expense, seen.amount)
        \/ Journalised(seen) /\ k # None /\ RewriteEntry(k, seen.amount)
        \/ ~Journalised(seen) /\ k # None /\ RemoveEntry(k)
        \/ ~Journalised(seen) /\ k = None /\ UNCHANGED entries
     /\ workers' = [workers EXCEPT ![w].step = "done"]
     /\ UNCHANGED <<expense, jobs, requests, calls, raced>>

(* The outbox row is marked posted. *)
MarkPosted(w) ==
  /\ workers[w].step = "done"
  /\ jobs' = jobs \ {workers[w].job}
  /\ workers' = [workers EXCEPT ![w] = IdleWorker]
  /\ UNCHANGED <<expense, entries, requests, calls, raced>>

(* The attempt throws or its process dies at any step: the job stays.      *)
AttemptFails(w) ==
  /\ workers[w].step # "idle"
  /\ workers' = [workers EXCEPT ![w] = IdleWorker]
  /\ UNCHANGED <<expense, entries, jobs, requests, calls, raced>>

Handle(r) == Update(r) \/ Approve(r) \/ Reject(r) \/ SetActive(r) \/ Delete(r)

Next ==
  \/ \E e \in Expenses : Create(e) \/ \E r \in Requests, op \in Operations : Load(r, e, op)
  \/ \E r \in Requests : Handle(r)
  \/ \E w \in Workers : \/ \E j \in jobs : ReadExpense(w, j)
                        \/ FindEntry(w) \/ Write(w) \/ MarkPosted(w) \/ AttemptFails(w)

Spec == Init /\ [][Next]_vars

-----------------------------------------------------------------------------
(* Correctness. *)

Unsynced(e) == (\E j \in jobs : j.expense = e) \/ \E w \in Workers : Working(w, e)

Booked(e) == {entries[k].amount : k \in LiveEntries(e)}
Owed(row) == IF Journalised(row) THEN {row.amount} \ {0} ELSE {}

(* Once the jobs of an expense have run, the books show it exactly when it *)
(* is approved and active, at the amount it has now.  While any change is  *)
(* still to be booked there is a job for it: no handler and no failed      *)
(* attempt drops one.                                                      *)
NeverReverts == \A e \in Expenses : Unsynced(e) \/ Booked(e) = Owed(expense[e])

(* The same of the expenses whose attempts never overlapped.               *)
BooksFollowExpense ==
  \A e \in Expenses \ raced : Unsynced(e) \/ Booked(e) = Owed(expense[e])

(* An expense is in the books once, however many attempts run at once.     *)
OneLiveEntry == \A e \in Expenses : \A k, l \in LiveEntries(e) : k = l

(* What was removed from the books is never written again, though an       *)
(* attempt may hold it from before.                                        *)
RemovedStays ==
  [][\A k \in DOMAIN entries : ~entries[k].live => entries'[k] = entries[k]]_vars
==============================================================================

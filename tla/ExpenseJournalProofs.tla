------------------------- MODULE ExpenseJournalProofs -------------------------
(* Expenses and the books: types, one live entry per expense, and what was  *)
(* removed stays removed, for any number of requests and attempts.          *)
EXTENDS ExpenseJournal, SequenceTheorems, TLAPS

Entry == [expense: Expenses, live: BOOLEAN, amount: Amounts \ {0}]

RowsOK ==
  /\ expense \in [Expenses -> Row]
  /\ requests \in [Requests -> [op: Operations \cup {None}, id: Expenses \cup {None},
                                seen: Row \cup {None}, call: 0..MaxCalls]]
  /\ calls \in 0..MaxCalls

JobsOK ==
  /\ jobs \subseteq Job
  /\ raced \subseteq Expenses

EntriesOK == entries \in Seq(Entry)

WorkersOK ==
  workers \in [Workers -> [step: {"idle", "find", "write", "done"}, job: Job \cup {None},
                           seen: Row \cup {None}, entry: DOMAIN entries \cup {None}]]

(* A request under way has loaded a row; an attempt under way has a job and *)
(* a row, and one about to post has something to post.                      *)
LoadedOK ==
  \A r \in Requests : requests[r] # NoRequest =>
    requests[r].id \in Expenses /\ requests[r].seen \in Row /\ requests[r].call \in 1..MaxCalls

AttemptsOK ==
  \A w \in Workers : workers[w].step # "idle" =>
    /\ workers[w].job \in Job /\ workers[w].seen \in Row
    /\ workers[w].step = "write" /\ Journalised(workers[w].seen) => workers[w].seen.amount # 0

JournalInv == RowsOK /\ JobsOK /\ EntriesOK /\ WorkersOK /\ LoadedOK /\ AttemptsOK /\ OneLiveEntry

LEMMA InitHolds == Init => JournalInv
BY AmountsAssumption, NoneAssumption
   DEF Init, JournalInv, RowsOK, JobsOK, EntriesOK, WorkersOK, LoadedOK, AttemptsOK, OneLiveEntry,
       LiveEntries, NoRow, Row, Statuses, NoRequest, IdleWorker

LEMMA SavedIsRow ==
  ASSUME NEW row \in Row, NEW seen \in Row, NEW new \in Row
  PROVE  /\ Saved(row, seen, new) \in Row
         /\ \A f \in {"status", "active", "deleted", "amount"} :
              Saved(row, seen, new)[f] = IF new[f] # seen[f] THEN new[f] ELSE row[f]
<1>1. DOMAIN row = {"status", "active", "deleted", "amount"}
  BY DEF Row
<1>2. Saved(row, seen, new) =
        [status |-> IF new.status # seen.status THEN new.status ELSE row.status,
         active |-> IF new.active # seen.active THEN new.active ELSE row.active,
         deleted |-> IF new.deleted # seen.deleted THEN new.deleted ELSE row.deleted,
         amount |-> IF new.amount # seen.amount THEN new.amount ELSE row.amount]
  BY <1>1 DEF Saved
<1>3. Saved(row, seen, new) \in Row
  BY <1>2 DEF Row
<1> QED  BY <1>2, <1>3

LEMMA CreateHolds ==
  ASSUME JournalInv, NEW e \in Expenses, Create(e)
  PROVE  JournalInv'
<1> USE DEF JournalInv
<1>1. calls \in 0..MaxCalls /\ calls < MaxCalls /\ calls' = calls + 1 /\ MaxCalls \in Nat
  BY AmountsAssumption DEF Create, RowsOK
<1>2. PICK status \in Statuses, amount \in Amounts \cup {0} :
        /\ expense' = [expense EXCEPT ![e].status = status, ![e].amount = amount]
        /\ jobs' = IF status = "approved"
                   THEN jobs \cup {[expense |-> e, call |-> calls']} ELSE jobs
  BY DEF Create
<1>3. expense' \in [Expenses -> Row]
  <2>1. [[expense[e] EXCEPT !.status = status] EXCEPT !.amount = amount] \in Row
    BY DEF RowsOK, Row
  <2>2. expense' = [expense EXCEPT ![e] = [[expense[e] EXCEPT !.status = status] EXCEPT !.amount = amount]]
    BY <1>2 DEF RowsOK
  <2> QED  BY <2>1, <2>2 DEF RowsOK
<1>4. [expense |-> e, call |-> calls'] \in Job
  BY <1>1 DEF Job
<1>5. UNCHANGED <<entries, requests, workers, raced>>
  BY DEF Create
<1>6. RowsOK'
  BY <1>1, <1>3, <1>5 DEF RowsOK
<1>7. JobsOK'
  BY <1>2, <1>4, <1>5 DEF JobsOK
<1> QED  BY <1>5, <1>6, <1>7 DEF EntriesOK, WorkersOK, LoadedOK, AttemptsOK, OneLiveEntry, LiveEntries

LEMMA LoadHolds ==
  ASSUME JournalInv, NEW r \in Requests, NEW e \in Expenses, NEW op \in Operations, Load(r, e, op)
  PROVE  JournalInv'
<1> USE DEF JournalInv
<1> DEFINE new == [op |-> op, id |-> e, seen |-> expense[e], call |-> calls']
<1>1. calls \in 0..MaxCalls /\ calls < MaxCalls /\ calls' = calls + 1 /\ MaxCalls \in Nat
  BY AmountsAssumption DEF Load, RowsOK
<1>2. requests' = [requests EXCEPT ![r] = new] /\ UNCHANGED <<expense, entries, jobs, workers, raced>>
  BY DEF Load
<1>3. /\ new \in [op: Operations \cup {None}, id: Expenses \cup {None},
                  seen: Row \cup {None}, call: 0..MaxCalls]
      /\ new.id \in Expenses /\ new.seen \in Row /\ new.call \in 1..MaxCalls
  BY <1>1 DEF RowsOK
<1> HIDE DEF new
<1>4. RowsOK'
  BY <1>1, <1>2, <1>3 DEF RowsOK
<1>5. LoadedOK'
  BY <1>2, <1>3 DEF LoadedOK, RowsOK
<1> QED  BY <1>2, <1>4, <1>5 DEF JobsOK, EntriesOK, WorkersOK, AttemptsOK, OneLiveEntry, LiveEntries

LEMMA SaveHolds ==
  ASSUME JournalInv, NEW r \in Requests, requests[r] # NoRequest, NEW new \in Row, Save(r, new)
  PROVE  JournalInv'
<1> USE DEF JournalInv
<1> DEFINE e == requests[r].id
           saved == Saved(expense[e], requests[r].seen, new)
<1>1. e \in Expenses /\ requests[r].seen \in Row /\ requests[r].call \in 1..MaxCalls
  BY DEF LoadedOK
<1>2. expense[e] \in Row
  BY <1>1 DEF RowsOK
<1>3. saved \in Row
  BY <1>1, <1>2, SavedIsRow
<1>4. /\ expense' = [expense EXCEPT ![e] = saved]
      /\ jobs' = jobs \cup {[expense |-> e, call |-> requests[r].call]}
      /\ requests' = [requests EXCEPT ![r] = NoRequest]
      /\ UNCHANGED <<entries, workers, calls, raced>>
  BY DEF Save
<1>5. NoRequest \in [op: Operations \cup {None}, id: Expenses \cup {None},
                     seen: Row \cup {None}, call: 0..MaxCalls]
  BY AmountsAssumption DEF NoRequest
<1>6. [expense |-> e, call |-> requests[r].call] \in Job
  BY <1>1 DEF Job
<1> HIDE DEF saved, e
<1>7. RowsOK'
  BY <1>1, <1>3, <1>4, <1>5 DEF RowsOK
<1>8. JobsOK'
  BY <1>4, <1>6 DEF JobsOK
<1>9. LoadedOK'
  BY <1>4 DEF LoadedOK, RowsOK
<1> QED  BY <1>4, <1>7, <1>8, <1>9 DEF EntriesOK, WorkersOK, AttemptsOK, OneLiveEntry, LiveEntries

(* What each handler saves is a row, from the row it loaded.                *)
LEMMA HandleSaves ==
  ASSUME JournalInv, NEW r \in Requests, Handle(r)
  PROVE  /\ requests[r] # NoRequest
         /\ \E new \in Row :
              /\ Save(r, new)
              /\ new.status # requests[r].seen.status => new.status # "absent"
              /\ new.amount # requests[r].seen.amount => new.amount \in Amounts
<1> USE DEF JournalInv
<1>1. requests[r].op \in Operations
  BY DEF Handle, Update, Approve, Reject, SetActive, Delete, Operations
<1>2. requests[r] # NoRequest
  BY <1>1, NoneAssumption DEF NoRequest
<1> DEFINE seen == requests[r].seen
<1>3. seen \in Row
  BY <1>2 DEF LoadedOK
<1>4. CASE Update(r)
  <2>1. PICK status \in Statuses, amount \in Amounts \cup {seen.amount} :
          Save(r, [seen EXCEPT !.status = status, !.amount = amount])
    BY <1>4 DEF Update
  <2> DEFINE new == [seen EXCEPT !.status = status, !.amount = amount]
  <2>2. new \in Row /\ new.status = status /\ new.amount = amount
    BY <1>3 DEF Row
  <2>3. status # "absent"
    BY DEF Statuses
  <2> QED  BY <1>2, <2>1, <2>2, <2>3
<1>5. CASE Approve(r)
  <2> DEFINE new == [seen EXCEPT !.status = "approved"]
  <2>1. new \in Row /\ new.status = "approved" /\ new.amount = seen.amount
    BY <1>3 DEF Row, Statuses
  <2> QED  BY <1>2, <1>5, <2>1 DEF Approve
<1>6. CASE Reject(r)
  <2> DEFINE new == [seen EXCEPT !.status = "rejected"]
  <2>1. new \in Row /\ new.status = "rejected" /\ new.amount = seen.amount
    BY <1>3 DEF Row, Statuses
  <2> QED  BY <1>2, <1>6, <2>1 DEF Reject
<1>7. CASE SetActive(r)
  <2>1. PICK isActive \in BOOLEAN : Save(r, [seen EXCEPT !.active = isActive])
    BY <1>7 DEF SetActive
  <2> DEFINE new == [seen EXCEPT !.active = isActive]
  <2>2. new \in Row /\ new.status = seen.status /\ new.amount = seen.amount
    BY <1>3 DEF Row
  <2> QED  BY <1>2, <2>1, <2>2
<1>8. CASE Delete(r)
  <2> DEFINE new == [seen EXCEPT !.deleted = TRUE]
  <2>1. new \in Row /\ new.status = seen.status /\ new.amount = seen.amount
    BY <1>3 DEF Row
  <2> QED  BY <1>2, <1>8, <2>1 DEF Delete
<1> QED  BY <1>4, <1>5, <1>6, <1>7, <1>8 DEF Handle

(* The attempts: each step sets one worker, and only Write the entries.     *)
LEMMA WorkerStepHolds ==
  ASSUME JournalInv, NEW w \in Workers,
         NEW new \in [step: {"idle", "find", "write", "done"}, job: Job \cup {None},
                      seen: Row \cup {None}, entry: DOMAIN entries \cup {None}],
         new.step # "idle" =>
           /\ new.job \in Job /\ new.seen \in Row
           /\ new.step = "write" /\ Journalised(new.seen) => new.seen.amount # 0,
         workers' = [workers EXCEPT ![w] = new],
         raced' \subseteq Expenses, jobs' \subseteq Job,
         UNCHANGED <<expense, entries, requests, calls>>
  PROVE  JournalInv'
<1> USE DEF JournalInv
<1>1. WorkersOK'
  BY DEF WorkersOK
<1>2. AttemptsOK'
  BY DEF AttemptsOK, WorkersOK, Journalised
<1> QED  BY <1>1, <1>2 DEF RowsOK, JobsOK, EntriesOK, LoadedOK, OneLiveEntry, LiveEntries

(* A worker that takes a job, and one that found an entry, field by field.  *)
LEMMA TakenWorker ==
  ASSUME NEW j, NEW seen
  PROVE  [IdleWorker EXCEPT !.job = j, !.seen = seen, !.step = "find"]
         = [step |-> "find", job |-> j, seen |-> seen, entry |-> None]
<1>1. [[step |-> "idle", job |-> None, seen |-> None, entry |-> None] EXCEPT !.job = j]
      = [step |-> "idle", job |-> j, seen |-> None, entry |-> None]
  OBVIOUS
<1>2. [[step |-> "idle", job |-> j, seen |-> None, entry |-> None] EXCEPT !.seen = seen]
      = [step |-> "idle", job |-> j, seen |-> seen, entry |-> None]
  OBVIOUS
<1>3. [[step |-> "idle", job |-> j, seen |-> seen, entry |-> None] EXCEPT !.step = "find"]
      = [step |-> "find", job |-> j, seen |-> seen, entry |-> None]
  OBVIOUS
<1> QED  BY <1>1, <1>2, <1>3 DEF IdleWorker

LEMMA FoundWorker ==
  \A worker \in [step: {"idle", "find", "write", "done"}, job: Job \cup {None},
                  seen: Row \cup {None}, entry: DOMAIN entries \cup {None}] : \A k :
    [worker EXCEPT !.step = "write", !.entry = k]
    = [step |-> "write", job |-> worker.job, seen |-> worker.seen, entry |-> k]
<1> SUFFICES ASSUME NEW worker \in [step: {"idle", "find", "write", "done"}, job: Job \cup {None},
                                    seen: Row \cup {None}, entry: DOMAIN entries \cup {None}],
                    NEW k
             PROVE  [worker EXCEPT !.step = "write", !.entry = k]
                    = [step |-> "write", job |-> worker.job, seen |-> worker.seen, entry |-> k]
  OBVIOUS
<1> DEFINE found == [step |-> "write", job |-> worker.job, seen |-> worker.seen,
                     entry |-> worker.entry]
<1>1. [worker EXCEPT !.step = "write"] = found
  OBVIOUS
<1>2. [found EXCEPT !.entry = k]
      = [step |-> "write", job |-> worker.job, seen |-> worker.seen, entry |-> k]
  OBVIOUS
<1> QED  BY <1>1, <1>2

LEMMA ReadHolds ==
  ASSUME JournalInv, NEW w \in Workers, NEW j \in jobs, ReadExpense(w, j)
  PROVE  JournalInv'
<1> DEFINE new == [IdleWorker EXCEPT !.job = j, !.seen = expense[j.expense], !.step = "find"]
<1>1. j \in Job /\ expense[j.expense] \in Row
  BY DEF JournalInv, JobsOK, RowsOK, Job
<1>2. new = [step |-> "find", job |-> j, seen |-> expense[j.expense], entry |-> None]
  BY TakenWorker
<1>3. raced' \subseteq Expenses
  BY <1>1 DEF ReadExpense, JournalInv, JobsOK, Job
<1> QED  BY <1>1, <1>2, <1>3, WorkerStepHolds DEF ReadExpense, JournalInv, JobsOK

LEMMA FindHolds ==
  ASSUME JournalInv, NEW w \in Workers, FindEntry(w)
  PROVE  JournalInv'
<1> DEFINE found == LiveEntries(workers[w].job.expense)
<1>1. workers[w].job \in Job /\ workers[w].seen \in Row /\ workers[w].entry \in DOMAIN entries \cup {None}
  BY DEF FindEntry, JournalInv, AttemptsOK, WorkersOK
<1>2. UNCHANGED <<expense, entries, jobs, requests, calls, raced>> /\ found \subseteq DOMAIN entries
  BY DEF FindEntry, LiveEntries
<1>3. CASE Journalised(workers[w].seen) /\ workers[w].seen.amount = 0
  <2> DEFINE new == [workers[w] EXCEPT !.step = "done"]
  <2>1. workers' = [workers EXCEPT ![w] = new]
    BY <1>3 DEF FindEntry
  <2>2. new = [step |-> "done", job |-> workers[w].job, seen |-> workers[w].seen,
               entry |-> workers[w].entry]
    BY DEF JournalInv, WorkersOK
  <2> QED  BY <1>1, <1>2, <2>1, <2>2, WorkerStepHolds DEF JournalInv, JobsOK
<1>4. CASE ~(Journalised(workers[w].seen) /\ workers[w].seen.amount = 0)
  <2>1. PICK k \in DOMAIN entries \cup {None} :
          workers' = [workers EXCEPT ![w].step = "write", ![w].entry = k]
    BY <1>2, <1>4 DEF FindEntry
  <2> DEFINE new == [step |-> "write", job |-> workers[w].job, seen |-> workers[w].seen, entry |-> k]
  <2>2. /\ workers' = [workers EXCEPT ![w] = [workers[w] EXCEPT !.step = "write", !.entry = k]]
        /\ workers[w] \in [step: {"idle", "find", "write", "done"}, job: Job \cup {None},
                           seen: Row \cup {None}, entry: DOMAIN entries \cup {None}]
    BY <2>1 DEF JournalInv, WorkersOK
  <2>3. [workers[w] EXCEPT !.step = "write", !.entry = k] = new
    <3>1. workers[w] \in [step: {"idle", "find", "write", "done"}, job: Job \cup {None},
                          seen: Row \cup {None}, entry: DOMAIN entries \cup {None}]
      BY <2>2
    <3> HIDE DEF JournalInv
    <3> QED  BY <3>1, FoundWorker, Zenon
  <2>4. workers' = [workers EXCEPT ![w] = new]
    BY <2>2, <2>3
  <2> QED  BY <1>1, <1>2, <1>4, <2>4, WorkerStepHolds DEF JournalInv, JobsOK
<1> QED  BY <1>3, <1>4

LEMMA FreeWorkerHolds ==
  ASSUME JournalInv, NEW w \in Workers, MarkPosted(w) \/ AttemptFails(w)
  PROVE  JournalInv'
<1>1. /\ workers' = [workers EXCEPT ![w] = IdleWorker]
      /\ UNCHANGED <<expense, entries, requests, calls, raced>> /\ jobs' \subseteq jobs
  BY DEF MarkPosted, AttemptFails
<1>2. IdleWorker \in [step: {"idle", "find", "write", "done"}, job: Job \cup {None},
                      seen: Row \cup {None}, entry: DOMAIN entries \cup {None}]
  BY DEF IdleWorker
<1>3. IdleWorker.step = "idle"
  BY DEF IdleWorker
<1> QED  BY <1>1, <1>2, <1>3, WorkerStepHolds DEF JournalInv, JobsOK

(* What a write may do to the entries: nothing, one more when there is no   *)
(* live one, or a live one rewritten or removed.                            *)
LEMMA WriteEffect ==
  ASSUME JournalInv, NEW w \in Workers, Write(w)
  PROVE  \/ entries' = entries
         \/ /\ Journalised(workers[w].seen)
            /\ workers[w].seen.amount \in Amounts \ {0}
            /\ LiveEntries(workers[w].job.expense) = {}
            /\ entries' = Append(entries, [expense |-> workers[w].job.expense, live |-> TRUE,
                                           amount |-> workers[w].seen.amount])
         \/ \E k \in DOMAIN entries :
              /\ workers[w].entry = k /\ entries[k].live
              /\ \/ /\ Journalised(workers[w].seen)
                    /\ workers[w].seen.amount \in Amounts \ {0}
                    /\ entries' = [entries EXCEPT ![k].amount = workers[w].seen.amount]
                 \/ /\ ~Journalised(workers[w].seen)
                    /\ entries' = [entries EXCEPT ![k].live = FALSE]
<1> DEFINE seen == workers[w].seen
           k == workers[w].entry
           e == workers[w].job.expense
<1>1. /\ seen \in Row /\ (Journalised(seen) => seen.amount # 0)
      /\ k \in DOMAIN entries \cup {None} /\ workers[w].job \in Job
  BY DEF Write, JournalInv, AttemptsOK, WorkersOK
<1>2. Journalised(seen) => seen.amount \in Amounts \ {0}
  BY <1>1 DEF Row
<1>3. None \notin DOMAIN entries
  BY NoneAssumption DEF JournalInv, EntriesOK
<1>4. CASE Journalised(seen) /\ k = None /\ PostEntry(e, seen.amount)
  BY <1>2, <1>4 DEF PostEntry
<1>5. CASE Journalised(seen) /\ k # None /\ RewriteEntry(k, seen.amount)
  BY <1>1, <1>2, <1>5 DEF RewriteEntry
<1>6. CASE ~Journalised(seen) /\ k # None /\ RemoveEntry(k)
  <2>1. k \in DOMAIN entries /\ entries \in Seq(Entry) /\ entries[k] \in Entry
    BY <1>1, <1>6 DEF JournalInv, EntriesOK
  <2>2. CASE entries[k].live
    BY <1>6, <2>1, <2>2 DEF RemoveEntry
  <2>3. CASE ~entries[k].live
    <3>1. [entries[k] EXCEPT !.live = FALSE] = entries[k]
      BY <2>1, <2>3 DEF Entry
    <3>2. entries' = [entries EXCEPT ![k] = entries[k]]
      BY <1>6, <3>1 DEF RemoveEntry
    <3> QED  BY <2>1, <3>2
  <2> QED  BY <2>2, <2>3
<1>7. CASE ~Journalised(seen) /\ k = None /\ UNCHANGED entries
  BY <1>7
<1> QED  BY <1>4, <1>5, <1>6, <1>7 DEF Write

LEMMA WriteHolds ==
  ASSUME JournalInv, NEW w \in Workers, Write(w)
  PROVE  JournalInv'
<1> USE DEF JournalInv
<1> DEFINE e == workers[w].job.expense
           Kept == /\ entries' \in Seq(Entry) /\ DOMAIN entries \subseteq DOMAIN entries'
                   /\ OneLiveEntry'
<1>1. /\ workers' = [workers EXCEPT ![w].step = "done"]
      /\ UNCHANGED <<expense, jobs, requests, calls, raced>>
  BY DEF Write
<1>2. entries \in Seq(Entry) /\ e \in Expenses
  BY DEF EntriesOK, AttemptsOK, Write, Job
<1>3. Kept
  <2>1. CASE entries' = entries
    BY <1>2, <2>1 DEF OneLiveEntry, LiveEntries
  <2>2. ASSUME NEW amount \in Amounts \ {0}, LiveEntries(e) = {},
               entries' = Append(entries, [expense |-> e, live |-> TRUE, amount |-> amount])
        PROVE  Kept
    <3> DEFINE new == [expense |-> e, live |-> TRUE, amount |-> amount]
    <3>1. new \in Entry /\ new.expense = e
      BY <1>2 DEF Entry
    <3> HIDE DEF new, e
    <3>2. /\ entries' \in Seq(Entry) /\ DOMAIN entries' = DOMAIN entries \cup {Len(entries) + 1}
          /\ entries'[Len(entries) + 1] = new
          /\ \A k \in DOMAIN entries : entries'[k] = entries[k]
      BY <1>2, <2>2, <3>1 DEF new
    <3>3. OneLiveEntry'
      BY <2>2, <3>1, <3>2 DEF OneLiveEntry, LiveEntries
    <3> QED  BY <3>2, <3>3
  <2>3. ASSUME NEW k \in DOMAIN entries, entries[k].live, NEW changed \in Entry,
               changed.expense = entries[k].expense,
               entries' = [entries EXCEPT ![k] = changed]
        PROVE  Kept
    <3>1. /\ entries' \in Seq(Entry) /\ DOMAIN entries' = DOMAIN entries
          /\ \A l \in DOMAIN entries : entries'[l] = IF l = k THEN changed ELSE entries[l]
      BY <1>2, <2>3
    <3>2. OneLiveEntry'
      BY <2>3, <3>1 DEF OneLiveEntry, LiveEntries
    <3> QED  BY <3>1, <3>2
  <2>4. ASSUME NEW k \in DOMAIN entries, entries[k].live, NEW amount \in Amounts \ {0},
               entries' = [entries EXCEPT ![k].amount = amount]
        PROVE  Kept
    <3>1. entries[k] \in Entry
      BY <1>2
    <3>2. /\ [entries[k] EXCEPT !.amount = amount] \in Entry
          /\ [entries[k] EXCEPT !.amount = amount].expense = entries[k].expense
      BY <3>1 DEF Entry
    <3>3. entries' = [entries EXCEPT ![k] = [entries[k] EXCEPT !.amount = amount]]
      BY <2>4
    <3> QED  BY <2>3, <2>4, <3>2, <3>3
  <2>5. ASSUME NEW k \in DOMAIN entries, entries[k].live,
               entries' = [entries EXCEPT ![k].live = FALSE]
        PROVE  Kept
    <3>1. entries[k] \in Entry
      BY <1>2
    <3>2. /\ [entries[k] EXCEPT !.live = FALSE] \in Entry
          /\ [entries[k] EXCEPT !.live = FALSE].expense = entries[k].expense
      BY <3>1 DEF Entry
    <3>3. entries' = [entries EXCEPT ![k] = [entries[k] EXCEPT !.live = FALSE]]
      BY <2>5
    <3> QED  BY <2>3, <2>5, <3>2, <3>3
  <2> QED  BY WriteEffect, <2>1, <2>2, <2>4, <2>5
<1>4. WorkersOK'
  <2>1. /\ workers[w].job \in Job \cup {None} /\ workers[w].seen \in Row \cup {None}
        /\ workers[w].entry \in DOMAIN entries' \cup {None}
    BY <1>3 DEF WorkersOK
  <2>2. [workers[w] EXCEPT !.step = "done"] =
        [step |-> "done", job |-> workers[w].job, seen |-> workers[w].seen, entry |-> workers[w].entry]
    BY DEF WorkersOK
  <2>3. \A v \in Workers :
          workers[v] \in [step: {"idle", "find", "write", "done"}, job: Job \cup {None},
                          seen: Row \cup {None}, entry: DOMAIN entries' \cup {None}]
    BY <1>3 DEF WorkersOK
  <2> QED  BY <1>1, <2>1, <2>2, <2>3 DEF WorkersOK
<1>5. AttemptsOK'
  BY <1>1 DEF AttemptsOK, WorkersOK, Write
<1> QED  BY <1>1, <1>3, <1>4, <1>5 DEF RowsOK, JobsOK, EntriesOK, LoadedOK

LEMMA NextHolds == JournalInv /\ Next => JournalInv'
<1> SUFFICES ASSUME JournalInv, Next PROVE JournalInv'
  OBVIOUS
<1>1. ASSUME NEW r \in Requests, Handle(r) PROVE JournalInv'
  <2>1. requests[r] # NoRequest /\ \E new \in Row : Save(r, new)
    BY <1>1, HandleSaves
  <2> QED  BY <2>1, SaveHolds
<1> QED  BY <1>1, CreateHolds, LoadHolds, ReadHolds, FindHolds, WriteHolds, FreeWorkerHolds DEF Next

(* The inductive invariant of the expense handlers and the journal sync     *)
(* (save in expense.js, the two syncs of accountingService.js) holds at     *)
(* every step: rows, journal rows and what a sync has loaded are well       *)
(* formed, and one expense has one live entry at most.                      *)
THEOREM JournalInvHolds == Spec => []JournalInv
<1>1. JournalInv /\ [Next]_vars => JournalInv'
  <2>1. JournalInv /\ UNCHANGED vars => JournalInv'
    BY DEF JournalInv, RowsOK, JobsOK, EntriesOK, WorkersOK, LoadedOK, AttemptsOK, OneLiveEntry,
           LiveEntries, vars, Journalised
  <2> QED  BY <2>1, NextHolds
<1> QED  BY InitHolds, <1>1, PTL DEF Spec

LEMMA RemovedStep == JournalInv /\ [Next]_vars =>
  \A k \in DOMAIN entries : ~entries[k].live => entries'[k] = entries[k]
<1> SUFFICES ASSUME JournalInv, [Next]_vars, NEW k \in DOMAIN entries, ~entries[k].live
             PROVE  entries'[k] = entries[k]
  OBVIOUS
<1>1. entries \in Seq(Entry)
  BY DEF JournalInv, EntriesOK
<1>2. ASSUME NEW w \in Workers, Write(w) PROVE entries'[k] = entries[k]
  <2>1. CASE entries' = entries
    BY <2>1
  <2>2. ASSUME NEW new, entries' = Append(entries, new) PROVE entries'[k] = entries[k]
    BY <1>1, <2>2
  <2>3. ASSUME NEW l \in DOMAIN entries, entries[l].live, NEW new, entries' = [entries EXCEPT ![l] = new]
        PROVE  entries'[k] = entries[k]
    BY <1>1, <2>3
  <2> QED  BY <1>2, <2>1, <2>2, <2>3, WriteEffect
<1>3. ASSUME NEW r \in Requests, Handle(r) PROVE entries'[k] = entries[k]
  <2>1. PICK new \in Row : Save(r, new)
    BY <1>3, HandleSaves
  <2> QED  BY <2>1 DEF Save
<1> QED  BY <1>2, <1>3 DEF Next, vars, Create, Load, ReadExpense, FindEntry, MarkPosted, AttemptFails

-----------------------------------------------------------------------------
(* The books follow the expense: what a step must keep for that.            *)

Busy(r) == requests[r] # NoRequest
Active(w) == workers[w].step # "idle"

(* Every change has a call number of its own.                               *)
CallsOK ==
  /\ \A r \in Requests : Busy(r) => requests[r].call <= calls
  /\ \A j \in jobs : j.call <= calls
  /\ \A w \in Workers : Active(w) => workers[w].job.call <= calls
  /\ \A r, q \in Requests : Busy(r) /\ Busy(q) /\ r # q => requests[r].call # requests[q].call
  /\ \A r \in Requests, j \in jobs : Busy(r) => j.call # requests[r].call
  /\ \A r \in Requests, w \in Workers :
       Busy(r) /\ Active(w) => workers[w].job.call # requests[r].call

(* Nothing refers to an expense that was never created, and an amount once  *)
(* entered is never taken back.                                             *)
AbsentOK ==
  /\ \A j \in jobs : expense[j.expense].status # "absent"
  /\ \A w \in Workers : Active(w) => expense[workers[w].job.expense].status # "absent"
  /\ \A r \in Requests : Busy(r) => /\ expense[requests[r].id].status # "absent"
                                   /\ requests[r].seen.status # "absent"
  /\ \A e \in Expenses : expense[e].status = "absent" => LiveEntries(e) = {} /\ expense[e].amount = 0

ZeroOK ==
  /\ \A e \in Expenses : expense[e].amount = 0 => LiveEntries(e) = {}
  /\ \A w \in Workers : Active(w) /\ workers[w].seen.amount # 0 =>
       expense[workers[w].job.expense].amount # 0

(* An entry an attempt found is of its expense.                             *)
FoundOK ==
  \A w \in Workers : workers[w].step = "write" /\ workers[w].entry # None =>
    entries[workers[w].entry].expense = workers[w].job.expense

AloneOK == \A e \in Expenses \ raced : \A v, w \in Workers : Working(v, e) /\ Working(w, e) => v = w

(* What the only attempt on an expense has seen is so, or another job will  *)
(* see to it; and what it has done is what it saw.                          *)
AttemptOK(w) ==
  LET e == workers[w].job.expense
      seen == workers[w].seen
  IN /\ workers[w].job \in jobs
     /\ seen = expense[e] \/ \E j \in jobs : j.expense = e /\ j # workers[w].job
     /\ workers[w].step = "find" /\ seen.amount = 0 => LiveEntries(e) = {}
     /\ workers[w].step = "write" => LiveEntries(e) = {workers[w].entry} \ {None}
     /\ workers[w].step = "done" => Booked(e) = Owed(seen)

OnlyOK == \A w \in Workers : Active(w) /\ workers[w].job.expense \notin raced => AttemptOK(w)

BooksInv ==
  JournalInv /\ CallsOK /\ AbsentOK /\ ZeroOK /\ FoundOK /\ AloneOK /\ OnlyOK /\ BooksFollowExpense

LEMMA InitBooks == Init => BooksInv
<1> SUFFICES ASSUME Init PROVE BooksInv
  OBVIOUS
<1>1. JournalInv
  BY InitHolds
<1>2. /\ \A r \in Requests : ~Busy(r)
      /\ \A w \in Workers : ~Active(w)
      /\ \A e \in Expenses : LiveEntries(e) = {} /\ expense[e] = NoRow
      /\ jobs = {} /\ entries = <<>> /\ \A w \in Workers : workers[w].step = "idle"
  BY DEF Init, Busy, Active, LiveEntries, IdleWorker
<1>3. \A e \in Expenses : /\ Booked(e) = {} /\ Owed(expense[e]) = {}
                           /\ expense[e].amount = 0
  <2>1. ~Journalised(NoRow)
    BY DEF Journalised, NoRow
  <2>2. NoRow.amount = 0
    BY DEF NoRow
  <2> QED  BY <1>2, <2>1, <2>2 DEF Booked, Owed
<1> QED  BY <1>1, <1>2, <1>3 DEF BooksInv, CallsOK, AbsentOK, ZeroOK, FoundOK, AloneOK, OnlyOK,
            BooksFollowExpense, Working

LEMMA LoadBooks ==
  ASSUME BooksInv, NEW r \in Requests, NEW e \in Expenses, NEW op \in Operations, Load(r, e, op)
  PROVE  BooksInv'
<1> USE DEF BooksInv
<1>1. JournalInv'
  BY LoadHolds
<1>2. /\ requests' = [requests EXCEPT ![r] =
                        [op |-> op, id |-> e, seen |-> expense[e], call |-> calls']]
      /\ calls' = calls + 1 /\ calls \in Nat
      /\ expense[e].status # "absent"
      /\ UNCHANGED <<expense, entries, jobs, workers, raced>>
  BY AmountsAssumption DEF Load, JournalInv, RowsOK
<1>3. /\ requests'[r].id = e /\ requests'[r].seen = expense[e] /\ requests'[r].call = calls + 1
      /\ \A q \in Requests : q # r => requests'[q] = requests[q]
  BY <1>2 DEF JournalInv, RowsOK
<1>4. /\ \A q \in Requests : Busy(q) => requests[q].call \in Nat
      /\ \A j \in jobs : j.call \in Nat
      /\ \A w \in Workers : Active(w) => workers[w].job.call \in Nat
  BY AmountsAssumption DEF JournalInv, LoadedOK, JobsOK, AttemptsOK, Busy, Active, Job
<1>5. CallsOK'
  BY <1>2, <1>3, <1>4 DEF CallsOK, Busy, Active
<1>6. AbsentOK'
  BY <1>2, <1>3 DEF AbsentOK, Busy, Active, LiveEntries
<1>7. (ZeroOK /\ FoundOK /\ AloneOK)'
  BY <1>2 DEF ZeroOK, FoundOK, AloneOK, Active, LiveEntries, Working
<1>8. /\ \A f : LiveEntries(f)' = LiveEntries(f) /\ Booked(f)' = Booked(f) /\ Unsynced(f)' = Unsynced(f)
      /\ \A w \in Workers : AttemptOK(w)' = AttemptOK(w) /\ Active(w)' = Active(w)
  <2>1. \A f : LiveEntries(f)' = LiveEntries(f) /\ Booked(f)' = Booked(f) /\ Unsynced(f)' = Unsynced(f)
    BY <1>2 DEF LiveEntries, Booked, Unsynced, Working
  <2>2. \A w \in Workers : AttemptOK(w)' = AttemptOK(w) /\ Active(w)' = Active(w)
    BY <1>2, <2>1 DEF AttemptOK, Active
  <2> QED  BY <2>1, <2>2
<1>9. (OnlyOK /\ BooksFollowExpense)'
  BY <1>2, <1>8 DEF OnlyOK, BooksFollowExpense
<1> QED  BY <1>1, <1>5, <1>6, <1>7, <1>9

(* A row changed, with a job that will see it or with nothing to see.       *)
LEMMA ChangeBooks ==
  ASSUME BooksInv, NEW e \in Expenses, NEW row \in Row, NEW J \in SUBSET Job,
         expense' = [expense EXCEPT ![e] = row],
         jobs' = jobs \cup J,
         UNCHANGED <<entries, workers, raced>>,
         \A j \in J : j.expense = e,
         \A w \in Workers, j \in J : Active(w) => workers[w].job # j,
         row.status # "absent",
         expense[e].amount # 0 => row.amount # 0,
         J # {} \/ (expense[e].status = "absent" /\ ~Journalised(row))
  PROVE  ZeroOK' /\ FoundOK' /\ AloneOK' /\ OnlyOK' /\ BooksFollowExpense'
<1> USE DEF BooksInv
<1>1. /\ expense'[e] = row
      /\ \A f \in Expenses : f # e => expense'[f] = expense[f]
      /\ \A f : LiveEntries(f)' = LiveEntries(f) /\ Booked(f)' = Booked(f)
      /\ \A w \in Workers : Active(w)' = Active(w)
  BY DEF JournalInv, RowsOK, LiveEntries, Booked, Active
<1>2. \A w \in Workers : Active(w) => workers[w].job.expense \in Expenses
  BY DEF JournalInv, AttemptsOK, Active, Job
<1>3. ZeroOK'
  <2>1. \A f \in Expenses : expense'[f].amount = 0 => expense[f].amount = 0
    BY <1>1
  <2>2. \A w \in Workers : Active(w) /\ workers[w].seen.amount # 0 =>
          expense'[workers[w].job.expense].amount # 0
    BY <1>2, <2>1 DEF ZeroOK
  <2> QED  BY <1>1, <2>1, <2>2 DEF ZeroOK
<1>4. FoundOK' /\ AloneOK'
  BY DEF FoundOK, AloneOK, Working
<1>5. ASSUME NEW w \in Workers, Active(w), workers[w].job.expense \notin raced
      PROVE  AttemptOK(w)'
  <2> DEFINE f == workers[w].job.expense
  <2>1. AttemptOK(w)
    BY <1>5 DEF OnlyOK
  <2>2. workers[w].seen = expense'[f] \/ \E j \in jobs' : j.expense = f /\ j # workers[w].job
    <3>1. CASE f = e
      <4>1. J # {}
        BY <1>5, <3>1 DEF AbsentOK
      <4> QED  BY <1>5, <3>1, <4>1
    <3>2. CASE f # e
      BY <1>1, <1>2, <1>5, <2>1, <3>2 DEF AttemptOK
    <3> QED  BY <3>1, <3>2
  <2> QED  BY <1>1, <2>1, <2>2 DEF AttemptOK
<1>6. OnlyOK'
  BY <1>1, <1>5 DEF OnlyOK
<1>7. ASSUME NEW f \in Expenses \ raced, ~Unsynced(f)'
      PROVE  Booked(f)' = Owed(expense'[f])
  <2>1. \A j \in J : j.expense # f
    BY <1>7 DEF Unsynced
  <2>2. ~Unsynced(f)
    BY <1>7 DEF Unsynced, Working
  <2>3. CASE f = e
    <3>1. J = {} /\ expense[e].status = "absent" /\ ~Journalised(row)
      BY <2>1, <2>3
    <3>2. Booked(f) = {}
      BY <2>3, <3>1 DEF AbsentOK, Booked
    <3> QED  BY <1>1, <2>3, <3>1, <3>2 DEF Owed
  <2>4. CASE f # e
    BY <1>1, <2>2, <2>4 DEF BooksFollowExpense
  <2> QED  BY <2>3, <2>4
<1>8. BooksFollowExpense'
  BY <1>7 DEF BooksFollowExpense
<1> QED  BY <1>3, <1>4, <1>6, <1>8

LEMMA CreateBooks ==
  ASSUME BooksInv, NEW e \in Expenses, Create(e)
  PROVE  BooksInv'
<1> USE DEF BooksInv
<1>1. JournalInv'
  BY CreateHolds
<1>2. PICK status \in Statuses, amount \in Amounts \cup {0} :
        /\ expense' = [expense EXCEPT ![e].status = status, ![e].amount = amount]
        /\ jobs' = IF status = "approved"
                   THEN jobs \cup {[expense |-> e, call |-> calls']} ELSE jobs
  BY DEF Create
<1>3. /\ UNCHANGED <<entries, requests, workers, raced>> /\ expense[e].status = "absent"
      /\ calls' = calls + 1 /\ calls \in Nat
  BY AmountsAssumption DEF Create, JournalInv, RowsOK
<1> DEFINE row == [[expense[e] EXCEPT !.status = status] EXCEPT !.amount = amount]
           J == IF status = "approved" THEN {[expense |-> e, call |-> calls']} ELSE {}
<1>4. /\ row \in Row /\ row.status = status
      /\ expense' = [expense EXCEPT ![e] = row]
  BY <1>2 DEF JournalInv, RowsOK, Row
<1>5. J \subseteq Job
  BY <1>1, <1>2 DEF JournalInv, JobsOK
<1>6. jobs' = jobs \cup J
  BY <1>2
<1>7. /\ \A q \in Requests : Busy(q) => requests[q].call \in Nat
      /\ \A j \in jobs : j.call \in Nat
      /\ \A w \in Workers : Active(w) => workers[w].job.call \in Nat
  BY AmountsAssumption DEF JournalInv, LoadedOK, JobsOK, AttemptsOK, Busy, Active, Job
<1>8. /\ \A j \in J : j.expense = e /\ j.call = calls + 1
      /\ J # {} \/ status # "approved"
  <2>1. CASE status = "approved"
    BY <1>3, <2>1
  <2>2. CASE status # "approved"
    BY <2>2
  <2> QED  BY <2>1, <2>2
<1>9. status # "absent"
  BY DEF Statuses
<1> HIDE DEF row, J
<1>10. CallsOK'
  BY <1>3, <1>6, <1>7, <1>8 DEF CallsOK, Busy, Active
<1>11. \A w \in Workers, j \in J : Active(w) => workers[w].job # j
  BY <1>3, <1>7, <1>8 DEF CallsOK
<1>12. /\ expense'[e] = row
       /\ \A f \in Expenses : f # e => expense'[f] = expense[f]
  BY <1>4 DEF JournalInv, RowsOK
<1>13. AbsentOK'
  <2>1. /\ \A j \in jobs : j.expense \in Expenses
        /\ \A w \in Workers : Active(w) => workers[w].job.expense \in Expenses
        /\ \A q \in Requests : Busy(q) => requests[q].id \in Expenses
    BY DEF JournalInv, JobsOK, AttemptsOK, LoadedOK, Active, Busy, Job
  <2>2. \A f \in Expenses : expense[f].status # "absent" => expense'[f].status # "absent"
    BY <1>3, <1>12
  <2>3. \A j \in jobs' : expense'[j.expense].status # "absent"
    BY <1>4, <1>6, <1>8, <1>9, <1>12, <2>1, <2>2 DEF AbsentOK
  <2>4. \A w \in Workers : Active(w)' => expense'[workers'[w].job.expense].status # "absent"
    BY <1>3, <2>1, <2>2 DEF AbsentOK, Active
  <2>5. \A q \in Requests : Busy(q)' => /\ expense'[requests'[q].id].status # "absent"
                                        /\ requests'[q].seen.status # "absent"
    BY <1>3, <2>1, <2>2 DEF AbsentOK, Busy
  <2>6. \A f \in Expenses : expense'[f].status = "absent" =>
          LiveEntries(f)' = {} /\ expense'[f].amount = 0
    BY <1>3, <1>4, <1>9, <1>12 DEF AbsentOK, LiveEntries
  <2> QED  BY <2>3, <2>4, <2>5, <2>6 DEF AbsentOK
<1>14. ~Journalised(row) \/ status = "approved"
  BY <1>4 DEF Journalised
<1>15. ZeroOK' /\ FoundOK' /\ AloneOK' /\ OnlyOK' /\ BooksFollowExpense'
  <2>1. expense[e].amount = 0
    BY <1>3 DEF AbsentOK
  <2>2. /\ UNCHANGED <<entries, workers, raced>> /\ row.status # "absent"
        /\ J # {} \/ (expense[e].status = "absent" /\ ~Journalised(row))
        /\ \A j \in J : j.expense = e
    BY <1>3, <1>4, <1>8, <1>9, <1>14
  <2> HIDE DEF BooksInv
  <2> QED  BY <1>4, <1>5, <1>6, <1>11, <2>1, <2>2, ChangeBooks
<1> QED  BY <1>1, <1>10, <1>13, <1>15

LEMMA HandleBooks ==
  ASSUME BooksInv, 0 \notin Amounts, NEW r \in Requests, Handle(r)
  PROVE  BooksInv'
<1> USE DEF BooksInv
<1>1. PICK new \in Row :
        /\ Save(r, new)
        /\ new.status # requests[r].seen.status => new.status # "absent"
        /\ new.amount # requests[r].seen.amount => new.amount \in Amounts
  BY HandleSaves
<1>2. Busy(r)
  BY HandleSaves DEF Busy
<1>3. JournalInv'
  BY <1>1, <1>2, SaveHolds DEF Busy
<1> DEFINE e == requests[r].id
           row == Saved(expense[e], requests[r].seen, new)
           job == [expense |-> e, call |-> requests[r].call]
           J == {job}
<1>4. e \in Expenses /\ requests[r].seen \in Row /\ requests[r].call \in 1..MaxCalls
  BY <1>2 DEF JournalInv, LoadedOK, Busy
<1>5. expense[e] \in Row
  BY <1>4 DEF JournalInv, RowsOK
<1>6. /\ row \in Row
      /\ row.status = IF new.status # requests[r].seen.status THEN new.status ELSE expense[e].status
      /\ row.amount = IF new.amount # requests[r].seen.amount THEN new.amount ELSE expense[e].amount
  BY <1>4, <1>5, SavedIsRow
<1>7. /\ expense' = [expense EXCEPT ![e] = row]
      /\ jobs' = jobs \cup J
      /\ requests' = [requests EXCEPT ![r] = NoRequest]
      /\ UNCHANGED <<entries, workers, calls, raced>>
  BY <1>1 DEF Save
<1>8. job \in Job /\ job.expense = e /\ job.call = requests[r].call
  BY <1>4 DEF Job
<1> HIDE DEF row, job
<1>9. expense[e].status # "absent"
  BY <1>2 DEF AbsentOK
<1>10. row.status # "absent" /\ (expense[e].amount # 0 => row.amount # 0)
  BY <1>1, <1>6, <1>9
<1>11. /\ \A q \in Requests : q # r => requests'[q] = requests[q]
       /\ requests'[r] = NoRequest
       /\ expense'[e] = row
       /\ \A f \in Expenses : f # e => expense'[f] = expense[f]
  BY <1>4, <1>7 DEF JournalInv, RowsOK
<1>12. CallsOK'
  BY <1>2, <1>7, <1>8, <1>11 DEF CallsOK, Busy, Active
<1>13. AbsentOK'
  <2>1. /\ \A j \in jobs : j.expense \in Expenses
        /\ \A w \in Workers : Active(w) => workers[w].job.expense \in Expenses
        /\ \A q \in Requests : Busy(q) => requests[q].id \in Expenses
    BY DEF JournalInv, JobsOK, AttemptsOK, LoadedOK, Active, Busy, Job
  <2>2. \A f \in Expenses : expense[f].status # "absent" => expense'[f].status # "absent"
    BY <1>10, <1>11
  <2>3. \A j \in jobs' : expense'[j.expense].status # "absent"
    BY <1>7, <1>8, <1>10, <1>11, <2>1, <2>2 DEF AbsentOK
  <2>4. \A w \in Workers : Active(w)' => expense'[workers'[w].job.expense].status # "absent"
    BY <1>7, <2>1, <2>2 DEF AbsentOK, Active
  <2>5. \A q \in Requests : Busy(q)' => /\ expense'[requests'[q].id].status # "absent"
                                        /\ requests'[q].seen.status # "absent"
    BY <1>11, <2>1, <2>2 DEF AbsentOK, Busy
  <2>6. \A f \in Expenses : expense'[f].status = "absent" =>
          LiveEntries(f)' = {} /\ expense'[f].amount = 0
    BY <1>7, <1>10, <1>11 DEF AbsentOK, LiveEntries
  <2> QED  BY <2>3, <2>4, <2>5, <2>6 DEF AbsentOK
<1>14. ZeroOK' /\ FoundOK' /\ AloneOK' /\ OnlyOK' /\ BooksFollowExpense'
  <2>1. /\ UNCHANGED <<entries, workers, raced>> /\ J \subseteq Job /\ J # {}
        /\ \A j \in J : j.expense = e
    BY <1>7, <1>8
  <2>2. \A w \in Workers, j \in J : Active(w) => workers[w].job # j
    BY <1>2, <1>8 DEF CallsOK
  <2> HIDE DEF BooksInv, J, e
  <2> QED  BY <1>4, <1>6, <1>7, <1>10, <2>1, <2>2, ChangeBooks
<1> QED  BY <1>3, <1>12, <1>13, <1>14

(* The calls and the rows an attempt's step leaves as they are.              *)
LEMMA WorkerCalls ==
  ASSUME BooksInv, NEW w \in Workers,
         UNCHANGED <<expense, requests, calls>>, jobs' \subseteq jobs,
         \A v \in Workers : v # w => workers'[v] = workers[v],
         Active(w)' => \/ workers'[w].job \in jobs
                       \/ Active(w) /\ workers'[w].job = workers[w].job
  PROVE  /\ CallsOK'
         /\ (\A e \in Expenses : expense[e].status = "absent" => LiveEntries(e)' = {}) => AbsentOK'
<1>1. /\ \A v \in Workers : Active(v)' =>
           \/ workers'[v].job \in jobs
           \/ Active(v) /\ workers'[v].job = workers[v].job
      /\ \A r \in Requests : Busy(r)' <=> Busy(r)
  BY DEF Active, Busy
<1>2. CallsOK'
  BY <1>1 DEF BooksInv, CallsOK
<1>3. ASSUME \A e \in Expenses : expense[e].status = "absent" => LiveEntries(e)' = {}
      PROVE  AbsentOK'
  BY <1>1, <1>3 DEF BooksInv, AbsentOK
<1> QED  BY <1>2, <1>3

(* A step that leaves the entries alone leaves the books alone.              *)
LEMMA SameBooks ==
  ASSUME UNCHANGED entries
  PROVE  \A e : LiveEntries(e)' = LiveEntries(e) /\ Booked(e)' = Booked(e)
BY DEF LiveEntries, Booked

LEMMA ReadBooks ==
  ASSUME BooksInv, NEW w \in Workers, NEW j \in jobs, ReadExpense(w, j)
  PROVE  BooksInv'
<1> DEFINE e == j.expense
           new == [step |-> "find", job |-> j, seen |-> expense[e], entry |-> None]
<1>1. JournalInv'
  BY ReadHolds DEF BooksInv
<1>2. /\ workers[w].step = "idle"
      /\ workers' = [workers EXCEPT ![w] = new]
      /\ raced' = raced \cup {f \in {e} : \E v \in Workers : Working(v, f)}
      /\ UNCHANGED <<expense, entries, jobs, requests, calls>>
  <2>1. workers[w].step = "idle"
    BY DEF ReadExpense, IdleWorker
  <2>2. [IdleWorker EXCEPT !.job = j, !.seen = expense[e], !.step = "find"] = new
    BY TakenWorker
  <2>3. /\ workers' = [workers EXCEPT ![w] = new]
        /\ raced' = raced \cup {f \in {e} : \E v \in Workers : Working(v, f)}
        /\ UNCHANGED <<expense, entries, jobs, requests, calls>>
    BY <2>2, Zenon DEF ReadExpense
  <2> QED  BY <2>1, <2>3
<1>3. /\ \A v \in Workers : v # w => workers'[v] = workers[v]
      /\ workers'[w].step = "find" /\ workers'[w].job = j /\ workers'[w].seen = expense[e]
      /\ e \in Expenses
  BY <1>2 DEF BooksInv, JournalInv, WorkersOK, JobsOK, Job
<1>4. CallsOK' /\ AbsentOK'
  BY <1>2, <1>3, WorkerCalls, SameBooks DEF BooksInv, AbsentOK
<1>5. ZeroOK' /\ FoundOK'
  BY <1>2, <1>3, SameBooks DEF BooksInv, ZeroOK, FoundOK, Active
<1>6. e \notin raced' => \A v \in Workers : ~Working(v, e)
  BY <1>2
<1>7. /\ \A v \in Workers : v # w => \A f : Working(v, f)' <=> Working(v, f)
      /\ \A f : Working(w, f)' <=> f = e
      /\ \A f : Working(w, f) => FALSE
  BY <1>2, <1>3 DEF Working
<1>8. AloneOK'
  BY <1>2, <1>6, <1>7 DEF BooksInv, AloneOK
<1>9. OnlyOK'
  <2>1. AttemptOK(w)'
    BY <1>2, <1>3, SameBooks DEF AttemptOK, BooksInv, ZeroOK
  <2>2. ASSUME NEW v \in Workers, v # w, AttemptOK(v) PROVE AttemptOK(v)'
    BY <1>2, <1>3, <2>2, SameBooks DEF AttemptOK
  <2> QED  BY <1>2, <1>3, <2>1, <2>2 DEF BooksInv, OnlyOK, Active
<1>10. BooksFollowExpense'
  BY <1>2, <1>7, SameBooks DEF BooksInv, BooksFollowExpense, Unsynced
<1> QED  BY <1>1, <1>4, <1>5, <1>8, <1>9, <1>10 DEF BooksInv

LEMMA FindBooks ==
  ASSUME BooksInv, NEW w \in Workers, FindEntry(w)
  PROVE  BooksInv'
<1> DEFINE e == workers[w].job.expense
           seen == workers[w].seen
<1>1. JournalInv'
  BY FindHolds DEF BooksInv
<1>2. /\ workers[w].step = "find" /\ UNCHANGED <<expense, entries, jobs, requests, calls, raced>>
      /\ e \in Expenses /\ LiveEntries(e) \subseteq DOMAIN entries /\ None \notin DOMAIN entries
  BY NoneAssumption
     DEF FindEntry, BooksInv, JournalInv, AttemptsOK, EntriesOK, Job, LiveEntries
<1>3. /\ \A v \in Workers : v # w => workers'[v] = workers[v]
      /\ workers'[w].job = workers[w].job /\ workers'[w].seen = seen
      /\ \/ workers'[w].step = "done" /\ Journalised(seen) /\ seen.amount = 0
         \/ /\ workers'[w].step = "write"
            /\ workers'[w].entry \in (IF LiveEntries(e) = {} THEN {None} ELSE LiveEntries(e))
  <2>1. workers \in [Workers -> [step: {"idle", "find", "write", "done"}, job: Job \cup {None},
                                 seen: Row \cup {None}, entry: DOMAIN entries \cup {None}]]
    BY DEF BooksInv, JournalInv, WorkersOK
  <2>2. CASE Journalised(seen) /\ seen.amount = 0 /\ workers' = [workers EXCEPT ![w].step = "done"]
    BY <2>1, <2>2
  <2>3. ASSUME NEW k \in (IF LiveEntries(e) = {} THEN {None} ELSE LiveEntries(e)),
               workers' = [workers EXCEPT ![w].step = "write", ![w].entry = k]
        PROVE  <1>3
    <3>1. workers' = [workers EXCEPT ![w] = [workers[w] EXCEPT !.step = "write", !.entry = k]]
      BY <2>1, <2>3
    <3>2. workers' = [workers EXCEPT ![w] =
                        [step |-> "write", job |-> workers[w].job, seen |-> seen, entry |-> k]]
      <4>1. workers[w] \in [step: {"idle", "find", "write", "done"}, job: Job \cup {None},
                            seen: Row \cup {None}, entry: DOMAIN entries \cup {None}]
        BY <2>1
      <4>2. [workers[w] EXCEPT !.step = "write", !.entry = k]
            = [step |-> "write", job |-> workers[w].job, seen |-> workers[w].seen, entry |-> k]
        BY <4>1, FoundWorker, Zenon
      <4> QED  BY <3>1, <4>2
    <3> QED  BY <2>1, <2>3, <3>2
  <2> QED  BY <2>2, <2>3 DEF FindEntry
<1>4. CallsOK' /\ AbsentOK'
  BY <1>2, <1>3, WorkerCalls, SameBooks DEF BooksInv, AbsentOK, Active
<1>5. ZeroOK'
  BY <1>2, <1>3, SameBooks DEF BooksInv, ZeroOK, Active
<1>6. FoundOK'
  BY <1>2, <1>3 DEF BooksInv, FoundOK, LiveEntries
<1>7. \A v \in Workers : \A f : Working(v, f)' <=> Working(v, f)
  BY <1>2, <1>3 DEF Working
<1>8. AloneOK'
  BY <1>2, <1>7 DEF BooksInv, AloneOK
<1>9. OnlyOK'
  <2>1. ASSUME AttemptOK(w) PROVE AttemptOK(w)'
    <3>1. CASE workers'[w].step = "done"
      BY <1>2, <1>3, <2>1, <3>1, SameBooks DEF AttemptOK, Booked, Owed
    <3>2. CASE workers'[w].step = "write"
      <4>1. \A k, l \in LiveEntries(e) : k = l
        BY <1>2 DEF BooksInv, JournalInv, OneLiveEntry
      <4>2. LiveEntries(e) = {workers'[w].entry} \ {None}
        BY <1>2, <1>3, <3>2, <4>1
      <4> QED  BY <1>2, <1>3, <2>1, <3>2, <4>2, SameBooks DEF AttemptOK
    <3> QED  BY <1>3, <3>1, <3>2
  <2>2. ASSUME NEW v \in Workers, v # w, AttemptOK(v) PROVE AttemptOK(v)'
    BY <1>2, <1>3, <2>2, SameBooks DEF AttemptOK
  <2> QED  BY <1>2, <1>3, <2>1, <2>2 DEF BooksInv, OnlyOK, Active
<1>10. BooksFollowExpense'
  BY <1>2, <1>7, SameBooks DEF BooksInv, BooksFollowExpense, Unsynced
<1> QED  BY <1>1, <1>4, <1>5, <1>6, <1>8, <1>9, <1>10 DEF BooksInv

(* The attempt is over: its job posted, or left for another.                 *)
LEMMA FreeBooks ==
  ASSUME BooksInv, NEW w \in Workers, MarkPosted(w) \/ AttemptFails(w)
  PROVE  BooksInv'
<1> DEFINE e == workers[w].job.expense
<1>1. JournalInv'
  BY FreeWorkerHolds DEF BooksInv
<1>2. /\ Active(w) /\ workers' = [workers EXCEPT ![w] = IdleWorker]
      /\ UNCHANGED <<expense, entries, requests, calls, raced>>
      /\ \/ jobs' = jobs
         \/ workers[w].step = "done" /\ jobs' = jobs \ {workers[w].job}
      /\ e \in Expenses
  BY DEF MarkPosted, AttemptFails, Active, BooksInv, JournalInv, AttemptsOK, Job
<1>3. /\ \A v \in Workers : v # w => workers'[v] = workers[v]
      /\ workers'[w].step = "idle"
  BY <1>2 DEF BooksInv, JournalInv, WorkersOK, IdleWorker
<1>4. CallsOK' /\ AbsentOK'
  BY <1>2, <1>3, WorkerCalls, SameBooks DEF BooksInv, AbsentOK, Active
<1>5. ZeroOK' /\ FoundOK'
  BY <1>2, <1>3, SameBooks DEF BooksInv, ZeroOK, FoundOK, Active
<1>6. /\ \A v \in Workers : v # w => \A f : Working(v, f)' <=> Working(v, f)
      /\ \A f : ~Working(w, f)' /\ (Working(w, f) <=> f = e)
  BY <1>2, <1>3 DEF Working, Active
<1>7. AloneOK'
  BY <1>2, <1>6 DEF BooksInv, AloneOK
<1>8. \A j \in jobs : j.expense # e => j \in jobs'
  BY <1>2
<1>9. OnlyOK'
  <2>1. ASSUME NEW v \in Workers, Active(v)', workers'[v].job.expense \notin raced'
        PROVE  AttemptOK(v)'
    <3>1. v # w /\ Active(v) /\ workers'[v] = workers[v] /\ workers[v].job.expense \notin raced
      BY <1>2, <1>3, <2>1 DEF Active
    <3>2. AttemptOK(v) /\ workers[v].job.expense \in Expenses
      BY <3>1 DEF BooksInv, OnlyOK, Active, JournalInv, AttemptsOK, Job
    <3>3. workers[v].job.expense # e
      BY <1>2, <3>1, <3>2 DEF BooksInv, AloneOK, Working, Active
    <3> QED  BY <1>2, <1>8, <3>1, <3>2, <3>3, SameBooks DEF AttemptOK
  <2> QED  BY <2>1 DEF OnlyOK
<1>10. BooksFollowExpense'
  <2>1. ASSUME NEW f \in Expenses \ raced, f # e
        PROVE  Unsynced(f)' \/ Booked(f)' = Owed(expense'[f])
    <3>1. Booked(f)' = Booked(f) /\ expense' = expense
      BY <1>2, SameBooks
    <3>2. Unsynced(f) => Unsynced(f)'
      BY <1>6, <1>8, <2>1 DEF Unsynced
    <3> QED  BY <2>1, <3>1, <3>2 DEF BooksInv, BooksFollowExpense
  <2>2. ASSUME NEW f \in Expenses \ raced, f = e
        PROVE  Unsynced(f)' \/ Booked(f)' = Owed(expense'[f])
    <3>1. AttemptOK(w)
      BY <1>2, <2>2 DEF BooksInv, OnlyOK
    <3>2. CASE workers[w].job \in jobs'
      BY <1>2, <2>2, <3>2 DEF Unsynced
    <3>3. CASE workers[w].step = "done" /\ jobs' = jobs \ {workers[w].job}
      <4>1. Booked(f)' = Owed(workers[w].seen) /\ expense' = expense
        BY <1>2, <2>2, <3>1, <3>3, SameBooks DEF AttemptOK
      <4>2. CASE workers[w].seen = expense[f]
        BY <4>1, <4>2
      <4>3. CASE \E j \in jobs : j.expense = f /\ j # workers[w].job
        BY <3>3, <4>3 DEF Unsynced
      <4> QED  BY <2>2, <3>1, <4>2, <4>3 DEF AttemptOK
    <3> QED  BY <1>2, <3>1, <3>2, <3>3 DEF AttemptOK
  <2> HIDE DEF e
  <2>3. \A f \in Expenses \ raced : Unsynced(f)' \/ Booked(f)' = Owed(expense'[f])
    BY <1>2, <2>1, <2>2
  <2> QED  BY <1>2, <2>3 DEF BooksFollowExpense, Owed, Journalised
<1> QED  BY <1>1, <1>4, <1>5, <1>7, <1>9, <1>10 DEF BooksInv

(* What a write does to the live entries: nothing to another expense's, and *)
(* to its own what AttemptOK says, when it found what there is.             *)
LEMMA WriteEntries ==
  ASSUME BooksInv, NEW w \in Workers, Write(w),
         NEW e \in Expenses, e = workers[w].job.expense
  PROVE  /\ DOMAIN entries \subseteq DOMAIN entries'
         /\ \A k \in DOMAIN entries : entries'[k].expense = entries[k].expense
         /\ \A f : f # e => LiveEntries(f)' = LiveEntries(f) /\ Booked(f)' = Booked(f)
         /\ LiveEntries(e) = {} /\ workers[w].seen.amount = 0 => LiveEntries(e)' = {}
         /\ LiveEntries(e) = {workers[w].entry} \ {None} => Booked(e)' = Owed(workers[w].seen)
<1> DEFINE seen == workers[w].seen
           n == Len(entries) + 1
           Kept == /\ DOMAIN entries \subseteq DOMAIN entries'
                   /\ \A k \in DOMAIN entries : entries'[k].expense = entries[k].expense
                   /\ \A f : f # e => LiveEntries(f)' = LiveEntries(f) /\ Booked(f)' = Booked(f)
                   /\ LiveEntries(e) = {} /\ workers[w].seen.amount = 0 => LiveEntries(e)' = {}
           Done == LiveEntries(e) = {workers[w].entry} \ {None} => Booked(e)' = Owed(workers[w].seen)
<1>1. /\ entries \in Seq(Entry) /\ None \notin DOMAIN entries /\ seen \in Row
      /\ workers[w].entry \in DOMAIN entries \cup {None}
      /\ workers[w].entry # None => entries[workers[w].entry].expense = e
  BY NoneAssumption
     DEF BooksInv, JournalInv, EntriesOK, AttemptsOK, WorkersOK, FoundOK, Write
<1>2. CASE entries' = entries
  <2>1. Kept
    BY <1>2, SameBooks
  <2>2. ASSUME LiveEntries(e) = {workers[w].entry} \ {None} PROVE Booked(e)' = Owed(seen)
    <3>1. CASE ~Journalised(seen) /\ workers[w].entry = None
      BY <1>2, <2>2, <3>1, SameBooks DEF Booked, Owed
    <3>2. CASE Journalised(seen) /\ workers[w].entry = None
      <4>1. LiveEntries(e) = {} /\ PostEntry(e, seen.amount)
        BY <2>2, <3>2 DEF Write
      <4>2. entries' = Append(entries, [expense |-> e, live |-> TRUE, amount |-> seen.amount])
        BY <4>1 DEF PostEntry
      <4>3. Len(entries') = Len(entries) + 1
        BY <1>1, <4>2
      <4> QED  BY <1>1, <1>2, <4>3
    <3>3. CASE workers[w].entry # None
      <4>1. workers[w].entry \in LiveEntries(e)
        BY <2>2, <3>3
      <4>2. workers[w].entry \in DOMAIN entries /\ entries[workers[w].entry].live
        BY <4>1 DEF LiveEntries
      <4>3. CASE ~Journalised(seen)
        <5>1. entries' = [entries EXCEPT ![workers[w].entry].live = FALSE]
          BY <3>3, <4>3 DEF Write, RemoveEntry
        <5>2. entries[workers[w].entry] \in Entry
          BY <1>1, <4>2
        <5>3. entries'[workers[w].entry].live = FALSE
          BY <4>2, <5>1, <5>2 DEF Entry
        <5> QED  BY <1>2, <4>2, <5>3
      <4>4. CASE Journalised(seen)
        <5>1. entries' = [entries EXCEPT ![workers[w].entry].amount = seen.amount]
          BY <3>3, <4>2, <4>4 DEF Write, RewriteEntry
        <5>2. entries[workers[w].entry] \in Entry
          BY <1>1, <4>2
        <5>3. entries'[workers[w].entry].amount = seen.amount
          BY <4>2, <5>1, <5>2 DEF Entry
        <5>4. entries[workers[w].entry].amount = seen.amount /\ seen.amount # 0
          BY <1>2, <5>2, <5>3 DEF Entry
        <5>5. Booked(e) = {seen.amount}
          BY <2>2, <3>3, <5>4 DEF Booked
        <5> QED  BY <1>2, <4>4, <5>4, <5>5, SameBooks DEF Owed
      <4> QED  BY <4>3, <4>4
    <3> QED  BY <3>1, <3>2, <3>3
  <2> QED  BY <2>1, <2>2
<1>3. CASE /\ Journalised(seen) /\ seen.amount \in Amounts \ {0} /\ LiveEntries(e) = {}
           /\ entries' = Append(entries, [expense |-> e, live |-> TRUE, amount |-> seen.amount])
  <2> DEFINE new == [expense |-> e, live |-> TRUE, amount |-> seen.amount]
  <2>1. new \in Entry /\ new.expense = e /\ new.live /\ new.amount = seen.amount
    BY <1>3 DEF Entry
  <2> HIDE DEF new
  <2>2. /\ DOMAIN entries' = DOMAIN entries \cup {n} /\ n \notin DOMAIN entries
        /\ entries'[n] = new /\ \A k \in DOMAIN entries : entries'[k] = entries[k]
    BY <1>1, <1>3, <2>1 DEF new
  <2>3. \A f : f # e => LiveEntries(f)' = LiveEntries(f)
    BY <2>1, <2>2 DEF LiveEntries
  <2>4. \A f : f # e => Booked(f)' = Booked(f)
    BY <2>2, <2>3 DEF Booked, LiveEntries
  <2>5. LiveEntries(e)' = {n}
    BY <1>3, <2>1, <2>2 DEF LiveEntries
  <2>6. Booked(e)' = {seen.amount}
    BY <2>1, <2>2, <2>5 DEF Booked
  <2> QED  BY <1>3, <2>2, <2>3, <2>4, <2>6 DEF Owed
<1>4. ASSUME NEW k \in DOMAIN entries, workers[w].entry = k, entries[k].live,
             NEW changed \in Entry, changed.expense = entries[k].expense,
             entries' = [entries EXCEPT ![k] = changed],
             IF Journalised(seen) THEN changed.live /\ changed.amount = seen.amount /\ seen.amount # 0
                                  ELSE ~changed.live
      PROVE  Kept /\ Done
  <2>1. /\ DOMAIN entries' = DOMAIN entries
        /\ \A l \in DOMAIN entries : entries'[l] = IF l = k THEN changed ELSE entries[l]
    BY <1>1, <1>4
  <2>2. entries[k].expense = e /\ k # None /\ k \in LiveEntries(e)
    BY <1>1, <1>4 DEF LiveEntries
  <2>3. \A f : f # e => LiveEntries(f)' = LiveEntries(f)
    BY <1>4, <2>1, <2>2 DEF LiveEntries
  <2>4. \A f : f # e => k \notin LiveEntries(f)
    BY <2>2 DEF LiveEntries
  <2>5. \A f : f # e => Booked(f)' = Booked(f)
    BY <2>1, <2>3, <2>4 DEF Booked, LiveEntries
  <2>6. ASSUME LiveEntries(e) = {k} PROVE Booked(e)' = Owed(seen)
    <3>1. LiveEntries(e)' = IF changed.live THEN {k} ELSE {}
      BY <1>4, <2>1, <2>2, <2>6 DEF LiveEntries
    <3> QED  BY <1>4, <2>1, <3>1 DEF Booked, Owed
  <2> QED  BY <1>4, <2>1, <2>2, <2>3, <2>5, <2>6
<1>5. ASSUME NEW k \in DOMAIN entries, workers[w].entry = k, entries[k].live, Journalised(seen),
             seen.amount \in Amounts \ {0}, entries' = [entries EXCEPT ![k].amount = seen.amount]
      PROVE  Kept /\ Done
  <2>1. entries[k] \in Entry
    BY <1>1
  <2> DEFINE changed == [entries[k] EXCEPT !.amount = seen.amount]
  <2>2. /\ changed \in Entry /\ changed.expense = entries[k].expense
        /\ changed.live /\ changed.amount = seen.amount /\ seen.amount # 0
    BY <1>5, <2>1 DEF Entry
  <2>3. entries' = [entries EXCEPT ![k] = changed]
    BY <1>5
  <2> HIDE DEF changed, Kept, Done
  <2> QED  BY <1>4, <1>5, <2>2, <2>3
<1>6. ASSUME NEW k \in DOMAIN entries, workers[w].entry = k, entries[k].live, ~Journalised(seen),
             entries' = [entries EXCEPT ![k].live = FALSE]
      PROVE  Kept /\ Done
  <2>1. entries[k] \in Entry
    BY <1>1
  <2> DEFINE changed == [entries[k] EXCEPT !.live = FALSE]
  <2>2. changed \in Entry /\ changed.expense = entries[k].expense /\ ~changed.live
    BY <2>1 DEF Entry
  <2>3. entries' = [entries EXCEPT ![k] = changed]
    BY <1>6
  <2> HIDE DEF changed, Kept, Done
  <2> QED  BY <1>4, <1>6, <2>2, <2>3
<1>7. CASE \E k \in DOMAIN entries :
             /\ workers[w].entry = k /\ entries[k].live
             /\ \/ /\ Journalised(seen) /\ seen.amount \in Amounts \ {0}
                   /\ entries' = [entries EXCEPT ![k].amount = seen.amount]
                \/ /\ ~Journalised(seen)
                   /\ entries' = [entries EXCEPT ![k].live = FALSE]
  <2> HIDE DEF Kept, Done, seen
  <2>1. Kept /\ Done
    BY <1>5, <1>6, <1>7
  <2> QED  BY <2>1 DEF Kept, Done, seen
<1>8. \/ entries' = entries
      \/ /\ Journalised(seen) /\ seen.amount \in Amounts \ {0}
         /\ LiveEntries(workers[w].job.expense) = {}
         /\ entries' = Append(entries, [expense |-> workers[w].job.expense, live |-> TRUE,
                                        amount |-> seen.amount])
      \/ \E k \in DOMAIN entries :
           /\ workers[w].entry = k /\ entries[k].live
           /\ \/ /\ Journalised(seen) /\ seen.amount \in Amounts \ {0}
                 /\ entries' = [entries EXCEPT ![k].amount = seen.amount]
              \/ /\ ~Journalised(seen)
                 /\ entries' = [entries EXCEPT ![k].live = FALSE]
  BY WriteEffect DEF BooksInv
<1>9. e = workers[w].job.expense
  OBVIOUS
<1> HIDE DEF seen
<1> QED  BY <1>2, <1>3, <1>7, <1>8, <1>9

LEMMA WriteBooks ==
  ASSUME BooksInv, NEW w \in Workers, Write(w)
  PROVE  BooksInv'
<1>1. JournalInv'
  BY WriteHolds DEF BooksInv
<1>2. PICK e \in Expenses : e = workers[w].job.expense
  BY DEF Write, BooksInv, JournalInv, AttemptsOK, Job
<1>3. /\ Active(w) /\ workers[w].step = "write"
      /\ UNCHANGED <<expense, jobs, requests, calls, raced>>
      /\ workers' = [workers EXCEPT ![w].step = "done"]
      /\ expense[e].status # "absent"
  BY <1>2 DEF Write, Active, BooksInv, AbsentOK
<1>4. /\ \A v \in Workers : v # w => workers'[v] = workers[v]
      /\ workers'[w].step = "done" /\ workers'[w].job = workers[w].job
      /\ workers'[w].seen = workers[w].seen
  <2>1. workers[w] \in [step: {"idle", "find", "write", "done"}, job: Job \cup {None},
                        seen: Row \cup {None}, entry: DOMAIN entries \cup {None}]
    BY DEF BooksInv, JournalInv, WorkersOK
  <2>2. /\ [workers[w] EXCEPT !.step = "done"].step = "done"
        /\ [workers[w] EXCEPT !.step = "done"].job = workers[w].job
        /\ [workers[w] EXCEPT !.step = "done"].seen = workers[w].seen
    BY <2>1
  <2>3. workers' = [workers EXCEPT ![w] = [workers[w] EXCEPT !.step = "done"]]
    BY <1>3
  <2> QED  BY <2>2, <2>3 DEF BooksInv, JournalInv, WorkersOK
<1>5. /\ DOMAIN entries \subseteq DOMAIN entries'
      /\ \A k \in DOMAIN entries : entries'[k].expense = entries[k].expense
      /\ \A f : f # e => LiveEntries(f)' = LiveEntries(f) /\ Booked(f)' = Booked(f)
      /\ LiveEntries(e) = {} /\ workers[w].seen.amount = 0 => LiveEntries(e)' = {}
      /\ LiveEntries(e) = {workers[w].entry} \ {None} => Booked(e)' = Owed(workers[w].seen)
  BY <1>2, WriteEntries
<1>6. CallsOK' /\ AbsentOK'
  BY <1>3, <1>4, <1>5, WorkerCalls DEF BooksInv, AbsentOK
<1>7. ZeroOK'
  BY <1>2, <1>3, <1>4, <1>5 DEF BooksInv, ZeroOK, Active
<1>8. FoundOK'
  BY <1>3, <1>4, <1>5 DEF BooksInv, FoundOK, JournalInv, WorkersOK
<1>9. \A v \in Workers : \A f : Working(v, f)' <=> Working(v, f)
  BY <1>3, <1>4 DEF Working, Active
<1>10. AloneOK'
  BY <1>3, <1>9 DEF BooksInv, AloneOK
<1>11. OnlyOK'
  <2>1. ASSUME AttemptOK(w) PROVE AttemptOK(w)'
    <3>1. LiveEntries(e) = {workers[w].entry} \ {None}
      BY <1>2, <1>3, <2>1 DEF AttemptOK
    <3>2. Booked(e)' = Owed(workers[w].seen) /\ e = workers'[w].job.expense
      BY <1>2, <1>4, <1>5, <3>1
    <3>3. Booked(workers[w].job.expense)' = Owed(workers[w].seen)
      BY <3>2 DEF Booked, LiveEntries
    <3>4. Owed(workers[w].seen)' = Owed(workers[w].seen)
      BY <1>4 DEF Owed, Journalised
    <3> QED  BY <1>3, <1>4, <2>1, <3>3, <3>4 DEF AttemptOK
  <2>2. ASSUME NEW v \in Workers, v # w, Active(v), workers[v].job.expense \notin raced
        PROVE  AttemptOK(v)'
    <3>1. AttemptOK(v) /\ workers[v].job.expense \in Expenses
      BY <2>2 DEF BooksInv, OnlyOK, JournalInv, AttemptsOK, Job, Active
    <3>2. PICK f \in Expenses : f = workers[v].job.expense
      BY <3>1
    <3>3. f # e
      BY <1>2, <1>3, <2>2, <3>2 DEF BooksInv, AloneOK, Working, Active
    <3>4. /\ LiveEntries(f)' = LiveEntries(f) /\ Booked(f)' = Booked(f)
          /\ workers'[v] = workers[v] /\ jobs' = jobs /\ expense' = expense
      BY <1>3, <1>4, <1>5, <2>2, <3>3
    <3>5. f = workers'[v].job.expense
      BY <3>2, <3>4
    <3>6. LiveEntries(workers[v].job.expense)' = LiveEntries(workers[v].job.expense)
      BY <3>2, <3>4, <3>5 DEF LiveEntries
    <3>7. Booked(workers[v].job.expense)' = Booked(workers[v].job.expense)
      BY <3>2, <3>4, <3>5 DEF Booked, LiveEntries
    <3> QED  BY <3>1, <3>4, <3>6, <3>7 DEF AttemptOK
  <2> QED  BY <1>3, <1>4, <2>1, <2>2 DEF BooksInv, OnlyOK, Active
<1>12. BooksFollowExpense'
  <2>1. \A f \in Expenses : Unsynced(f) => Unsynced(f)'
    BY <1>3, <1>9 DEF Unsynced
  <2>2. Unsynced(e)
    BY <1>2, <1>3 DEF Unsynced, Working, Active
  <2>3. ASSUME NEW f \in Expenses \ raced PROVE Unsynced(f)' \/ Booked(f)' = Owed(expense[f])
    BY <1>5, <2>1, <2>2 DEF BooksInv, BooksFollowExpense
  <2> QED  BY <1>3, <2>3 DEF BooksFollowExpense, Owed, Journalised
<1> QED  BY <1>1, <1>6, <1>7, <1>8, <1>10, <1>11, <1>12 DEF BooksInv

LEMMA NextBooks == 0 \notin Amounts => (BooksInv /\ [Next]_vars => BooksInv')
<1> SUFFICES ASSUME 0 \notin Amounts, BooksInv, [Next]_vars PROVE BooksInv'
  OBVIOUS
<1>1. CASE Next
  BY <1>1, CreateBooks, LoadBooks, HandleBooks, ReadBooks, FindBooks, WriteBooks, FreeBooks DEF Next
<1>2. CASE UNCHANGED vars
  <2>1. UNCHANGED <<expense, entries, jobs, requests, workers, calls, raced>>
    BY <1>2 DEF vars
  <2>2. \A f : LiveEntries(f)' = LiveEntries(f) /\ Booked(f)' = Booked(f) /\ Unsynced(f)' = Unsynced(f)
    BY <2>1 DEF LiveEntries, Booked, Unsynced, Working
  <2>3. JournalInv'
    BY <2>1 DEF BooksInv, JournalInv, RowsOK, JobsOK, EntriesOK, WorkersOK, LoadedOK, AttemptsOK,
                OneLiveEntry, LiveEntries, Journalised
  <2>4. (CallsOK /\ AbsentOK /\ ZeroOK /\ FoundOK /\ AloneOK)'
    BY <2>1, <2>2 DEF BooksInv, CallsOK, AbsentOK, ZeroOK, FoundOK, AloneOK, Busy, Active, Working
  <2>5. \A w \in Workers : AttemptOK(w)' = AttemptOK(w)
    BY <2>1, <2>2 DEF AttemptOK
  <2>6. (OnlyOK /\ BooksFollowExpense)'
    BY <2>1, <2>2, <2>5 DEF BooksInv, OnlyOK, BooksFollowExpense, Active
  <2> QED  BY <2>3, <2>4, <2>6 DEF BooksInv
<1> QED  BY <1>1, <1>2

-----------------------------------------------------------------------------
(* Every row, entry, job, request and attempt stays in its type: what the   *)
(* handlers of expense.js write from stale rows is still a row.             *)
THEOREM ExpenseTypeCorrect == Spec => []TypeOK
<1>1. JournalInv => TypeOK
  BY DEF JournalInv, TypeOK, RowsOK, JobsOK, EntriesOK, Entry, WorkersOK
<1> QED  BY <1>1, JournalInvHolds, PTL

(* An expense is in the books once, however many attempts at its jobs run   *)
(* at once: createJournalEntry looks again under the counter lock.          *)
THEOREM BookedOnceEach == Spec => []OneLiveEntry
<1>1. JournalInv => OneLiveEntry
  BY DEF JournalInv
<1> QED  BY <1>1, JournalInvHolds, PTL

(* What syncExpenseJournalFromState removed from the books is never written *)
(* again, though another attempt may hold the entry from before.            *)
THEOREM RemovedForGood == Spec => RemovedStays
<1>1. Spec => [][\A k \in DOMAIN entries : ~entries[k].live => entries'[k] = entries[k]]_vars
  BY RemovedStep, JournalInvHolds, PTL DEF Spec
<1> QED  BY <1>1 DEF RemovedStays

(* Where no amount entered is zero, an expense whose attempts never         *)
(* overlapped is in the books as it stands now, or a job is left that will  *)
(* see to it: no handler and no failed attempt loses a change.              *)
THEOREM BooksRight == 0 \notin Amounts => (Spec => []BooksFollowExpense)
<1> SUFFICES ASSUME 0 \notin Amounts PROVE Spec => []BooksFollowExpense
  OBVIOUS
<1>1. BooksInv /\ [Next]_vars => BooksInv'
  BY NextBooks
<1>2. BooksInv => BooksFollowExpense
  BY DEF BooksInv
<1> QED  BY InitBooks, <1>1, <1>2, PTL DEF Spec
===============================================================================

--------------------------- MODULE RecurringExpense ---------------------------
(***************************************************************************)
(* The recurring expense job (service/expenseScheduler.js) under the       *)
(* scheduler lease it takes, with the request that marks a template as     *)
(* paid (expense.js markPaid), which moves the same due date unlocked.     *)
(*                                                                         *)
(* A run reads the most overdue templates once, then creates one expense   *)
(* per due date, each in a transaction that also saves the next due date   *)
(* of the instance it read.  The journal entry of the new expense is       *)
(* posted in a transaction of its own, so that it stays when the expense   *)
(* is rolled back; and a transaction that fails ends the whole run.        *)
(***************************************************************************)
EXTENDS SchedulerLease, FiniteSets, Functions

CONSTANTS
  Templates,
  HandPaid,     \* templates staff mark as paid
  Clerks,       \* requests that mark one of them as paid
  Period,       \* per template, days from one due date to the next
  EndDate,      \* recurringEndDate of every template
  LastDay,      \* bound on the calendar
  BatchLimit,   \* MAX_TEMPLATES_PER_TICK
  PerTemplate,  \* MAX_GENERATIONS_PER_TEMPLATE
  MaxCopies,    \* bound on the expenses generated for one date
  MaxCrashes,
  MaxRollbacks, \* bound on the runs ended by an error
  MaxUnposted   \* bound on the postings that fail

ASSUME RecurringAssumption ==
  /\ HandPaid \subseteq Templates /\ Period \in [Templates -> Nat \ {0}]
  /\ IsFiniteSet(Templates) /\ Nobody \notin Templates /\ EndDate \in Nat
  /\ \A n \in {LastDay, BatchLimit, PerTemplate, MaxCopies} : n \in Nat \ {0}
  /\ MaxCrashes \in Nat /\ MaxRollbacks \in Nat /\ MaxUnposted \in Nat

VARIABLES
  today,
  nextDue,     \* per template, nextDueDate
  children,    \* per template and date, the expenses generated
  entries,     \* per template and date, the journal entries posted for them
  payments,    \* per template, the due dates marked as paid
  run,         \* per process, the run it has under way
  clerk,       \* per request, the template it loaded and what it read
  crashes,
  rollbacks,   \* runs an error has ended
  unposted     \* expenses committed without their entry, posting having failed

accidents == <<crashes, rollbacks, unposted>>
rvars == <<today, nextDue, children, entries, payments, run, clerk, accidents>>
allvars == <<vars, rvars>>

NoDate == 0
FirstDate == 1      \* the date of the template itself
Dates == FirstDate..LastDay
NoRun == [read |-> FALSE, asOf |-> 0, todo |-> {}, tpl |-> Nobody, due |-> NoDate, made |-> 0]
NotYet == [tpl |-> Nobody, due |-> NoDate, done |-> FALSE]

(* The first due date is set without a look at the end date. *)
DueDates(t) == (0..EndDate) \cup {FirstDate + Period[t]}

RecurringTypeOK ==
  /\ TypeOK
  /\ today \in Dates
  /\ nextDue \in [Templates -> Nat] /\ \A t \in Templates : nextDue[t] \in DueDates(t)
  /\ children \in [Templates -> [Dates -> 0..MaxCopies]]
  /\ entries \in [Templates -> [Dates -> 0..(MaxCopies + MaxCrashes + MaxRollbacks)]]
  /\ payments \in [Templates -> SUBSET Nat]
  /\ run \in [Processes -> [read: BOOLEAN, asOf: 0..LastDay, todo: SUBSET (Templates \X (Nat \ {NoDate})),
                            tpl: Templates \cup {Nobody}, due: Nat, made: 0..PerTemplate]]
  /\ clerk \in [Clerks -> [tpl: Templates \cup {Nobody}, due: Nat, done: BOOLEAN]]
  /\ crashes \in 0..MaxCrashes /\ rollbacks \in 0..MaxRollbacks /\ unposted \in 0..MaxUnposted

(* Mutant: only the calendar, whatever the end date. *)
AfterForEver(t, d) == IF d + Period[t] > LastDay THEN NoDate ELSE d + Period[t]

(* addInterval, and null past the end date. *)
After(t, d) == IF d + Period[t] > EndDate THEN NoDate ELSE d + Period[t]

Due(t) == nextDue[t] # NoDate /\ nextDue[t] <= today

InitR ==
  /\ Init
  /\ today = FirstDate
  /\ nextDue = [t \in Templates |-> FirstDate + Period[t]]
  /\ children = [t \in Templates |-> [d \in Dates |-> 0]]
  /\ entries = [t \in Templates |-> [d \in Dates |-> 0]]
  /\ payments = [t \in Templates |-> {}]
  /\ run = [p \in Processes |-> NoRun]
  /\ clerk = [c \in Clerks |-> NotYet]
  /\ crashes = 0 /\ rollbacks = 0 /\ unposted = 0

(* The batches ORDER BY nextDueDate LIMIT may return. *)
Batches ==
  LET due == {t \in Templates : Due(t)}
  IN {B \in SUBSET due :
        /\ Cardinality(B) <= BatchLimit
        /\ Cardinality(B) < BatchLimit => B = due
        /\ \A t \in B, u \in due \ B : nextDue[t] <= nextDue[u]}

(* findAll, once per run. *)
ReadTemplates(p) ==
  /\ Working(p) /\ ~run[p].read
  /\ \E B \in Batches :
       run' = [run EXCEPT ![p] = [NoRun EXCEPT !.read = TRUE, !.asOf = today,
                                               !.todo = {<<t, nextDue[t]>> : t \in B}]]
  /\ UNCHANGED <<vars, today, nextDue, children, entries, payments, clerk, accidents>>

(* The loop takes the next template, the most overdue first. *)
TakeTemplate(p) ==
  /\ Working(p) /\ run[p].tpl = Nobody
  /\ \E x \in run[p].todo :
       /\ \A y \in run[p].todo : x[2] <= y[2]
       /\ run' = [run EXCEPT ![p].todo = @ \ {x}, ![p].tpl = x[1], ![p].due = x[2], ![p].made = 0]
  /\ UNCHANGED <<vars, today, nextDue, children, entries, payments, clerk, accidents>>

(* Mutant: a date is due the day after. *)
MoreToMakeLater(p) == run[p].due # NoDate /\ run[p].due < run[p].asOf /\ run[p].made < PerTemplate

(* The condition of the inner loop. *)
MoreToMake(p) == run[p].due # NoDate /\ run[p].due <= run[p].asOf /\ run[p].made < PerTemplate

(* Mutant: saved from the row, not from the instance. *)
SavedDueReloaded(t, d) == IF nextDue[t] = NoDate THEN NoDate ELSE After(t, nextDue[t])

(* tpl.save(): the instance's date, whatever the row holds. *)
SavedDue(t, d) == After(t, d)

(* Mutant: posted inside and outside the transaction. *)
EntriesWithTwo(t, d, posted) == [entries EXCEPT ![t][d] = @ + 2]

(* The entry, or nothing when posting failed. *)
EntriesWith(t, d, posted) == [entries EXCEPT ![t][d] = @ + (IF posted THEN 1 ELSE 0)]

(* One transaction: the expense and the template's next due date.  A       *)
(* failure to post the entry is swallowed.                                 *)
Generate(p, posted) ==
  LET t == run[p].tpl
      d == run[p].due
  IN /\ Working(p) /\ t # Nobody /\ MoreToMake(p)
     /\ children[t][d] < MaxCopies /\ (posted \/ unposted < MaxUnposted)
     /\ children' = [children EXCEPT ![t][d] = @ + 1]
     /\ entries' = EntriesWith(t, d, posted)
     /\ nextDue' = [nextDue EXCEPT ![t] = SavedDue(t, d)]
     /\ run' = [run EXCEPT ![p].due = After(t, d), ![p].made = @ + 1]
     /\ unposted' = unposted + (IF posted THEN 0 ELSE 1)
     /\ UNCHANGED <<vars, today, payments, clerk, crashes, rollbacks>>

LeaveTemplate(p) ==
  /\ Working(p) /\ run[p].tpl # Nobody /\ ~MoreToMake(p)
  /\ run' = [run EXCEPT ![p].tpl = Nobody, ![p].due = NoDate, ![p].made = 0]
  /\ UNCHANGED <<vars, today, nextDue, children, entries, payments, clerk, accidents>>

(* The whole batch is done. *)
EndRun(p) ==
  /\ run[p].read /\ run[p].tpl = Nobody /\ run[p].todo = {}
  /\ Finish(p)
  /\ run' = [run EXCEPT ![p] = NoRun]
  /\ UNCHANGED <<today, nextDue, children, entries, payments, clerk, accidents>>

(* The run of p is gone.  A transaction it had open is rolled back, though *)
(* the journal entry may have been posted before.                          *)
Abandon(p, orphan) ==
  LET t == run[p].tpl
      d == run[p].due
  IN /\ orphan => t # Nobody /\ MoreToMake(p)
     /\ entries' = IF orphan THEN [entries EXCEPT ![t][d] = @ + 1] ELSE entries
     /\ run' = [run EXCEPT ![p] = NoRun]
     /\ UNCHANGED <<today, nextDue, children, payments, clerk, unposted>>

(* A query, the template's save or a commit fails: the error leaves both   *)
(* loops and is caught around the whole run.                               *)
Fail(p, orphan) ==
  /\ rollbacks < MaxRollbacks
  /\ Finish(p)
  /\ Abandon(p, orphan)
  /\ rollbacks' = rollbacks + 1
  /\ UNCHANGED crashes

(* The process dies. *)
Die(s, orphan) ==
  /\ crashes < MaxCrashes
  /\ Crash(s)
  /\ Abandon(s, orphan)
  /\ crashes' = crashes + 1
  /\ UNCHANGED rollbacks

(* markPaid: the expense is loaded. *)
LoadForPayment(c, t) ==
  /\ clerk[c].tpl = Nobody
  /\ clerk' = [clerk EXCEPT ![c].tpl = t, ![c].due = nextDue[t]]
  /\ UNCHANGED <<vars, today, nextDue, children, entries, payments, run, accidents>>

(* markPaid: a payment, and the due date after the one that was read; an   *)
(* ended template starts again from its own date.  The update writes only  *)
(* what differs from the instance.                                         *)
MarkPaid(c) ==
  LET t == clerk[c].tpl
      read == clerk[c].due
      after == After(t, IF read = NoDate THEN FirstDate ELSE read)
  IN /\ t # Nobody /\ ~clerk[c].done
     /\ payments' = [payments EXCEPT ![t] = @ \cup {read}]
     /\ nextDue' = [nextDue EXCEPT ![t] = IF after = read THEN @ ELSE after]
     /\ clerk' = [clerk EXCEPT ![c].done = TRUE]
     /\ UNCHANGED <<vars, today, children, entries, run, accidents>>

NewDay ==
  /\ today < LastDay
  /\ today' = today + 1
  /\ UNCHANGED <<vars, nextDue, children, entries, payments, run, clerk, accidents>>

(* The lease and its timers; a run begins when one is acquired. *)
LeaseStep ==
  /\ \/ \E s \in Servers : Start(s) \/ Tick(s)
     \/ \E c \in Crons : CronCall(c)
     \/ TimePasses
  /\ UNCHANGED rvars

RunStep(p) ==
  \/ ReadTemplates(p) \/ TakeTemplate(p) \/ LeaveTemplate(p) \/ EndRun(p)
  \/ \E posted \in BOOLEAN : Generate(p, posted)

NextR ==
  \/ LeaseStep
  \/ \E p \in Processes : RunStep(p)
  \/ \E p \in Processes, orphan \in BOOLEAN : Fail(p, orphan)
  \/ \E s \in Servers, orphan \in BOOLEAN : Die(s, orphan)
  \/ \E c \in Clerks, t \in HandPaid : LoadForPayment(c, t)
  \/ \E c \in Clerks : MarkPaid(c)
  \/ NewDay

SpecR == InitR /\ [][NextR]_allvars

(* Time passes, timers fire, a run goes on. *)
FairSpecR ==
  /\ SpecR
  /\ WF_allvars(TimePasses /\ UNCHANGED rvars)
  /\ \A s \in Servers : WF_allvars(Tick(s) /\ UNCHANGED rvars)
  /\ \A p \in Processes : WF_allvars(RunStep(p))

-----------------------------------------------------------------------------
Schedule(t) == {d \in Dates : d > FirstDate /\ d <= EndDate /\ (d - FirstDate) % Period[t] = 0}

(* Per template and date, how many more there are of one than of the other. *)
Excess(more, less) ==
  [x \in Templates \X Dates |->
     IF more[x[1]][x[2]] > less[x[1]][x[2]] THEN more[x[1]][x[2]] - less[x[1]][x[2]] ELSE 0]

(* No due date is lost: whoever moves a template past a date, from however *)
(* old a copy of the row, has generated its expense or recorded a payment. *)
NothingSkipped ==
  \A t \in Templates : \A d \in Schedule(t) :
    (nextDue[t] = NoDate \/ d < nextDue[t]) => children[t][d] > 0 \/ d \in payments[t]

(* A template only the job moves gets one expense per date, with several   *)
(* servers and the cron endpoint, while a run ends within its lease.       *)
OncePerDueDate ==
  \A t \in Templates \ HandPaid : \A d \in Dates : children[t][d] <= 1

(* The books and the expenses differ by no more than the accidents: an     *)
(* entry without its expense is left by a crash or by an error that rolled *)
(* the expense back, an expense without its entry by a failed posting.     *)
EntriesMatchExpenses ==
  /\ SumFunction(Excess(entries, children)) <= crashes + rollbacks
  /\ SumFunction(Excess(children, entries)) <= unposted

(* Whatever is due is generated in the end, however many templates there   *)
(* are to a batch and expenses to a template, while some server stays up   *)
(* and the runs that end in an error come to an end.                       *)
DueIsGenerated ==
  (\E s \in Servers : <>[]up[s]) => \A t \in Templates : []<>~Due(t)

(* "no duplicate processing", for every template.                          *)
NoDuplicates ==
  \A t \in Templates : \A d \in Dates : children[t][d] <= 1
==============================================================================

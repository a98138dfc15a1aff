------------------------ MODULE RecurringExpenseProofs ------------------------
(***************************************************************************)
(* Theorems of the scheduler lease and of the recurring expense job under  *)
(* it, for any servers, cron callers, templates, clerks, periods and       *)
(* limits.                                                                 *)
(***************************************************************************)
EXTENDS RecurringExpense, SumTheorems

(* The lease excludes concurrent runs for any servers, callers, intervals  *)
(* and leases, as long as no run outlasts the lease it took.               *)

TtlOf(p) == IF p \in Servers THEN Ttl ELSE CronTtl

(* Whoever works holds the lease, and has used it for as long as it works. *)
WorkerHolds ==
  \A p \in Processes : Working(p) =>
    lease.holder = p /\ lease.left + work[p] = TtlOf(p)

LeaseInv == TypeOK /\ WorkerHolds

LEMMA TtlIsPositive ==
  ASSUME NEW p \in Processes
  PROVE  TtlOf(p) \in 1..LongestLease
BY LeaseAssumption DEF TtlOf, Processes, LongestLease

(* A worker's lease is not yet expired. *)
LEMMA WorkerBlocks ==
  ASSUME LeaseInv, MaxWork <= Ttl, MaxWork <= CronTtl, NEW p \in Processes, Working(p)
  PROVE  /\ work[p] \in 0..MaxWork /\ lease.left \in 0..LongestLease /\ ~Free
         /\ work[p] < MaxWork => lease.left > 0
<1>1. work[p] \in 0..MaxWork /\ lease.left \in Expired..LongestLease
  BY LeaseAssumption DEF LeaseInv, TypeOK, Working, Idle
<1>2. lease.left = TtlOf(p) - work[p] /\ MaxWork <= TtlOf(p)
  BY <1>1, TtlIsPositive DEF LeaseInv, WorkerHolds, TtlOf, Expired
<1>3. LongestLease \in Nat
  BY LeaseAssumption DEF LongestLease
<1> QED BY <1>1, <1>2, <1>3, TtlIsPositive, LeaseAssumption DEF Free, Expired

LEMMA AcquireKeeps ==
  ASSUME LeaseInv, MaxWork <= Ttl, MaxWork <= CronTtl,
         NEW p \in Processes, ~Working(p), TryAcquire(p, TtlOf(p))
  PROVE  /\ lease' \in [holder: Processes \cup {Nobody}, left: Expired..LongestLease]
         /\ work' \in [Processes -> Idle..MaxWork] /\ WorkerHolds'
<1>1. CASE Free
  <2>1. \A q \in Processes : ~Working(q)
    BY <1>1, WorkerBlocks
  <2>2. lease' = [holder |-> p, left |-> TtlOf(p)] /\ work' = [work EXCEPT ![p] = 0]
    BY <1>1 DEF TryAcquire
  <2>3. TtlOf(p) \in 1..LongestLease
    BY TtlIsPositive
  <2>4. WorkerHolds'
    BY <2>1, <2>2, <2>3 DEF WorkerHolds, Working, LeaseInv, TypeOK, Idle, TtlOf
  <2> QED BY <2>2, <2>3, <2>4, LeaseAssumption DEF LeaseInv, TypeOK, Expired, Idle
<1>2. CASE ~Free
  BY <1>2 DEF TryAcquire, LeaseInv, TypeOK, WorkerHolds, Working, TtlOf
<1> QED BY <1>1, <1>2

LEMMA NextLease ==
  ASSUME LeaseInv, MaxWork <= Ttl, MaxWork <= CronTtl, [Next]_vars
  PROVE  LeaseInv'
<1> USE DEF LeaseInv
<1>1. ASSUME NEW s \in Servers, Start(s) PROVE LeaseInv'
  BY <1>1, LeaseAssumption DEF Start, TypeOK, WorkerHolds, Working, TtlOf
<1>2. ASSUME NEW s \in Servers, Tick(s) PROVE LeaseInv'
  <2>1. s \in Processes /\ TtlOf(s) = Ttl
    BY DEF Processes, TtlOf
  <2>2. up' \in [Servers -> BOOLEAN] /\ timer' \in [Servers -> 0..Interval]
    BY <1>2, LeaseAssumption DEF Tick, TypeOK
  <2>3. CASE Working(s)
    BY <1>2, <2>2, <2>3 DEF Tick, TypeOK, WorkerHolds, Working, TtlOf
  <2>4. CASE ~Working(s)
    BY <1>2, <2>1, <2>2, <2>4, AcquireKeeps DEF Tick, TypeOK
  <2> QED BY <2>3, <2>4
<1>3. ASSUME NEW s \in Servers, Crash(s) PROVE LeaseInv'
  BY <1>3, LeaseAssumption DEF Crash, TypeOK, WorkerHolds, Working, TtlOf, Processes, Idle
<1>4. ASSUME NEW c \in Crons, CronCall(c) PROVE LeaseInv'
  <2>1. c \in Processes /\ TtlOf(c) = CronTtl
    BY LeaseAssumption DEF Processes, TtlOf
  <2> QED BY <1>4, <2>1, AcquireKeeps DEF CronCall, TypeOK
<1>5. ASSUME NEW p \in Processes, Finish(p) PROVE LeaseInv'
  BY <1>5, LeaseAssumption DEF Finish, TypeOK, WorkerHolds, Working, TtlOf, Idle
<1>6. ASSUME TimePasses PROVE LeaseInv'
  <2>1. LongestLease \in Nat
    BY LeaseAssumption DEF LongestLease
  <2>2. lease' \in [holder: Processes \cup {Nobody}, left: Expired..LongestLease]
    BY <1>6, <2>1 DEF TimePasses, TypeOK, Expired
  <2>3. timer' \in [Servers -> 0..Interval] /\ up' \in [Servers -> BOOLEAN]
    BY <1>6, LeaseAssumption DEF TimePasses, TypeOK
  <2>4. work' \in [Processes -> Idle..MaxWork]
    BY <1>6, LeaseAssumption DEF TimePasses, TypeOK, Working, Idle
  <2>5. ASSUME NEW p \in Processes, Working(p)'
        PROVE  lease'.holder = p /\ lease'.left + work'[p] = TtlOf(p)
    <3>1. Working(p) /\ work'[p] = work[p] + 1
      BY <1>6, <2>5 DEF TimePasses, Working, Idle, TypeOK
    <3>2. lease.left \in 0..LongestLease /\ lease.left > 0 /\ work[p] \in 0..MaxWork
      BY <1>6, <3>1, WorkerBlocks DEF TimePasses
    <3>3. lease'.holder = lease.holder /\ lease'.left = lease.left - 1
      BY <1>6, <3>2 DEF TimePasses, Expired, TypeOK
    <3> QED BY <3>1, <3>2, <3>3, <2>1, LeaseAssumption DEF WorkerHolds
  <2> QED BY <2>2, <2>3, <2>4, <2>5 DEF TypeOK, WorkerHolds, TtlOf
<1>7. ASSUME UNCHANGED vars PROVE LeaseInv'
  BY <1>7 DEF vars, TypeOK, WorkerHolds, Working, TtlOf
<1> QED BY <1>1, <1>2, <1>3, <1>4, <1>5, <1>6, <1>7 DEF Next

(* Two servers, or a server and a cron caller, never run the job at once,  *)
(* if no run takes longer than either lease: nothing renews a lease, so    *)
(* the hypothesis is what the code has to be given.                        *)
THEOREM LeaseExcludes ==
  ASSUME MaxWork <= Ttl, MaxWork <= CronTtl
  PROVE  Spec => []RunsDisjoint
<1>1. Init => LeaseInv
  BY LeaseAssumption DEF Init, LeaseInv, TypeOK, WorkerHolds, Working, Idle, Expired, LongestLease
<1>2. LeaseInv /\ [Next]_vars => LeaseInv'
  BY NextLease
<1>3. LeaseInv => RunsDisjoint
  BY DEF LeaseInv, WorkerHolds, RunsDisjoint
<1> QED BY <1>1, <1>2, <1>3, PTL DEF Spec

-----------------------------------------------------------------------------
(* The job takes the lease and nothing else does: its steps are steps of   *)
(* the lease or leave it alone.                                            *)
LEMMA JobStepsAreLeaseSteps ==
  ASSUME [NextR]_allvars
  PROVE  [Next]_vars
<1>1. CASE LeaseStep
  BY <1>1 DEF LeaseStep, Next
<1>2. ASSUME NEW p \in Processes, RunStep(p) PROVE [Next]_vars
  BY <1>2 DEF RunStep, ReadTemplates, TakeTemplate, LeaveTemplate, EndRun, Generate, Next
<1>3. ASSUME NEW s \in Servers, NEW orphan \in BOOLEAN, Die(s, orphan) PROVE [Next]_vars
  BY <1>3 DEF Die, Abandon, Next
<1>8. ASSUME NEW p \in Processes, NEW orphan \in BOOLEAN, Fail(p, orphan) PROVE [Next]_vars
  BY <1>8 DEF Fail, Abandon, Next
<1>4. ASSUME NEW c \in Clerks, NEW t \in HandPaid, LoadForPayment(c, t) PROVE [Next]_vars
  BY <1>4 DEF LoadForPayment
<1>5. ASSUME NEW c \in Clerks, MarkPaid(c) PROVE [Next]_vars
  BY <1>5 DEF MarkPaid
<1>6. CASE NewDay
  BY <1>6 DEF NewDay
<1>7. CASE UNCHANGED allvars
  BY <1>7 DEF allvars
<1> QED BY <1>1, <1>2, <1>3, <1>4, <1>5, <1>6, <1>7, <1>8 DEF NextR

(* The recurring expense job runs under the lease as it is specified, with *)
(* any templates, clerks and crashes.                                      *)
THEOREM JobKeepsLease == SpecR => Spec
<1>1. InitR => Init
  BY DEF InitR
<1>2. [NextR]_allvars => [Next]_vars
  BY JobStepsAreLeaseSteps
<1> QED BY <1>1, <1>2, PTL DEF SpecR, Spec


-----------------------------------------------------------------------------
(* The lease's own types need no bound on the runs.                        *)
LEMMA LeaseTypes ==
  ASSUME TypeOK, [Next]_vars
  PROVE  TypeOK'
<1>0. LongestLease \in Nat /\ Ttl \in 0..LongestLease /\ CronTtl \in 0..LongestLease
  BY LeaseAssumption DEF LongestLease
<1>1. ASSUME NEW p \in Processes, NEW ttl \in 0..LongestLease, TryAcquire(p, ttl)
      PROVE  /\ lease' \in [holder: Processes \cup {Nobody}, left: Expired..LongestLease]
             /\ work' \in [Processes -> Idle..MaxWork]
  <2>1. CASE Free
    BY <1>0, <1>1, <2>1, LeaseAssumption DEF TryAcquire, TypeOK, Expired, Idle
  <2>2. CASE ~Free
    BY <1>1, <2>2 DEF TryAcquire, TypeOK
  <2> QED BY <2>1, <2>2
<1>2. ASSUME NEW s \in Servers, Start(s) PROVE TypeOK'
  BY <1>2, LeaseAssumption DEF Start, TypeOK
<1>3. ASSUME NEW s \in Servers, Tick(s) PROVE TypeOK'
  <2>1. s \in Processes
    BY DEF Processes
  <2>2. up' \in [Servers -> BOOLEAN] /\ timer' \in [Servers -> 0..Interval]
    BY <1>3, LeaseAssumption DEF Tick, TypeOK
  <2>3. CASE Working(s)
    BY <1>3, <2>2, <2>3 DEF Tick, TypeOK
  <2>4. CASE ~Working(s)
    BY <1>0, <1>1, <1>3, <2>1, <2>2, <2>4 DEF Tick, TypeOK
  <2> QED BY <2>3, <2>4
<1>4. ASSUME NEW s \in Servers, Crash(s) PROVE TypeOK'
  BY <1>4, LeaseAssumption DEF Crash, TypeOK, Processes, Idle
<1>5. ASSUME NEW c \in Crons, CronCall(c) PROVE TypeOK'
  BY <1>0, <1>1, <1>5 DEF CronCall, TypeOK, Processes
<1>6. ASSUME NEW p \in Processes, Finish(p) PROVE TypeOK'
  BY <1>6, LeaseAssumption DEF Finish, TypeOK, Idle
<1>7. CASE TimePasses
  <2>1. lease' \in [holder: Processes \cup {Nobody}, left: Expired..LongestLease]
    BY <1>0, <1>7 DEF TimePasses, TypeOK, Expired
  <2>2. timer' \in [Servers -> 0..Interval] /\ up' \in [Servers -> BOOLEAN]
    BY <1>7, LeaseAssumption DEF TimePasses, TypeOK
  <2>3. work' \in [Processes -> Idle..MaxWork]
    BY <1>7, LeaseAssumption DEF TimePasses, TypeOK, Working, Idle
  <2> QED BY <2>1, <2>2, <2>3 DEF TypeOK
<1>8. CASE UNCHANGED vars
  BY <1>8 DEF vars, TypeOK
<1> QED BY <1>2, <1>3, <1>4, <1>5, <1>6, <1>7, <1>8 DEF Next

(* addInterval, kept within the template's end date. *)
LEMMA AfterType ==
  ASSUME NEW t \in Templates, NEW d \in Nat
  PROVE  /\ Period[t] \in Nat \ {0}
         /\ After(t, d) \in DueDates(t) /\ After(t, d) \in Nat
         /\ After(t, d) = NoDate \/ After(t, d) = d + Period[t]
BY RecurringAssumption DEF After, NoDate, DueDates

RunRow == [read: BOOLEAN, asOf: 0..LastDay, todo: SUBSET (Templates \X (Nat \ {NoDate})),
           tpl: Templates \cup {Nobody}, due: Nat, made: 0..PerTemplate]

LEMMA NoRunIsRow == NoRun \in RunRow
BY RecurringAssumption DEF NoRun, RunRow, NoDate

(* An entry without an expense is the doing of a crash or a rollback. *)
EntriesBounded ==
  \A t \in Templates, d \in Dates : entries[t][d] <= children[t][d] + (crashes + rollbacks)

JobTypes == RecurringTypeOK /\ EntriesBounded

(* Whoever makes an expense makes it for a date of the calendar. *)
LEMMA DueIsDate ==
  ASSUME JobTypes, NEW p \in Processes, MoreToMake(p)
  PROVE  run[p].due \in Dates /\ run[p].due # NoDate
<1>1. run[p] \in RunRow
  BY DEF JobTypes, RecurringTypeOK, RunRow
<1> QED BY <1>1, RecurringAssumption DEF RunRow, MoreToMake, Dates, FirstDate, NoDate

LEMMA GenerateTypes ==
  ASSUME JobTypes, NEW p \in Processes, NEW posted \in BOOLEAN, Generate(p, posted)
  PROVE  JobTypes'
<1> DEFINE t == run[p].tpl
           d == run[p].due
<1>1. run[p] \in RunRow /\ t \in Templates /\ d \in Dates /\ d \in Nat
  <2>1. run[p] \in RunRow
    BY DEF JobTypes, RecurringTypeOK, RunRow
  <2>2. t # Nobody /\ MoreToMake(p)
    BY DEF Generate
  <2>3. d \in Dates
    BY <2>2, DueIsDate
  <2> QED BY <2>1, <2>2, <2>3, RecurringAssumption DEF RunRow, Dates, FirstDate
<1>2. /\ children[t][d] < MaxCopies
      /\ children' = [children EXCEPT ![t][d] = @ + 1]
      /\ entries' = [entries EXCEPT ![t][d] = @ + (IF posted THEN 1 ELSE 0)]
      /\ nextDue' = [nextDue EXCEPT ![t] = After(t, d)]
      /\ run' = [run EXCEPT ![p].due = After(t, d), ![p].made = @ + 1]
      /\ run[p].made < PerTemplate /\ (posted \/ unposted < MaxUnposted)
      /\ unposted' = unposted + (IF posted THEN 0 ELSE 1)
      /\ UNCHANGED <<vars, today, payments, clerk, crashes, rollbacks>>
  BY DEF Generate, EntriesWith, SavedDue, MoreToMake
<1>3. After(t, d) \in Nat /\ After(t, d) \in DueDates(t)
  BY <1>1, AfterType
<1> HIDE DEF t, d
<1>4. /\ TypeOK /\ today \in Dates
      /\ nextDue \in [Templates -> Nat]
      /\ children \in [Templates -> [Dates -> 0..MaxCopies]]
      /\ entries \in [Templates -> [Dates -> 0..(MaxCopies + MaxCrashes + MaxRollbacks)]]
      /\ payments \in [Templates -> SUBSET Nat]
      /\ run \in [Processes -> RunRow]
      /\ clerk \in [Clerks -> [tpl: Templates \cup {Nobody}, due: Nat, done: BOOLEAN]]
      /\ crashes \in 0..MaxCrashes /\ rollbacks \in 0..MaxRollbacks /\ unposted \in 0..MaxUnposted
      /\ \A u \in Templates : nextDue[u] \in DueDates(u)
  BY DEF JobTypes, RecurringTypeOK, RunRow
<1>5. /\ MaxCopies \in Nat /\ MaxCrashes \in Nat /\ PerTemplate \in Nat
      /\ MaxRollbacks \in Nat /\ MaxUnposted \in Nat
  BY RecurringAssumption
<1>6. children' \in [Templates -> [Dates -> 0..MaxCopies]]
  BY <1>1, <1>2, <1>4, <1>5
<1>7. entries[t][d] <= children[t][d] + (crashes + rollbacks) /\ entries[t][d] \in Nat /\ children[t][d] \in Nat
  BY <1>1, <1>4, <1>5 DEF JobTypes, EntriesBounded
<1>8. entries[t][d] + (IF posted THEN 1 ELSE 0) \in 0..(MaxCopies + MaxCrashes + MaxRollbacks)
  BY <1>2, <1>4, <1>5, <1>7
<1>9. entries' \in [Templates -> [Dates -> 0..(MaxCopies + MaxCrashes + MaxRollbacks)]]
  BY <1>1, <1>2, <1>4, <1>8
<1>10. run' \in [Processes -> RunRow]
  <2>1. run'[p] = [run[p] EXCEPT !.due = After(t, d), !.made = @ + 1]
    BY <1>2, <1>4
  <2>2. [run[p] EXCEPT !.due = After(t, d)] \in RunRow
    BY <1>1, <1>3 DEF RunRow
  <2>3. run[p].made + 1 \in 0..PerTemplate
    BY <1>1, <1>2, <1>5 DEF RunRow
  <2>4. run'[p] \in RunRow
    BY <1>1, <2>1, <2>2, <2>3 DEF RunRow
  <2> QED BY <1>2, <1>4, <2>4
<1>14. unposted' \in 0..MaxUnposted
  BY <1>2, <1>4, <1>5
<1>11. nextDue' \in [Templates -> Nat] /\ \A u \in Templates : nextDue'[u] \in DueDates(u)
  BY <1>1, <1>2, <1>3, <1>4
<1>12. TypeOK'
  BY <1>2, <1>4 DEF vars, TypeOK
<1>13. EntriesBounded'
  <2> SUFFICES ASSUME NEW u \in Templates, NEW e \in Dates
               PROVE  entries'[u][e] <= children'[u][e] + (crashes' + rollbacks')
    BY DEF EntriesBounded
  <2>1. entries[u][e] <= children[u][e] + (crashes + rollbacks)
    BY DEF JobTypes, EntriesBounded
  <2>2. CASE u = t /\ e = d
    <3>1. entries'[u][e] <= entries[t][d] + 1 /\ children'[u][e] = children[t][d] + 1
      BY <1>1, <1>2, <1>4, <1>5, <2>2
    <3> QED BY <1>2, <1>4, <1>5, <1>7, <1>9, <2>1, <2>2, <3>1
  <2>3. CASE ~(u = t /\ e = d)
    <3>1. entries'[u][e] = entries[u][e] /\ children'[u][e] = children[u][e]
      BY <1>1, <1>2, <1>4, <2>3
    <3> QED BY <1>2, <2>1, <3>1
  <2> QED BY <2>2, <2>3
<1> QED BY <1>2, <1>4, <1>6, <1>9, <1>10, <1>11, <1>12, <1>13, <1>14 DEF JobTypes, RecurringTypeOK, RunRow

(* A run that goes on to the n-th expense of a template, due on a day. *)
At(row, t, d, n) == [row EXCEPT !.tpl = t, !.due = d, !.made = n]

LEMMA RowMoves ==
  ASSUME NEW row \in RunRow, NEW t \in Templates \cup {Nobody}, NEW d \in Nat,
         NEW n \in 0..PerTemplate
  PROVE  /\ At(row, t, d, n) \in RunRow
         /\ At(row, t, d, n).tpl = t /\ At(row, t, d, n).due = d
         /\ At(row, t, d, n).todo = row.todo /\ At(row, t, d, n).read = row.read
<1> DEFINE r1 == [row EXCEPT !.tpl = t]
           r2 == [r1 EXCEPT !.due = d]
           r3 == [r2 EXCEPT !.made = n]
<1>1. r1 \in RunRow /\ r1.tpl = t /\ r1.todo = row.todo /\ r1.read = row.read
  BY DEF RunRow
<1> HIDE DEF r1
<1>2. r2 \in RunRow /\ r2.tpl = t /\ r2.due = d /\ r2.todo = row.todo /\ r2.read = row.read
  BY <1>1 DEF RunRow
<1> HIDE DEF r2
<1>3. r3 \in RunRow /\ r3.tpl = t /\ r3.due = d /\ r3.todo = row.todo /\ r3.read = row.read
  BY <1>2 DEF RunRow
<1>4. At(row, t, d, n) = r3
  BY DEF At, r1, r2, r3
<1> QED BY <1>3, <1>4

(* The steps of a run that only move its place in the loop. *)
LEMMA LoopTypes ==
  ASSUME JobTypes, NEW p \in Processes,
         ReadTemplates(p) \/ TakeTemplate(p) \/ LeaveTemplate(p) \/ EndRun(p)
  PROVE  JobTypes'
<1>1. /\ run \in [Processes -> RunRow] /\ run[p] \in RunRow
      /\ TypeOK /\ today \in Dates /\ nextDue \in [Templates -> Nat]
  BY DEF JobTypes, RecurringTypeOK, RunRow
<1>2. TypeOK'
  <2>1. Finish(p) \/ UNCHANGED vars
    BY DEF ReadTemplates, TakeTemplate, LeaveTemplate, EndRun
  <2> QED BY <1>1, <2>1, LeaseTypes DEF Next
<1>3. /\ UNCHANGED <<today, nextDue, children, entries, payments, clerk, accidents>>
      /\ run' = [run EXCEPT ![p] = run'[p]]
  BY <1>1 DEF ReadTemplates, TakeTemplate, LeaveTemplate, EndRun
<1>4. run'[p] \in RunRow
  <2>1. CASE ReadTemplates(p)
    <3>1. PICK B \in Batches : run' = [run EXCEPT ![p] =
            [NoRun EXCEPT !.read = TRUE, !.asOf = today, !.todo = {<<t, nextDue[t]>> : t \in B}]]
      BY <2>1 DEF ReadTemplates
    <3>2. \A t \in B : t \in Templates /\ nextDue[t] \in Nat \ {NoDate}
      <4>1. \A t \in B : t \in Templates /\ Due(t)
        BY <3>1 DEF Batches
      <4> QED BY <1>1, <4>1, RecurringAssumption DEF Due, NoDate
    <3>3. {<<t, nextDue[t]>> : t \in B} \in SUBSET (Templates \X (Nat \ {NoDate})) /\ today \in 0..LastDay
      BY <1>1, <3>2 DEF Dates, FirstDate
    <3>4. [NoRun EXCEPT !.read = TRUE, !.asOf = today, !.todo = {<<t, nextDue[t]>> : t \in B}] \in RunRow
      BY <3>3, NoRunIsRow, RecurringAssumption DEF NoRun, RunRow, NoDate
    <3> QED BY <1>1, <3>1, <3>4
  <2>2. CASE TakeTemplate(p)
    <3>1. PICK x \in run[p].todo :
            run' = [run EXCEPT ![p].todo = @ \ {x}, ![p].tpl = x[1], ![p].due = x[2], ![p].made = 0]
      BY <2>2 DEF TakeTemplate
    <3>2. x \in Templates \X (Nat \ {NoDate})
      BY <1>1 DEF RunRow
    <3>3. run'[p] = [[run[p] EXCEPT !.todo = @ \ {x}] EXCEPT !.tpl = x[1], !.due = x[2], !.made = 0]
      BY <1>1, <3>1 DEF RunRow
    <3>5. [run[p] EXCEPT !.todo = @ \ {x}] \in RunRow
      BY <1>1 DEF RunRow
    <3>4. x[2] \in Nat
      <4>1. x[2] \in Nat \ {NoDate}
        BY <3>2
      <4> QED BY <4>1, RecurringAssumption
    <3>6. x[1] \in Templates \cup {Nobody} /\ 0 \in 0..PerTemplate
      BY <3>2, RecurringAssumption
    <3> DEFINE row == [run[p] EXCEPT !.todo = @ \ {x}]
    <3> HIDE DEF row
    <3>7. At(row, x[1], x[2], 0) \in RunRow
      BY <3>4, <3>5, <3>6, RowMoves DEF row
    <3> QED BY <3>3, <3>7 DEF row, At
  <2>3. CASE LeaveTemplate(p)
    <3>1. run'[p] = [run[p] EXCEPT !.tpl = Nobody, !.due = NoDate, !.made = 0]
      BY <1>1, <2>3 DEF LeaveTemplate
    <3>2. Nobody \in Templates \cup {Nobody} /\ NoDate \in Nat /\ 0 \in 0..PerTemplate
      BY RecurringAssumption DEF NoDate
    <3>3. At(run[p], Nobody, NoDate, 0) \in RunRow
      BY <1>1, <3>2, RowMoves
    <3> QED BY <3>1, <3>3 DEF At
  <2>4. CASE EndRun(p)
    BY <1>1, <2>4, NoRunIsRow DEF EndRun
  <2> QED BY <2>1, <2>2, <2>3, <2>4
<1>5. run' \in [Processes -> RunRow]
  BY <1>1, <1>3, <1>4
<1> QED BY <1>2, <1>3, <1>5 DEF JobTypes, RecurringTypeOK, EntriesBounded, RunRow, accidents, DueDates

(* The run of a process that fails or dies, and what it leaves behind. *)
LEMMA AbandonTypes ==
  ASSUME JobTypes, NEW p \in Processes, NEW orphan \in BOOLEAN, Abandon(p, orphan), TypeOK',
         \/ /\ crashes < MaxCrashes /\ crashes' = crashes + 1 /\ rollbacks' = rollbacks
         \/ /\ rollbacks < MaxRollbacks /\ rollbacks' = rollbacks + 1 /\ crashes' = crashes
  PROVE  JobTypes'
<1> DEFINE t == run[p].tpl
           d == run[p].due
<1>1. /\ run \in [Processes -> RunRow] /\ run[p] \in RunRow
      /\ children \in [Templates -> [Dates -> 0..MaxCopies]]
      /\ entries \in [Templates -> [Dates -> 0..(MaxCopies + MaxCrashes + MaxRollbacks)]]
      /\ crashes \in 0..MaxCrashes /\ rollbacks \in 0..MaxRollbacks
  BY DEF JobTypes, RecurringTypeOK, RunRow
<1>2. /\ entries' = IF orphan THEN [entries EXCEPT ![t][d] = @ + 1] ELSE entries
      /\ run' = [run EXCEPT ![p] = NoRun]
      /\ UNCHANGED <<today, nextDue, children, payments, clerk, unposted>>
      /\ orphan => t # Nobody /\ MoreToMake(p)
  BY DEF Abandon
<1>3. orphan => t \in Templates /\ d \in Dates
  BY <1>1, <1>2, DueIsDate DEF RunRow
<1> HIDE DEF t, d
<1>5. run' \in [Processes -> RunRow]
  BY <1>1, <1>2, NoRunIsRow
<1>6. MaxCopies \in Nat /\ MaxCrashes \in Nat /\ MaxRollbacks \in Nat
  BY RecurringAssumption
<1>9. /\ crashes' \in 0..MaxCrashes /\ rollbacks' \in 0..MaxRollbacks
      /\ crashes' + rollbacks' = crashes + rollbacks + 1
      /\ crashes' + rollbacks' <= MaxCrashes + MaxRollbacks
  <2>1. crashes \in Nat /\ rollbacks \in Nat /\ crashes <= MaxCrashes /\ rollbacks <= MaxRollbacks
    BY <1>1, <1>6
  <2>2. CASE crashes < MaxCrashes /\ crashes' = crashes + 1 /\ rollbacks' = rollbacks
    <3>1. crashes + 1 <= MaxCrashes /\ crashes + 1 \in 0..MaxCrashes
      BY <1>6, <2>1, <2>2
    <3> QED BY <1>1, <1>6, <2>1, <2>2, <3>1
  <2>3. CASE rollbacks < MaxRollbacks /\ rollbacks' = rollbacks + 1 /\ crashes' = crashes
    <3>1. rollbacks + 1 <= MaxRollbacks /\ rollbacks + 1 \in 0..MaxRollbacks
      BY <1>6, <2>1, <2>3
    <3> QED BY <1>1, <1>6, <2>1, <2>3, <3>1
  <2> QED BY <2>2, <2>3
<1>7. ASSUME NEW u \in Templates, NEW e \in Dates
      PROVE  /\ entries'[u][e] \in Nat /\ entries'[u][e] <= entries[u][e] + 1
             /\ entries'[u][e] <= children'[u][e] + (crashes' + rollbacks')
  <2>1. /\ entries[u][e] <= children[u][e] + (crashes + rollbacks)
        /\ entries[u][e] \in Nat /\ children[u][e] \in Nat
    BY <1>1, <1>6 DEF JobTypes, EntriesBounded
  <2>2. entries'[u][e] \in {entries[u][e], entries[u][e] + 1}
    BY <1>1, <1>2, <1>3
  <2> QED BY <1>1, <1>2, <1>6, <1>9, <2>1, <2>2
<1>8. entries' \in [Templates -> [Dates -> 0..(MaxCopies + MaxCrashes + MaxRollbacks)]]
  <2>1. CASE orphan
    <3>1. children[t][d] \in 0..MaxCopies /\ children' = children
      BY <1>1, <1>2, <1>3, <2>1
    <3>2. entries'[t][d] = entries[t][d] + 1 /\ entries[t][d] \in Nat
      BY <1>1, <1>2, <1>3, <1>6, <2>1
    <3>3. entries'[t][d] <= children[t][d] + (crashes' + rollbacks')
      BY <1>3, <1>7, <2>1, <3>1
    <3>4. entries[t][d] + 1 \in 0..(MaxCopies + MaxCrashes + MaxRollbacks)
      BY <1>6, <1>9, <3>1, <3>2, <3>3
    <3> QED BY <1>1, <1>2, <1>3, <2>1, <3>4
  <2>2. CASE ~orphan
    BY <1>1, <1>2, <2>2
  <2> QED BY <2>1, <2>2
<1>10. EntriesBounded'
  BY <1>7 DEF EntriesBounded
<1> QED BY <1>2, <1>5, <1>8, <1>9, <1>10 DEF JobTypes, RecurringTypeOK, RunRow, DueDates

LEMMA DieTypes ==
  ASSUME JobTypes, NEW s \in Servers, NEW orphan \in BOOLEAN, Die(s, orphan)
  PROVE  JobTypes'
<1>1. TypeOK'
  BY LeaseTypes DEF Die, Next, JobTypes, RecurringTypeOK
<1> QED BY <1>1, AbandonTypes DEF Die, Processes

LEMMA FailTypes ==
  ASSUME JobTypes, NEW p \in Processes, NEW orphan \in BOOLEAN, Fail(p, orphan)
  PROVE  JobTypes'
<1>1. TypeOK'
  BY LeaseTypes DEF Fail, Next, JobTypes, RecurringTypeOK
<1> QED BY <1>1, AbandonTypes DEF Fail

(* The due date markPaid writes. *)
PaidUpTo(c) ==
  After(clerk[c].tpl, IF clerk[c].due = NoDate THEN FirstDate ELSE clerk[c].due)

LEMMA ClerkTypes ==
  ASSUME JobTypes, NEW c \in Clerks,
         MarkPaid(c) \/ \E t \in HandPaid : LoadForPayment(c, t)
  PROVE  JobTypes'
<1>1. /\ clerk \in [Clerks -> [tpl: Templates \cup {Nobody}, due: Nat, done: BOOLEAN]]
      /\ nextDue \in [Templates -> Nat]
      /\ payments \in [Templates -> SUBSET Nat]
      /\ TypeOK
  BY DEF JobTypes, RecurringTypeOK
<1>2. CASE \E t \in HandPaid : LoadForPayment(c, t)
  <2>1. PICK t \in HandPaid : LoadForPayment(c, t)
    BY <1>2
  <2>2. t \in Templates /\ nextDue[t] \in Nat
    BY <1>1, RecurringAssumption
  <2>3. [clerk[c] EXCEPT !.tpl = t] \in [tpl: Templates \cup {Nobody}, due: Nat, done: BOOLEAN]
    BY <1>1, <2>2
  <2>4. clerk' = [clerk EXCEPT ![c] = [[clerk[c] EXCEPT !.tpl = t] EXCEPT !.due = nextDue[t]]]
    BY <1>1, <2>1 DEF LoadForPayment
  <2>5. clerk' \in [Clerks -> [tpl: Templates \cup {Nobody}, due: Nat, done: BOOLEAN]]
    BY <1>1, <2>2, <2>3, <2>4
  <2>6. UNCHANGED <<vars, today, nextDue, children, entries, payments, run, accidents>>
    BY <2>1 DEF LoadForPayment
  <2> QED BY <2>5, <2>6 DEF JobTypes, RecurringTypeOK, EntriesBounded, vars, TypeOK, accidents, DueDates
<1>3. CASE MarkPaid(c)
  <2> DEFINE t == clerk[c].tpl
  <2>1. t \in Templates /\ clerk[c].due \in Nat
    BY <1>1, <1>3 DEF MarkPaid
  <2>2. clerk[c].due \in Nat /\ FirstDate \in Nat
    BY <2>1, RecurringAssumption DEF FirstDate
  <2>3. PaidUpTo(c) \in Nat /\ PaidUpTo(c) \in DueDates(t)
    BY <2>1, <2>2, AfterType DEF PaidUpTo
  <2>4. /\ payments' = [payments EXCEPT ![t] = @ \cup {clerk[c].due}]
        /\ nextDue' = [nextDue EXCEPT ![t] = IF PaidUpTo(c) = clerk[c].due THEN @ ELSE PaidUpTo(c)]
        /\ clerk' = [clerk EXCEPT ![c].done = TRUE]
        /\ UNCHANGED <<vars, today, children, entries, run, accidents>>
    BY <1>3 DEF MarkPaid, PaidUpTo
  <2> HIDE DEF t
  <2>5. payments' \in [Templates -> SUBSET Nat]
    <3>1. payments[t] \cup {clerk[c].due} \in SUBSET Nat
      BY <1>1, <2>1
    <3> QED BY <1>1, <2>1, <2>4, <3>1
  <2>6. nextDue' \in [Templates -> Nat] /\ \A u \in Templates : nextDue'[u] \in DueDates(u)
    BY <1>1, <2>1, <2>3, <2>4 DEF JobTypes, RecurringTypeOK
  <2>7. clerk' \in [Clerks -> [tpl: Templates \cup {Nobody}, due: Nat, done: BOOLEAN]]
    BY <1>1, <2>4
  <2> QED BY <2>4, <2>5, <2>6, <2>7
          DEF JobTypes, RecurringTypeOK, EntriesBounded, vars, TypeOK, accidents, DueDates
<1> QED BY <1>2, <1>3

LEMMA JobTypesInit == InitR => JobTypes
<1> SUFFICES ASSUME InitR PROVE JobTypes
  OBVIOUS
<1>1. TypeOK
  BY LeaseAssumption DEF InitR, Init, TypeOK, Idle, Expired, LongestLease
<1>2. /\ today \in Dates /\ nextDue \in [Templates -> Nat]
      /\ \A u \in Templates : nextDue[u] \in DueDates(u)
  <2>1. FirstDate \in Nat /\ FirstDate \in Dates
    BY RecurringAssumption DEF FirstDate, Dates
  <2> QED BY <2>1, AfterType DEF InitR, DueDates
<1>3. MaxCopies \in Nat /\ MaxCrashes \in Nat /\ MaxRollbacks \in Nat /\ MaxUnposted \in Nat
  BY RecurringAssumption
<1>4. NotYet \in [tpl: Templates \cup {Nobody}, due: Nat, done: BOOLEAN]
  BY <1>3 DEF NotYet, NoDate
<1>5. EntriesBounded
  BY DEF InitR, EntriesBounded
<1>6. run \in [Processes -> RunRow]
  BY NoRunIsRow DEF InitR
<1> QED BY <1>1, <1>2, <1>3, <1>4, <1>5, <1>6 DEF InitR, JobTypes, RecurringTypeOK, RunRow

LEMMA JobTypesStep ==
  ASSUME JobTypes, [NextR]_allvars
  PROVE  JobTypes'
<1>1. CASE LeaseStep
  <2>1. TypeOK'
    BY <1>1, LeaseTypes, JobStepsAreLeaseSteps DEF JobTypes, RecurringTypeOK
  <2> QED BY <1>1, <2>1
          DEF LeaseStep, rvars, accidents, JobTypes, RecurringTypeOK, EntriesBounded, DueDates
<1>2. ASSUME NEW p \in Processes, RunStep(p) PROVE JobTypes'
  BY <1>2, LoopTypes, GenerateTypes DEF RunStep
<1>3. ASSUME NEW s \in Servers, NEW orphan \in BOOLEAN, Die(s, orphan) PROVE JobTypes'
  BY <1>3, DieTypes
<1>8. ASSUME NEW p \in Processes, NEW orphan \in BOOLEAN, Fail(p, orphan) PROVE JobTypes'
  BY <1>8, FailTypes
<1>4. ASSUME NEW c \in Clerks, NEW t \in HandPaid, LoadForPayment(c, t) PROVE JobTypes'
  BY <1>4, ClerkTypes
<1>5. ASSUME NEW c \in Clerks, MarkPaid(c) PROVE JobTypes'
  BY <1>5, ClerkTypes
<1>6. CASE NewDay
  <2>1. today' \in Dates
    BY <1>6, RecurringAssumption DEF NewDay, JobTypes, RecurringTypeOK, Dates, FirstDate
  <2> QED BY <1>6, <2>1 DEF NewDay, JobTypes, RecurringTypeOK, EntriesBounded, vars, TypeOK, accidents, DueDates
<1>7. CASE UNCHANGED allvars
  BY <1>7 DEF allvars, vars, rvars, accidents, JobTypes, RecurringTypeOK, EntriesBounded, TypeOK, DueDates
<1> QED BY <1>1, <1>2, <1>3, <1>4, <1>5, <1>6, <1>7, <1>8 DEF NextR

(* The state of the job is well typed for all templates, clerks, servers   *)
(* and limits: no due date but the first lies past a template's end, and   *)
(* the entries of a date are bounded by its expenses and the accidents.    *)
THEOREM RecurringTypeCorrect == SpecR => []RecurringTypeOK
<1>1. JobTypes /\ [NextR]_allvars => JobTypes'
  BY JobTypesStep
<1>2. JobTypes => RecurringTypeOK
  BY DEF JobTypes
<1> QED BY <1>1, <1>2, JobTypesInit, PTL DEF SpecR

-----------------------------------------------------------------------------
(* The dates of a template are a period apart; none lies in between.       *)
LEMMA Multiple ==
  ASSUME NEW n \in Nat \ {0}, NEW a \in Nat, a % n = 0
  PROVE  a = n * (a \div n) /\ a \div n \in Nat
OBVIOUS

LEMMA MultipleOf ==
  ASSUME NEW n \in Nat \ {0}, NEW i \in Nat
  PROVE  (n * i) % n = 0
OBVIOUS

LEMMA NoneBetween ==
  ASSUME NEW n \in Nat \ {0}, NEW i \in Nat, NEW j \in Nat,
         n * i <= n * j, n * j < n * i + n
  PROVE  i = j
OBVIOUS

LEMMA NextMultiple ==
  ASSUME NEW n \in Nat \ {0}, NEW a \in Nat, a % n = 0
  PROVE  (a + n) % n = 0
<1> DEFINE q == a \div n
<1>1. a = n * q /\ q \in Nat
  BY Multiple
<1> HIDE DEF q
<1>2. a + n = n * (q + 1) /\ q + 1 \in Nat
  BY <1>1
<1> QED BY <1>2, MultipleOf

LEMMA OneMultiple ==
  ASSUME NEW n \in Nat \ {0}, NEW a \in Nat, NEW b \in Nat,
         a % n = 0, b % n = 0, a <= b, b < a + n
  PROVE  a = b
<1> DEFINE q == a \div n
           r == b \div n
<1>1. a = n * q /\ q \in Nat /\ b = n * r /\ r \in Nat
  BY Multiple
<1> HIDE DEF q, r
<1>2. q = r
  BY <1>1, NoneBetween
<1> QED BY <1>1, <1>2

OnGrid(t, d) == d \in Nat /\ d >= FirstDate /\ (d - FirstDate) % Period[t] = 0

(* Given the expenses made and the payments recorded: this date of the     *)
(* template has one, and so has every date before this one.                *)
Met(made, paid, t, d) == made[t][d] > 0 \/ d \in paid[t]
Passed(made, paid, t, d) ==
  \A e \in Schedule(t) : d = NoDate \/ e < d => Met(made, paid, t, e)
GoodDate(made, paid, t, d) == (d = NoDate \/ OnGrid(t, d)) /\ Passed(made, paid, t, d)

Good(t, d) == GoodDate(children, payments, t, d)
GoodNow(t, d) == GoodDate(children', payments', t, d)

(* Whoever moves to the next date leaves nothing out, if the date it had   *)
(* leaves nothing out and is met itself.                                   *)
LEMMA NextDateIsGood ==
  ASSUME NEW made, NEW paid, NEW t \in Templates, NEW d, OnGrid(t, d),
         Passed(made, paid, t, d), d \in Schedule(t) => Met(made, paid, t, d)
  PROVE  GoodDate(made, paid, t, After(t, d))
<1>1. d \in Nat /\ d >= FirstDate /\ FirstDate = 1
  BY DEF OnGrid, FirstDate
<1>2. Period[t] \in Nat \ {0} /\ EndDate \in Nat
  BY RecurringAssumption
<1>3. ASSUME NEW e \in Schedule(t), e < d + Period[t], ~(e < d) PROVE e = d
  <2>1. e \in Nat /\ e > FirstDate /\ (e - FirstDate) % Period[t] = 0
    BY <1>1, RecurringAssumption DEF Schedule, Dates
  <2>2. e - FirstDate \in Nat /\ d - FirstDate \in Nat
    BY <1>1, <2>1
  <2>3. d - FirstDate <= e - FirstDate /\ e - FirstDate < (d - FirstDate) + Period[t]
    BY <1>1, <1>2, <1>3, <2>1
  <2>4. d - FirstDate = e - FirstDate
    BY <1>2, <2>1, <2>2, <2>3, OneMultiple DEF OnGrid
  <2> QED BY <1>1, <2>1, <2>4
<1>4. ASSUME NEW e \in Schedule(t), e < d + Period[t] PROVE Met(made, paid, t, e)
  BY <1>3, <1>4 DEF Passed
<1>5. CASE d + Period[t] > EndDate
  <2>1. After(t, d) = NoDate
    BY <1>5 DEF After
  <2>2. \A e \in Schedule(t) : e < d + Period[t]
    BY <1>1, <1>2, <1>5, RecurringAssumption DEF Schedule, Dates
  <2> QED BY <1>4, <2>1, <2>2 DEF GoodDate, Passed
<1>6. CASE ~(d + Period[t] > EndDate)
  <2>1. After(t, d) = d + Period[t] /\ After(t, d) # NoDate
    BY <1>1, <1>2, <1>6 DEF After, NoDate
  <2>2. ((d - FirstDate) + Period[t]) % Period[t] = 0
    BY <1>1, <1>2, NextMultiple DEF OnGrid
  <2>3. (d + Period[t]) - FirstDate = (d - FirstDate) + Period[t]
    BY <1>1, <1>2
  <2>4. OnGrid(t, d + Period[t])
    BY <1>1, <1>2, <2>2, <2>3 DEF OnGrid
  <2> QED BY <1>4, <2>1, <2>4 DEF GoodDate, Passed
<1> QED BY <1>5, <1>6

(* The template's own date needs no expense.                               *)
LEMMA FirstDateIsGood ==
  ASSUME NEW made, NEW paid, NEW t \in Templates
  PROVE  /\ GoodDate(made, paid, t, After(t, FirstDate))
         /\ GoodDate(made, paid, t, FirstDate + Period[t])
<1>1. FirstDate = 1 /\ Period[t] \in Nat \ {0}
  BY RecurringAssumption DEF FirstDate
<1>2. (FirstDate - FirstDate) % Period[t] = 0
  BY <1>1
<1>3. OnGrid(t, FirstDate)
  BY <1>1, <1>2 DEF OnGrid
<1>4. \A e \in Schedule(t) : e > FirstDate /\ e \in Nat
  BY <1>1, RecurringAssumption DEF Schedule, Dates
<1>5. Passed(made, paid, t, FirstDate) /\ FirstDate \notin Schedule(t)
  BY <1>1, <1>4 DEF Passed, NoDate
<1>6. GoodDate(made, paid, t, After(t, FirstDate))
  BY <1>3, <1>5, NextDateIsGood
<1>7. CASE After(t, FirstDate) = FirstDate + Period[t]
  BY <1>6, <1>7
<1>8. CASE After(t, FirstDate) = NoDate
  <2>1. Period[t] % Period[t] = 0 /\ (FirstDate + Period[t]) - FirstDate = Period[t]
    BY <1>1
  <2>2. OnGrid(t, FirstDate + Period[t])
    BY <1>1, <2>1 DEF OnGrid
  <2>3. Passed(made, paid, t, FirstDate + Period[t])
    BY <1>6, <1>8 DEF GoodDate, Passed
  <2> QED BY <1>6, <2>2, <2>3 DEF GoodDate
<1> QED BY <1>6, <1>7, <1>8 DEF After

(* What every copy of a due date promises, in whatever hands it is.        *)
DatesGood ==
  /\ \A t \in Templates : Good(t, nextDue[t])
  /\ \A p \in Processes :
       /\ run[p].tpl # Nobody => Good(run[p].tpl, run[p].due)
       /\ \A x \in run[p].todo : Good(x[1], x[2])
  /\ \A c \in Clerks : clerk[c].tpl # Nobody => Good(clerk[c].tpl, clerk[c].due)

(* A date that leaves nothing out goes on doing so: no expense and no      *)
(* payment disappears.                                                     *)
LEMMA GoodStays ==
  ASSUME JobTypes, [NextR]_allvars, NEW t \in Templates, NEW d, Good(t, d)
  PROVE  GoodNow(t, d)
<1>1. /\ children \in [Templates -> [Dates -> 0..MaxCopies]] /\ MaxCopies \in Nat
      /\ payments \in [Templates -> SUBSET Nat]
  BY RecurringAssumption DEF JobTypes, RecurringTypeOK
<1> DEFINE Grown(e) == children'[t][e] >= children[t][e] /\ payments[t] \subseteq payments'[t]
<1>2. ASSUME NEW e \in Dates PROVE Grown(e)
  <2>0. children[t][e] \in Nat
    BY <1>1
  <2>1. ASSUME UNCHANGED <<children, payments>> PROVE Grown(e)
    BY <2>0, <2>1
  <2>2. ASSUME NEW p \in Processes, NEW posted \in BOOLEAN, Generate(p, posted) PROVE Grown(e)
    <3>1. /\ payments' = payments
          /\ children' = [children EXCEPT ![run[p].tpl][run[p].due] = @ + 1]
      BY <2>2 DEF Generate
    <3> QED BY <1>1, <2>0, <3>1
  <2>3. ASSUME NEW c \in Clerks, MarkPaid(c) PROVE Grown(e)
    <3>1. /\ children' = children
          /\ payments' = [payments EXCEPT ![clerk[c].tpl] = @ \cup {clerk[c].due}]
      BY <2>3 DEF MarkPaid
    <3> QED BY <1>1, <2>0, <3>1
  <2> QED BY <2>1, <2>2, <2>3
          DEF NextR, LeaseStep, rvars, allvars, RunStep, ReadTemplates, TakeTemplate,
              LeaveTemplate, EndRun, Die, Fail, Abandon, LoadForPayment, NewDay
<1>3. ASSUME NEW e \in Schedule(t), Met(children, payments, t, e) PROVE Met(children', payments', t, e)
  <2>1. e \in Dates
    BY DEF Schedule
  <2>2. children[t][e] \in Nat /\ children'[t][e] \in Nat
    BY <1>1, <2>1, JobTypesStep DEF JobTypes, RecurringTypeOK
  <2> QED BY <1>2, <1>3, <2>1, <2>2 DEF Met
<1> QED BY <1>3 DEF Good, GoodNow, GoodDate, Passed

LEMMA DatesGoodInit == InitR => DatesGood
<1> SUFFICES ASSUME InitR PROVE DatesGood
  OBVIOUS
<1>1. \A t \in Templates : Good(t, nextDue[t])
  BY FirstDateIsGood DEF InitR, Good
<1>2. \A p \in Processes : run[p].tpl = Nobody /\ run[p].todo = {}
  BY DEF InitR, NoRun
<1>3. \A c \in Clerks : clerk[c].tpl = Nobody
  BY DEF InitR, NotYet
<1> QED BY <1>1, <1>2, <1>3 DEF DatesGood

(* Dates that are copied, or stay where they are, stay good. *)
LEMMA CopiesStayGood ==
  ASSUME JobTypes, DatesGood, [NextR]_allvars,
         \A t \in Templates : nextDue'[t] = nextDue[t] \/ GoodNow(t, nextDue'[t]),
         \A p \in Processes :
           /\ run'[p].tpl # Nobody =>
                \/ run'[p].tpl = run[p].tpl /\ run'[p].due = run[p].due
                \/ <<run'[p].tpl, run'[p].due>> \in run[p].todo
                \/ GoodNow(run'[p].tpl, run'[p].due)
           /\ \A x \in run'[p].todo : x \in run[p].todo \/ x[2] = nextDue[x[1]],
         \A c \in Clerks : clerk'[c].tpl # Nobody =>
           \/ clerk'[c].tpl = clerk[c].tpl /\ clerk'[c].due = clerk[c].due
           \/ clerk'[c].due = nextDue[clerk'[c].tpl]
  PROVE  DatesGood'
<1>1. JobTypes'
  BY JobTypesStep
<1>2. /\ run' \in [Processes -> RunRow] /\ run \in [Processes -> RunRow]
      /\ clerk' \in [Clerks -> [tpl: Templates \cup {Nobody}, due: Nat, done: BOOLEAN]]
  BY <1>1 DEF JobTypes, RecurringTypeOK, RunRow
<1>3. ASSUME NEW t \in Templates PROVE GoodNow(t, nextDue'[t])
  <2>1. Good(t, nextDue[t])
    BY DEF DatesGood
  <2> QED BY <2>1, GoodStays
<1>4. ASSUME NEW p \in Processes, run'[p].tpl # Nobody PROVE GoodNow(run'[p].tpl, run'[p].due)
  <2>1. run'[p].tpl \in Templates
    BY <1>2, <1>4 DEF RunRow
  <2>2. Good(run'[p].tpl, run'[p].due) => GoodNow(run'[p].tpl, run'[p].due)
    BY <2>1, GoodStays
  <2>3. CASE <<run'[p].tpl, run'[p].due>> \in run[p].todo
    BY <2>2, <2>3 DEF DatesGood
  <2>4. CASE run'[p].tpl = run[p].tpl /\ run'[p].due = run[p].due
    BY <1>4, <2>2, <2>4 DEF DatesGood
  <2> QED BY <1>4, <2>2, <2>3, <2>4
<1>5. ASSUME NEW p \in Processes, NEW x \in run'[p].todo PROVE GoodNow(x[1], x[2])
  <2>1. x[1] \in Templates
    BY <1>2, <1>5 DEF RunRow
  <2>2. Good(x[1], x[2])
    BY <1>5, <2>1 DEF DatesGood
  <2> QED BY <2>1, <2>2, GoodStays
<1>6. ASSUME NEW c \in Clerks, clerk'[c].tpl # Nobody PROVE GoodNow(clerk'[c].tpl, clerk'[c].due)
  <2>1. clerk'[c].tpl \in Templates
    BY <1>2, <1>6
  <2>2. Good(clerk'[c].tpl, clerk'[c].due)
    BY <1>6, <2>1 DEF DatesGood
  <2> QED BY <2>1, <2>2, GoodStays
<1> QED BY <1>3, <1>4, <1>5, <1>6 DEF DatesGood, Good, GoodNow

(* The job: its next date is good because it has made the expense of this  *)
(* one, and the row gets the same date.                                    *)
LEMMA GenerateDates ==
  ASSUME JobTypes, DatesGood, NEW p \in Processes, NEW posted \in BOOLEAN, Generate(p, posted)
  PROVE  DatesGood'
<1> DEFINE t == run[p].tpl
           d == run[p].due
<1>0. [NextR]_allvars
  BY DEF NextR, RunStep
<1>1. /\ children \in [Templates -> [Dates -> 0..MaxCopies]] /\ MaxCopies \in Nat
      /\ run \in [Processes -> RunRow] /\ nextDue \in [Templates -> Nat]
  BY RecurringAssumption DEF JobTypes, RecurringTypeOK, RunRow
<1>2. t # Nobody /\ MoreToMake(p)
  BY DEF Generate
<1>3. t \in Templates /\ d \in Dates /\ d # NoDate
  BY <1>1, <1>2, DueIsDate DEF RunRow
<1>4. Good(t, d)
  BY <1>2 DEF DatesGood
<1> HIDE DEF t, d
<1>5. /\ children' = [children EXCEPT ![t][d] = @ + 1]
      /\ nextDue' = [nextDue EXCEPT ![t] = After(t, d)]
      /\ run' = [run EXCEPT ![p].due = After(t, d), ![p].made = @ + 1]
      /\ UNCHANGED <<payments, clerk>>
  BY DEF Generate, SavedDue, t, d
<1>6. GoodNow(t, After(t, d))
  <2>1. GoodNow(t, d)
    BY <1>0, <1>3, <1>4, GoodStays
  <2>2. children'[t][d] > 0
    BY <1>1, <1>3, <1>5
  <2> QED BY <1>3, <2>1, <2>2, NextDateIsGood DEF GoodNow, GoodDate, Met
<1>7. \A u \in Templates : nextDue'[u] = nextDue[u] \/ GoodNow(u, nextDue'[u])
  BY <1>1, <1>3, <1>5, <1>6
<1>8. /\ \A q \in Processes : q # p => run'[q] = run[q]
      /\ run'[p].tpl = t /\ run'[p].due = After(t, d) /\ run'[p].todo = run[p].todo
  BY <1>1, <1>5 DEF RunRow, t
<1>9. \A q \in Processes :
        /\ run'[q].tpl # Nobody =>
             \/ run'[q].tpl = run[q].tpl /\ run'[q].due = run[q].due
             \/ <<run'[q].tpl, run'[q].due>> \in run[q].todo
             \/ GoodNow(run'[q].tpl, run'[q].due)
        /\ \A x \in run'[q].todo : x \in run[q].todo \/ x[2] = nextDue[x[1]]
  BY <1>6, <1>8
<1> QED BY <1>0, <1>5, <1>7, <1>9, CopiesStayGood

LEMMA LoopDates ==
  ASSUME JobTypes, DatesGood, NEW p \in Processes,
         ReadTemplates(p) \/ TakeTemplate(p) \/ LeaveTemplate(p) \/ EndRun(p)
  PROVE  DatesGood'
<1>0. [NextR]_allvars
  BY DEF NextR, RunStep
<1>1. run \in [Processes -> RunRow]
  BY DEF JobTypes, RecurringTypeOK, RunRow
<1>2. /\ UNCHANGED <<nextDue, clerk>>
      /\ \A q \in Processes : q # p => run'[q] = run[q]
  BY <1>1 DEF ReadTemplates, TakeTemplate, LeaveTemplate, EndRun
<1>3. /\ run'[p].tpl # Nobody => <<run'[p].tpl, run'[p].due>> \in run[p].todo
      /\ \A x \in run'[p].todo : x \in run[p].todo \/ x[2] = nextDue[x[1]]
  <2>1. CASE ReadTemplates(p)
    <3>1. PICK B \in Batches : run' = [run EXCEPT ![p] =
            [NoRun EXCEPT !.read = TRUE, !.asOf = today, !.todo = {<<t, nextDue[t]>> : t \in B}]]
      BY <2>1 DEF ReadTemplates
    <3>2. run'[p].tpl = Nobody /\ run'[p].todo = {<<t, nextDue[t]>> : t \in B}
      BY <1>1, <3>1 DEF NoRun
    <3> QED BY <3>2
  <2>2. CASE TakeTemplate(p)
    <3>1. PICK x \in run[p].todo :
            run' = [run EXCEPT ![p].todo = @ \ {x}, ![p].tpl = x[1], ![p].due = x[2], ![p].made = 0]
      BY <2>2 DEF TakeTemplate
    <3>2. run'[p].todo \subseteq run[p].todo /\ run'[p].tpl = x[1] /\ run'[p].due = x[2]
      BY <1>1, <3>1 DEF RunRow
    <3>3. x = <<x[1], x[2]>>
      BY <1>1 DEF RunRow
    <3> QED BY <3>2, <3>3
  <2>3. CASE LeaveTemplate(p)
    BY <1>1, <2>3 DEF LeaveTemplate, RunRow
  <2>4. CASE EndRun(p)
    BY <1>1, <2>4 DEF EndRun, NoRun
  <2> QED BY <2>1, <2>2, <2>3, <2>4
<1>4. \A q \in Processes :
        /\ run'[q].tpl # Nobody =>
             \/ run'[q].tpl = run[q].tpl /\ run'[q].due = run[q].due
             \/ <<run'[q].tpl, run'[q].due>> \in run[q].todo
             \/ GoodNow(run'[q].tpl, run'[q].due)
        /\ \A x \in run'[q].todo : x \in run[q].todo \/ x[2] = nextDue[x[1]]
  BY <1>2, <1>3
<1> QED BY <1>0, <1>2, <1>4, CopiesStayGood

(* markPaid records a payment for the date it read before it writes the    *)
(* one after it; a template that ended begins again and leaves out nothing *)
(* either.                                                                 *)
LEMMA ClerkDates ==
  ASSUME JobTypes, DatesGood, NEW c \in Clerks,
         MarkPaid(c) \/ \E t \in HandPaid : LoadForPayment(c, t)
  PROVE  DatesGood'
<1>0. [NextR]_allvars
  BY DEF NextR
<1>1. /\ clerk \in [Clerks -> [tpl: Templates \cup {Nobody}, due: Nat, done: BOOLEAN]]
      /\ nextDue \in [Templates -> Nat]
      /\ payments \in [Templates -> SUBSET Nat]
  BY DEF JobTypes, RecurringTypeOK
<1>2. \A q \in Processes :
        /\ run'[q].tpl # Nobody =>
             \/ run'[q].tpl = run[q].tpl /\ run'[q].due = run[q].due
             \/ <<run'[q].tpl, run'[q].due>> \in run[q].todo
             \/ GoodNow(run'[q].tpl, run'[q].due)
        /\ \A x \in run'[q].todo : x \in run[q].todo \/ x[2] = nextDue[x[1]]
  BY DEF MarkPaid, LoadForPayment
<1>3. CASE \E t \in HandPaid : LoadForPayment(c, t)
  <2>1. PICK t \in HandPaid : LoadForPayment(c, t)
    BY <1>3
  <2>2. /\ nextDue' = nextDue
        /\ \A b \in Clerks : b # c => clerk'[b] = clerk[b]
        /\ clerk'[c].tpl = t /\ clerk'[c].due = nextDue[t]
    <3> DEFINE row == [clerk[c] EXCEPT !.tpl = t]
    <3>1. row.tpl = t /\ row \in [tpl: Templates \cup {Nobody}, due: Nat, done: BOOLEAN]
      BY <1>1, RecurringAssumption
    <3>2. clerk' = [clerk EXCEPT ![c] = [row EXCEPT !.due = nextDue[t]]] /\ nextDue' = nextDue
      BY <1>1, <2>1 DEF LoadForPayment
    <3> HIDE DEF row
    <3> QED BY <1>1, <3>1, <3>2
  <2> QED BY <1>0, <1>2, <2>2, CopiesStayGood
<1>4. CASE MarkPaid(c)
  <2> DEFINE t == clerk[c].tpl
             read == clerk[c].due
  <2>1. t \in Templates /\ read \in Nat /\ Good(t, read)
    BY <1>1, <1>4 DEF MarkPaid, DatesGood
  <2>2. /\ payments' = [payments EXCEPT ![t] = @ \cup {read}]
        /\ nextDue' = [nextDue EXCEPT ![t] = IF PaidUpTo(c) = read THEN @ ELSE PaidUpTo(c)]
        /\ clerk' = [clerk EXCEPT ![c].done = TRUE]
        /\ PaidUpTo(c) = After(t, IF read = NoDate THEN FirstDate ELSE read)
    BY <1>4 DEF MarkPaid, PaidUpTo
  <2> HIDE DEF t, read
  <2>3. GoodNow(t, PaidUpTo(c))
    <3>1. CASE read = NoDate
      BY <2>1, <2>2, <3>1, FirstDateIsGood DEF GoodNow
    <3>2. CASE read # NoDate
      <4>1. GoodNow(t, read)
        BY <1>0, <2>1, GoodStays
      <4>2. read \in payments'[t]
        BY <1>1, <2>1, <2>2
      <4> QED BY <2>1, <2>2, <3>2, <4>1, <4>2, NextDateIsGood DEF GoodNow, GoodDate, Met
    <3> QED BY <3>1, <3>2
  <2>4. \A u \in Templates : nextDue'[u] = nextDue[u] \/ GoodNow(u, nextDue'[u])
    BY <1>1, <2>1, <2>2, <2>3
  <2>5. \A b \in Clerks : clerk'[b].tpl = clerk[b].tpl /\ clerk'[b].due = clerk[b].due
    BY <1>1, <2>2
  <2> QED BY <1>0, <1>2, <2>4, <2>5, CopiesStayGood
<1> QED BY <1>3, <1>4

LEMMA DatesGoodStep ==
  ASSUME JobTypes, DatesGood, [NextR]_allvars
  PROVE  DatesGood'
<1>1. CASE UNCHANGED <<nextDue, run, clerk>>
  BY <1>1, CopiesStayGood
<1>2. ASSUME NEW p \in Processes, RunStep(p) PROVE DatesGood'
  BY <1>2, LoopDates, GenerateDates DEF RunStep
<1>3. ASSUME NEW s \in Processes, NEW orphan \in BOOLEAN, Abandon(s, orphan) PROVE DatesGood'
  <2>1. run \in [Processes -> RunRow]
    BY DEF JobTypes, RecurringTypeOK, RunRow
  <2>2. /\ UNCHANGED <<nextDue, clerk>>
        /\ \A q \in Processes : run'[q] = run[q] \/ run'[q] = NoRun
    BY <1>3, <2>1 DEF Abandon
  <2>3. NoRun.tpl = Nobody /\ NoRun.todo = {}
    BY DEF NoRun
  <2> QED BY <2>2, <2>3, CopiesStayGood
<1>7. ASSUME NEW s \in Servers, NEW orphan \in BOOLEAN, Die(s, orphan) PROVE DatesGood'
  BY <1>3, <1>7 DEF Die, Processes
<1>8. ASSUME NEW p \in Processes, NEW orphan \in BOOLEAN, Fail(p, orphan) PROVE DatesGood'
  BY <1>3, <1>8 DEF Fail
<1>4. ASSUME NEW c \in Clerks, NEW t \in HandPaid, LoadForPayment(c, t) PROVE DatesGood'
  BY <1>4, ClerkDates
<1>5. ASSUME NEW c \in Clerks, MarkPaid(c) PROVE DatesGood'
  BY <1>5, ClerkDates
<1>6. CASE LeaseStep \/ NewDay \/ UNCHANGED allvars
  BY <1>1, <1>6 DEF LeaseStep, rvars, NewDay, allvars
<1> QED BY <1>2, <1>4, <1>5, <1>6, <1>7, <1>8 DEF NextR

(* No due date is lost: by the job, by staff marking the template as paid  *)
(* from a copy of any age, by a crash or an error, or by a template that   *)
(* ends or begins again.                                                   *)
THEOREM NoDateIsLost == SpecR => []NothingSkipped
<1>1. InitR => JobTypes /\ DatesGood
  BY JobTypesInit, DatesGoodInit
<1>2. JobTypes /\ DatesGood /\ [NextR]_allvars => (JobTypes /\ DatesGood)'
  BY JobTypesStep, DatesGoodStep
<1>3. DatesGood => NothingSkipped
  BY DEF DatesGood, Good, GoodDate, Passed, Met, NothingSkipped
<1> QED BY <1>1, <1>2, <1>3, PTL DEF SpecR

-----------------------------------------------------------------------------
(* One expense per date, of a template that only the job moves.            *)
JobOnly == Templates \ HandPaid

(* Only a process that works has a run. *)
IdleHasNoRun ==
  \A p \in Processes : ~Working(p) => run[p].tpl = Nobody /\ run[p].todo = {}

(* The row is ahead of every expense made. *)
RowAhead ==
  \A t \in JobOnly, d \in Dates :
    /\ children[t][d] <= 1
    /\ nextDue[t] # NoDate /\ d >= nextDue[t] => children[t][d] = 0

(* What the run has read is what the row says, until it moves it itself. *)
HeldIsRow ==
  \A p \in Processes :
    /\ run[p].tpl \in JobOnly => run[p].due = nextDue[run[p].tpl]
    /\ \A x \in run[p].todo :
         x[1] \in JobOnly => x[2] = nextDue[x[1]] /\ x[1] # run[p].tpl

ClerksKeepToTheirs == \A c \in Clerks : clerk[c].tpl \in HandPaid \cup {Nobody}

OnceInv == IdleHasNoRun /\ RowAhead /\ HeldIsRow /\ ClerksKeepToTheirs

LEMMA OnceInit ==
  ASSUME InitR
  PROVE  OnceInv
<1>1. IdleHasNoRun /\ HeldIsRow
  BY RecurringAssumption DEF InitR, NoRun, IdleHasNoRun, HeldIsRow, JobOnly
<1>2. RowAhead
  BY DEF InitR, RowAhead, JobOnly
<1>3. ClerksKeepToTheirs
  BY DEF InitR, NotYet, ClerksKeepToTheirs
<1> QED BY <1>1, <1>2, <1>3 DEF OnceInv

LEMMA OnceGenerate ==
  ASSUME JobTypes, RunsDisjoint, OnceInv, NEW p \in Processes, NEW posted \in BOOLEAN,
         Generate(p, posted)
  PROVE  OnceInv'
<1> DEFINE t == run[p].tpl
           d == run[p].due
<1>1. /\ children \in [Templates -> [Dates -> 0..MaxCopies]] /\ MaxCopies \in Nat
      /\ run \in [Processes -> RunRow] /\ nextDue \in [Templates -> Nat]
      /\ LastDay \in Nat
  BY RecurringAssumption DEF JobTypes, RecurringTypeOK, RunRow
<1>2. t # Nobody /\ MoreToMake(p) /\ Working(p)
  BY DEF Generate
<1>3. t \in Templates /\ d \in Dates /\ d # NoDate /\ d \in Nat
  BY <1>1, <1>2, DueIsDate DEF RunRow, Dates, FirstDate
<1>4. t \in JobOnly => d = nextDue[t]
  BY DEF OnceInv, HeldIsRow
<1>5. \A q \in Processes : q # p => run[q].tpl = Nobody /\ run[q].todo = {}
  BY <1>2 DEF RunsDisjoint, OnceInv, IdleHasNoRun
<1>6. \A x \in run[p].todo : x[1] \in JobOnly => x[2] = nextDue[x[1]] /\ x[1] # t
  BY DEF OnceInv, HeldIsRow
<1> HIDE DEF t, d
<1>7. /\ children' = [children EXCEPT ![t][d] = @ + 1]
      /\ nextDue' = [nextDue EXCEPT ![t] = After(t, d)]
      /\ run' = [run EXCEPT ![p].due = After(t, d), ![p].made = @ + 1]
      /\ UNCHANGED <<vars, clerk>>
  BY DEF Generate, SavedDue, t, d
<1>8. After(t, d) = NoDate \/ (After(t, d) = d + Period[t] /\ Period[t] \in Nat \ {0})
  BY <1>3, AfterType
<1>9. /\ \A q \in Processes : q # p => run'[q] = run[q]
      /\ run'[p].tpl = t /\ run'[p].due = After(t, d) /\ run'[p].todo = run[p].todo
  BY <1>1, <1>7 DEF RunRow, t
<1>10. IdleHasNoRun'
  <2>1. \A q \in Processes : Working(q)' = Working(q)
    BY <1>7 DEF vars, Working
  <2> QED BY <1>2, <1>5, <1>9, <2>1 DEF IdleHasNoRun
<1>11. RowAhead'
  <2> SUFFICES ASSUME NEW u \in JobOnly, NEW e \in Dates
               PROVE  /\ children'[u][e] <= 1
                      /\ nextDue'[u] # NoDate /\ e >= nextDue'[u] => children'[u][e] = 0
    BY DEF RowAhead, JobOnly
  <2>1. /\ children[u][e] <= 1 /\ children[u][e] \in Nat
        /\ nextDue[u] # NoDate /\ e >= nextDue[u] => children[u][e] = 0
        /\ e \in Nat /\ u \in Templates /\ nextDue[u] \in Nat
    BY <1>1 DEF OnceInv, RowAhead, JobOnly, Dates, FirstDate
  <2>2. CASE u # t
    BY <1>1, <1>3, <1>7, <2>1, <2>2
  <2>3. CASE u = t /\ e # d
    <3>1. children'[u][e] = children[u][e] /\ nextDue'[u] = After(t, d)
      BY <1>1, <1>3, <1>7, <2>1, <2>3
    <3> QED BY <1>3, <1>4, <1>8, <2>1, <2>3, <3>1
  <2>4. CASE u = t /\ e = d
    <3>1. children[t][d] = 0
      BY <1>3, <1>4, <2>1, <2>4
    <3>2. children'[u][e] = 1 /\ nextDue'[u] = After(t, d)
      BY <1>1, <1>3, <1>7, <2>4, <3>1
    <3> QED BY <1>3, <1>8, <2>4, <3>2
  <2> QED BY <2>2, <2>3, <2>4
<1>12. HeldIsRow'
  <2> SUFFICES ASSUME NEW q \in Processes
               PROVE  /\ run'[q].tpl \in JobOnly => run'[q].due = nextDue'[run'[q].tpl]
                      /\ \A x \in run'[q].todo :
                           x[1] \in JobOnly => x[2] = nextDue'[x[1]] /\ x[1] # run'[q].tpl
    BY DEF HeldIsRow, JobOnly
  <2>1. CASE q = p
    <3>1. \A x \in run[p].todo : x[1] \in JobOnly => nextDue'[x[1]] = nextDue[x[1]]
      BY <1>1, <1>3, <1>6, <1>7 DEF JobOnly
    <3>2. nextDue'[t] = After(t, d)
      BY <1>1, <1>3, <1>7
    <3> QED BY <1>6, <1>9, <2>1, <3>1, <3>2
  <2>2. CASE q # p
    BY <1>5, <1>9, <2>2, RecurringAssumption DEF JobOnly
  <2> QED BY <2>1, <2>2
<1>13. ClerksKeepToTheirs'
  BY <1>7 DEF OnceInv, ClerksKeepToTheirs
<1> QED BY <1>10, <1>11, <1>12, <1>13 DEF OnceInv

LEMMA OnceLoop ==
  ASSUME JobTypes, OnceInv, NEW p \in Processes,
         ReadTemplates(p) \/ TakeTemplate(p) \/ LeaveTemplate(p) \/ EndRun(p)
  PROVE  OnceInv'
<1>1. /\ run \in [Processes -> RunRow]
      /\ \A q \in Processes : Working(q) \in BOOLEAN
      /\ work \in [Processes -> Idle..MaxWork]
  BY DEF JobTypes, RecurringTypeOK, RunRow, TypeOK, Working
<1>2. /\ UNCHANGED <<nextDue, clerk, children>>
      /\ \A q \in Processes : q # p => run'[q] = run[q] /\ Working(q)' = Working(q)
  BY <1>1 DEF ReadTemplates, TakeTemplate, LeaveTemplate, EndRun, Finish, Working, vars
<1>3. /\ Working(p)' \/ (run'[p].tpl = Nobody /\ run'[p].todo = {})
      /\ run'[p].tpl \in JobOnly => run'[p].due = nextDue[run'[p].tpl]
      /\ \A x \in run'[p].todo :
           x[1] \in JobOnly => x[2] = nextDue[x[1]] /\ x[1] # run'[p].tpl
  <2>1. CASE ReadTemplates(p)
    <3>1. PICK B \in Batches : run' = [run EXCEPT ![p] =
            [NoRun EXCEPT !.read = TRUE, !.asOf = today, !.todo = {<<t, nextDue[t]>> : t \in B}]]
      BY <2>1 DEF ReadTemplates
    <3>2. run'[p].tpl = Nobody /\ run'[p].todo = {<<t, nextDue[t]>> : t \in B}
      BY <1>1, <3>1 DEF NoRun
    <3>3. Working(p)'
      BY <2>1 DEF ReadTemplates, Working, vars
    <3> QED BY <3>2, <3>3, RecurringAssumption DEF JobOnly
  <2>2. CASE TakeTemplate(p)
    <3>1. PICK x \in run[p].todo :
            run' = [run EXCEPT ![p].todo = @ \ {x}, ![p].tpl = x[1], ![p].due = x[2], ![p].made = 0]
      BY <2>2 DEF TakeTemplate
    <3>2. run'[p].todo = run[p].todo \ {x} /\ run'[p].tpl = x[1] /\ run'[p].due = x[2]
      BY <1>1, <3>1 DEF RunRow
    <3>3. \A y \in run[p].todo : y = <<y[1], y[2]>>
      BY <1>1 DEF RunRow
    <3>4. \A y \in run[p].todo : y[1] \in JobOnly => y[2] = nextDue[y[1]]
      BY DEF OnceInv, HeldIsRow
    <3>5. \A y \in run'[p].todo : y[1] \in JobOnly => y[1] # x[1]
      BY <3>2, <3>3, <3>4
    <3>6. Working(p)'
      BY <2>2 DEF TakeTemplate, Working, vars
    <3> QED BY <3>2, <3>4, <3>5, <3>6
  <2>3. CASE LeaveTemplate(p)
    <3>1. run'[p].tpl = Nobody /\ run'[p].todo = run[p].todo
      BY <1>1, <2>3 DEF LeaveTemplate, RunRow
    <3>2. Working(p)'
      BY <2>3 DEF LeaveTemplate, Working, vars
    <3>3. \A x \in run[p].todo : x[1] \in JobOnly => x[2] = nextDue[x[1]]
      BY DEF OnceInv, HeldIsRow
    <3> QED BY <3>1, <3>2, <3>3, RecurringAssumption DEF JobOnly
  <2>4. CASE EndRun(p)
    <3>1. run'[p].tpl = Nobody /\ run'[p].todo = {}
      BY <1>1, <2>4 DEF EndRun, NoRun
    <3> QED BY <3>1, RecurringAssumption DEF JobOnly
  <2> QED BY <2>1, <2>2, <2>3, <2>4
<1>4. IdleHasNoRun'
  BY <1>2, <1>3 DEF OnceInv, IdleHasNoRun
<1>5. HeldIsRow'
  BY <1>2, <1>3 DEF OnceInv, HeldIsRow
<1>6. RowAhead' /\ ClerksKeepToTheirs'
  BY <1>2 DEF OnceInv, RowAhead, ClerksKeepToTheirs, JobOnly
<1> QED BY <1>4, <1>5, <1>6 DEF OnceInv

LEMMA OnceClerk ==
  ASSUME JobTypes, OnceInv, NEW c \in Clerks,
         MarkPaid(c) \/ \E t \in HandPaid : LoadForPayment(c, t)
  PROVE  OnceInv'
<1>1. /\ clerk \in [Clerks -> [tpl: Templates \cup {Nobody}, due: Nat, done: BOOLEAN]]
      /\ nextDue \in [Templates -> Nat]
  BY DEF JobTypes, RecurringTypeOK
<1>2. UNCHANGED <<vars, children, run>>
  BY DEF MarkPaid, LoadForPayment
<1>3. \A t \in JobOnly : nextDue'[t] = nextDue[t]
  <2>1. ASSUME MarkPaid(c) PROVE clerk[c].tpl \in HandPaid
    BY <2>1 DEF MarkPaid, OnceInv, ClerksKeepToTheirs
  <2> QED BY <1>1, <2>1 DEF MarkPaid, LoadForPayment, JobOnly
<1>4. ClerksKeepToTheirs'
  <2>1. CASE MarkPaid(c)
    BY <1>1, <2>1 DEF MarkPaid, OnceInv, ClerksKeepToTheirs
  <2>2. CASE \E t \in HandPaid : LoadForPayment(c, t)
    <3>1. PICK t \in HandPaid : LoadForPayment(c, t)
      BY <2>2
    <3> DEFINE row == [clerk[c] EXCEPT !.tpl = t]
    <3>2. row.tpl = t /\ row \in [tpl: Templates \cup {Nobody}, due: Nat, done: BOOLEAN]
      BY <1>1, RecurringAssumption
    <3>3. clerk' = [clerk EXCEPT ![c] = [row EXCEPT !.due = nextDue[t]]]
      BY <1>1, <3>1 DEF LoadForPayment
    <3> HIDE DEF row
    <3> QED BY <1>1, <3>2, <3>3 DEF OnceInv, ClerksKeepToTheirs
  <2> QED BY <2>1, <2>2
<1>5. IdleHasNoRun'
  BY <1>2 DEF vars, OnceInv, IdleHasNoRun, Working
<1>6. RowAhead'
  BY <1>2, <1>3 DEF OnceInv, RowAhead, JobOnly
<1>7. HeldIsRow'
  BY <1>2, <1>3 DEF OnceInv, HeldIsRow, JobOnly
<1> QED BY <1>4, <1>5, <1>6, <1>7 DEF OnceInv

LEMMA OnceStep ==
  ASSUME JobTypes, RunsDisjoint, OnceInv, [NextR]_allvars
  PROVE  OnceInv'
<1>1. ASSUME UNCHANGED <<children, nextDue, run, clerk>>,
             \A p \in Processes : Working(p) => Working(p)'
      PROVE  OnceInv'
  BY <1>1 DEF OnceInv, IdleHasNoRun, RowAhead, HeldIsRow, ClerksKeepToTheirs, JobOnly
<1>2. CASE LeaseStep
  <2>1. work \in [Processes -> Idle..MaxWork] /\ Processes = Servers \cup Crons
    BY DEF JobTypes, RecurringTypeOK, TypeOK, Processes
  <2>2. ASSUME NEW p \in Processes, NEW q \in Processes, NEW ttl, TryAcquire(q, ttl), Working(p)
        PROVE  Working(p)'
    BY <2>1, <2>2 DEF TryAcquire, Working, Idle
  <2>3. ASSUME TimePasses, NEW p \in Processes, Working(p) PROVE Working(p)'
    BY <2>1, <2>3, LeaseAssumption DEF TimePasses, Working, Idle
  <2>4. ASSUME NEW p \in Processes, Working(p), work' = work PROVE Working(p)'
    BY <2>4 DEF Working
  <2>5. \A p \in Processes : Working(p) => Working(p)'
    BY <1>2, <2>1, <2>2, <2>3, <2>4 DEF LeaseStep, Start, Tick, CronCall
  <2> QED BY <1>1, <1>2, <2>5 DEF LeaseStep, rvars
<1>3. ASSUME NEW p \in Processes, RunStep(p) PROVE OnceInv'
  BY <1>3, OnceLoop, OnceGenerate DEF RunStep
<1>4. ASSUME NEW p \in Processes, NEW orphan \in BOOLEAN, Abandon(p, orphan),
             work' = [work EXCEPT ![p] = Idle]
      PROVE  OnceInv'
  <2>1. run \in [Processes -> RunRow] /\ work \in [Processes -> Idle..MaxWork]
    BY DEF JobTypes, RecurringTypeOK, RunRow, TypeOK
  <2>2. UNCHANGED <<nextDue, children, clerk>> /\ run' = [run EXCEPT ![p] = NoRun]
    BY <1>4 DEF Abandon
  <2>3. NoRun.tpl = Nobody /\ NoRun.todo = {} /\ Nobody \notin JobOnly
    BY RecurringAssumption DEF NoRun, JobOnly
  <2>4. IdleHasNoRun'
    BY <1>4, <2>1, <2>2, <2>3 DEF OnceInv, IdleHasNoRun, Working
  <2>5. HeldIsRow'
    BY <2>1, <2>2, <2>3 DEF OnceInv, HeldIsRow, JobOnly
  <2>6. RowAhead' /\ ClerksKeepToTheirs'
    BY <2>2 DEF OnceInv, RowAhead, ClerksKeepToTheirs, JobOnly
  <2> QED BY <2>4, <2>5, <2>6 DEF OnceInv
<1>8. ASSUME NEW s \in Servers, NEW orphan \in BOOLEAN, Die(s, orphan) PROVE OnceInv'
  BY <1>4, <1>8 DEF Die, Crash, Processes
<1>9. ASSUME NEW p \in Processes, NEW orphan \in BOOLEAN, Fail(p, orphan) PROVE OnceInv'
  BY <1>4, <1>9 DEF Fail, Finish
<1>5. ASSUME NEW c \in Clerks, NEW t \in HandPaid, LoadForPayment(c, t) PROVE OnceInv'
  BY <1>5, OnceClerk
<1>6. ASSUME NEW c \in Clerks, MarkPaid(c) PROVE OnceInv'
  BY <1>6, OnceClerk
<1>7. CASE NewDay \/ UNCHANGED allvars
  BY <1>1, <1>7 DEF NewDay, allvars, vars, rvars, Working
<1> QED BY <1>2, <1>3, <1>5, <1>6, <1>7, <1>8, <1>9 DEF NextR

(* However many servers and cron callers run the job, a template that only *)
(* the job moves gets one expense for each due date, if no run outlasts    *)
(* its lease: the rows are read unlocked, and the lease alone keeps a      *)
(* second run from reading them too.                                       *)
THEOREM OneExpensePerDate ==
  ASSUME MaxWork <= Ttl, MaxWork <= CronTtl
  PROVE  SpecR => []OncePerDueDate
<1>1. SpecR => []RunsDisjoint
  BY JobKeepsLease, LeaseExcludes, PTL
<1>2. InitR => JobTypes /\ OnceInv
  BY JobTypesInit, OnceInit
<1>3. JobTypes /\ OnceInv /\ RunsDisjoint /\ [NextR]_allvars => (JobTypes /\ OnceInv)'
  BY JobTypesStep, OnceStep
<1>4. OnceInv => OncePerDueDate
  BY DEF OnceInv, RowAhead, JobOnly, OncePerDueDate
<1> QED BY <1>1, <1>2, <1>3, <1>4, PTL DEF SpecR

-----------------------------------------------------------------------------
(* Entries without an expense and expenses without an entry, counted over  *)
(* all templates and dates.                                                *)
Slots == Templates \X Dates

LEMMA SlotsFinite == IsFiniteSet(Slots)
<1>1. IsFiniteSet(Dates)
  BY RecurringAssumption, FS_Interval DEF Dates, FirstDate
<1>2. IsFiniteSet(Templates)
  BY RecurringAssumption
<1> QED BY <1>1, <1>2, FS_Product DEF Slots

(* One place more adds at most as much to the sum. *)
LEMMA OneSlotMore ==
  ASSUME NEW f \in [Slots -> Nat], NEW g \in [Slots -> Nat], NEW x \in Slots, NEW n \in Nat,
         g[x] <= f[x] + n, \A y \in Slots : y # x => g[y] <= f[y]
  PROVE  SumFunctionOnSet(g, Slots) <= SumFunctionOnSet(f, Slots) + n
<1>1. IsFiniteSet(Slots) /\ IsFiniteSet(Slots \ {x})
  BY SlotsFinite, FS_RemoveElement
<1>2. /\ SumFunctionOnSet(g, Slots) = g[x] + SumFunctionOnSet(g, Slots \ {x})
      /\ SumFunctionOnSet(f, Slots) = f[x] + SumFunctionOnSet(f, Slots \ {x})
  BY <1>1, SumRemove
<1>3. SumFunctionOnSet(g, Slots \ {x}) <= SumFunctionOnSet(f, Slots \ {x})
  BY <1>1, SumMonotone
<1>4. SumFunctionOnSet(g, Slots \ {x}) \in Nat /\ SumFunctionOnSet(f, Slots \ {x}) \in Nat
  BY <1>1, SumNat
<1> QED BY <1>2, <1>3, <1>4

LEMMA ExcessTypes ==
  ASSUME NEW more \in [Templates -> [Dates -> Nat]], NEW less \in [Templates -> [Dates -> Nat]]
  PROVE  /\ Excess(more, less) \in [Slots -> Nat]
         /\ SumFunction(Excess(more, less)) = SumFunctionOnSet(Excess(more, less), Slots)
         /\ SumFunction(Excess(more, less)) \in Nat
<1>1. ASSUME NEW x \in Slots PROVE more[x[1]][x[2]] \in Nat /\ less[x[1]][x[2]] \in Nat
  BY DEF Slots
<1>2. Excess(more, less) \in [Slots -> Nat]
  BY <1>1 DEF Excess, Slots
<1>3. SumFunction(Excess(more, less)) = SumFunctionOnSet(Excess(more, less), Slots)
  BY <1>2 DEF SumFunction
<1> HIDE DEF Excess
<1> QED BY <1>2, <1>3, SlotsFinite, SumNat

(* One more on the longer side of a date, or on both sides of it, is one   *)
(* more at most or none.                                                   *)
LEMMA ExcessGrows ==
  ASSUME NEW more \in [Templates -> [Dates -> Nat]], NEW less \in [Templates -> [Dates -> Nat]],
         NEW t \in Templates, NEW d \in Dates, NEW n \in {0, 1}, NEW m \in {0, 1},
         NEW k \in {0, 1}, n <= m + k
  PROVE  SumFunction(Excess([more EXCEPT ![t][d] = @ + n], [less EXCEPT ![t][d] = @ + m]))
           <= SumFunction(Excess(more, less)) + k
<1> DEFINE longer == [more EXCEPT ![t][d] = @ + n]
           shorter == [less EXCEPT ![t][d] = @ + m]
           f == Excess(more, less)
           g == Excess(longer, shorter)
<1>1. /\ longer \in [Templates -> [Dates -> Nat]] /\ shorter \in [Templates -> [Dates -> Nat]]
      /\ \A u \in Templates, e \in Dates :
           /\ longer[u][e] = IF u = t /\ e = d THEN more[u][e] + n ELSE more[u][e]
           /\ shorter[u][e] = IF u = t /\ e = d THEN less[u][e] + m ELSE less[u][e]
           /\ more[u][e] \in Nat /\ less[u][e] \in Nat
  OBVIOUS
<1> HIDE DEF longer, shorter
<1>2. ASSUME NEW u \in Templates, NEW e \in Dates
      PROVE  g[<<u, e>>] <= f[<<u, e>>] + (IF u = t /\ e = d THEN k ELSE 0)
  <2>1. /\ g[<<u, e>>] = IF longer[u][e] > shorter[u][e] THEN longer[u][e] - shorter[u][e] ELSE 0
        /\ f[<<u, e>>] = IF more[u][e] > less[u][e] THEN more[u][e] - less[u][e] ELSE 0
    BY DEF Excess
  <2> HIDE DEF f, g
  <2>2. CASE u = t /\ e = d
    BY <1>1, <2>1, <2>2
  <2>3. CASE ~(u = t /\ e = d)
    BY <1>1, <2>1, <2>3
  <2> QED BY <2>2, <2>3
<1>3. /\ f \in [Slots -> Nat] /\ g \in [Slots -> Nat] /\ <<t, d>> \in Slots
      /\ SumFunction(f) = SumFunctionOnSet(f, Slots) /\ SumFunction(g) = SumFunctionOnSet(g, Slots)
  BY <1>1, ExcessTypes DEF Slots
<1> HIDE DEF f, g
<1>4. \A y \in Slots : y # <<t, d>> => g[y] <= f[y]
  <2> SUFFICES ASSUME NEW u \in Templates, NEW e \in Dates, ~(u = t /\ e = d)
               PROVE  g[<<u, e>>] <= f[<<u, e>>]
    BY DEF Slots
  <2>1. f[<<u, e>>] \in Nat
    BY <1>3 DEF Slots
  <2> QED BY <1>2, <2>1
<1>5. g[<<t, d>>] <= f[<<t, d>>] + k /\ k \in Nat
  BY <1>2
<1>6. SumFunctionOnSet(g, Slots) <= SumFunctionOnSet(f, Slots) + k
  BY <1>3, <1>4, <1>5, OneSlotMore
<1> QED BY <1>3, <1>6 DEF longer, shorter, f, g

LEMMA BooksStep ==
  ASSUME JobTypes, EntriesMatchExpenses, [NextR]_allvars
  PROVE  EntriesMatchExpenses'
<1>1. /\ children \in [Templates -> [Dates -> Nat]] /\ entries \in [Templates -> [Dates -> Nat]]
      /\ crashes \in Nat /\ rollbacks \in Nat /\ unposted \in Nat /\ run \in [Processes -> RunRow]
  BY RecurringAssumption DEF JobTypes, RecurringTypeOK, RunRow
<1> DEFINE orphans == SumFunction(Excess(entries, children))
           missing == SumFunction(Excess(children, entries))
<1>2. orphans \in Nat /\ missing \in Nat
  BY <1>1, ExcessTypes
<1>3. orphans <= crashes + rollbacks /\ missing <= unposted
  BY DEF EntriesMatchExpenses
<1>4. CASE UNCHANGED <<children, entries, crashes, rollbacks, unposted>>
  BY <1>4 DEF EntriesMatchExpenses, Excess
<1>5. ASSUME NEW p \in Processes, NEW posted \in BOOLEAN, Generate(p, posted)
      PROVE  EntriesMatchExpenses'
  <2> DEFINE t == run[p].tpl
             d == run[p].due
             n == IF posted THEN 1 ELSE 0
             k == IF posted THEN 0 ELSE 1
  <2>1. t \in Templates /\ d \in Dates
    BY <1>1, <1>5, DueIsDate DEF Generate, RunRow
  <2>2. /\ children' = [children EXCEPT ![t][d] = @ + 1]
        /\ entries' = [entries EXCEPT ![t][d] = @ + n]
        /\ unposted' = unposted + k /\ crashes' = crashes /\ rollbacks' = rollbacks
    BY <1>5 DEF Generate, EntriesWith
  <2>3. n \in {0, 1} /\ k \in {0, 1} /\ n <= 1 + 0 /\ 1 <= n + k
    OBVIOUS
  <2> HIDE DEF t, d, n, k
  <2>4. SumFunction(Excess([entries EXCEPT ![t][d] = @ + n], [children EXCEPT ![t][d] = @ + 1]))
          <= orphans + 0
    BY <1>1, <2>1, <2>3, ExcessGrows
  <2>5. SumFunction(Excess([children EXCEPT ![t][d] = @ + 1], [entries EXCEPT ![t][d] = @ + n]))
          <= missing + k
    BY <1>1, <2>1, <2>3, ExcessGrows
  <2>6. /\ [entries EXCEPT ![t][d] = @ + n] \in [Templates -> [Dates -> Nat]]
        /\ [children EXCEPT ![t][d] = @ + 1] \in [Templates -> [Dates -> Nat]]
    BY <1>1, <2>1, <2>3
  <2> DEFINE booked == [entries EXCEPT ![t][d] = @ + n]
             made == [children EXCEPT ![t][d] = @ + 1]
  <2>7. SumFunction(Excess(booked, made)) \in Nat /\ SumFunction(Excess(made, booked)) \in Nat
    BY <2>6, ExcessTypes
  <2> HIDE DEF booked, made
  <2>8. SumFunction(Excess(booked, made)) <= crashes + rollbacks
    BY <1>1, <1>2, <1>3, <2>4, <2>7 DEF booked, made
  <2>9. SumFunction(Excess(made, booked)) <= unposted + k
    BY <1>1, <1>2, <1>3, <2>3, <2>5, <2>7 DEF booked, made
  <2> QED BY <2>2, <2>8, <2>9 DEF EntriesMatchExpenses, Excess, booked, made
<1>6. ASSUME NEW p \in Processes, NEW orphan \in BOOLEAN, Abandon(p, orphan),
             crashes' + rollbacks' = crashes + rollbacks + 1
      PROVE  EntriesMatchExpenses'
  <2> DEFINE t == run[p].tpl
             d == run[p].due
  <2>1. /\ children' = children /\ unposted' = unposted
        /\ entries' = IF orphan THEN [entries EXCEPT ![t][d] = @ + 1] ELSE entries
    BY <1>6 DEF Abandon
  <2>2. CASE ~orphan
    <3>1. orphans <= crashes' + rollbacks'
      BY <1>1, <1>2, <1>3, <1>6
    <3> QED BY <1>3, <2>1, <2>2, <3>1 DEF EntriesMatchExpenses, Excess
  <2>3. CASE orphan
    <3>1. t \in Templates /\ d \in Dates
      BY <1>1, <1>6, <2>3, DueIsDate DEF Abandon, RunRow
    <3> HIDE DEF t, d
    <3> DEFINE booked == [entries EXCEPT ![t][d] = @ + 1]
    <3>2. [children EXCEPT ![t][d] = @ + 0] = children
      BY <1>1, <3>1
    <3> DEFINE one == 1
               none == 0
    <3>9. one \in {0, 1} /\ none \in {0, 1} /\ one <= none + one /\ none <= one + none
      OBVIOUS
    <3> HIDE DEF one, none
    <3>10. SumFunction(Excess([entries EXCEPT ![t][d] = @ + one], [children EXCEPT ![t][d] = @ + none]))
            <= SumFunction(Excess(entries, children)) + one
      BY <1>1, <3>1, <3>9, ExcessGrows
    <3>11. SumFunction(Excess([children EXCEPT ![t][d] = @ + none], [entries EXCEPT ![t][d] = @ + one]))
            <= SumFunction(Excess(children, entries)) + none
      BY <1>1, <3>1, <3>9, ExcessGrows
    <3>3. SumFunction(Excess(booked, children)) <= orphans + 1
      BY <3>2, <3>10 DEF one, none
    <3>4. SumFunction(Excess(children, booked)) <= missing + 0
      BY <3>2, <3>11 DEF one, none
    <3>5. booked \in [Templates -> [Dates -> Nat]]
      BY <1>1, <3>1
    <3> HIDE DEF booked
    <3>6. SumFunction(Excess(booked, children)) \in Nat /\ SumFunction(Excess(children, booked)) \in Nat
      BY <1>1, <3>5, ExcessTypes
    <3>7. SumFunction(Excess(booked, children)) <= crashes' + rollbacks'
      BY <1>1, <1>2, <1>3, <1>6, <3>3, <3>6
    <3>8. SumFunction(Excess(children, booked)) <= unposted
      BY <1>1, <1>2, <1>3, <3>4, <3>6
    <3> QED BY <2>1, <2>3, <3>7, <3>8 DEF EntriesMatchExpenses, Excess, booked
  <2> QED BY <2>2, <2>3
<1>7. ASSUME NEW s \in Servers, NEW orphan \in BOOLEAN, Die(s, orphan)
      PROVE  EntriesMatchExpenses'
  BY <1>1, <1>6, <1>7 DEF Die, Processes
<1>8. ASSUME NEW p \in Processes, NEW orphan \in BOOLEAN, Fail(p, orphan)
      PROVE  EntriesMatchExpenses'
  BY <1>1, <1>6, <1>8 DEF Fail
<1> HIDE DEF orphans, missing
<1> QED BY <1>4, <1>5, <1>7, <1>8
        DEF NextR, LeaseStep, rvars, allvars, accidents, RunStep, ReadTemplates, TakeTemplate,
            LeaveTemplate, EndRun, LoadForPayment, MarkPaid, NewDay

(* The books and the expenses the job generated differ by the accidents    *)
(* and no more: each crash or rollback leaves at most one entry without an *)
(* expense, each failed posting at most one expense without an entry.      *)
THEOREM EntriesAccounted == SpecR => []EntriesMatchExpenses
<1>1. InitR => JobTypes /\ EntriesMatchExpenses
  <2> SUFFICES ASSUME InitR PROVE EntriesMatchExpenses
    BY JobTypesInit
  <2>1. /\ children \in [Templates -> [Dates -> Nat]] /\ entries \in [Templates -> [Dates -> Nat]]
        /\ crashes + rollbacks = 0 /\ unposted = 0
    BY DEF InitR
  <2>2. /\ \A x \in Slots : Excess(entries, children)[x] = 0
        /\ \A x \in Slots : Excess(children, entries)[x] = 0
    BY DEF InitR, Excess, Slots
  <2>3. SumFunction(Excess(entries, children)) = 0 /\ SumFunction(Excess(children, entries)) = 0
    BY <2>1, <2>2, ExcessTypes, SlotsFinite, SumZero
  <2> QED BY <2>1, <2>3 DEF EntriesMatchExpenses
<1>2. JobTypes /\ EntriesMatchExpenses /\ [NextR]_allvars => (JobTypes /\ EntriesMatchExpenses)'
  BY JobTypesStep, BooksStep
<1> QED BY <1>1, <1>2, PTL DEF SpecR
==============================================================================

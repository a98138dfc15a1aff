---------------------------- MODULE SchedulerLease ----------------------------
(***************************************************************************)
(* The cross-process lease of the background jobs (utils/schedulerLock.js) *)
(* with the timers of several API servers and the cron endpoint that       *)
(* shares the lease name (accountingOutboxScheduler.js, routes/internal.js *)
(* and the four schedulers built like it).                                 *)
(*                                                                         *)
(* Time is relative: the lease and the timers hold what is left of them,   *)
(* in any unit.  Timers fire on time and all clocks agree, which favours   *)
(* the code.                                                               *)
(***************************************************************************)
EXTENDS Integers

CONSTANTS
  Servers,     \* processes with a setInterval scheduler
  Crons,       \* external callers of the internal endpoint
  Interval,    \* intervalMs
  Ttl,         \* lease asked for by a server
  CronTtl,     \* LEASE_MS
  MaxWork,     \* longest a run takes
  Nobody

ASSUME LeaseAssumption ==
  /\ Servers \cap Crons = {} /\ Nobody \notin Servers \cup Crons
  /\ Interval \in Nat \ {0} /\ Ttl \in Nat \ {0} /\ CronTtl \in Nat \ {0} /\ MaxWork \in Nat

VARIABLES
  lease,     \* scheduler_lock row: lockedBy, and lockedUntil - now
  up,        \* servers running
  timer,     \* per server, time until its interval fires
  work       \* per process, how long its run has taken, or Idle

vars == <<lease, up, timer, work>>

Processes == Servers \cup Crons
Idle == -1
Expired == -1       \* lockedUntil < now
LongestLease == IF Ttl > CronTtl THEN Ttl ELSE CronTtl

TypeOK ==
  /\ lease \in [holder: Processes \cup {Nobody}, left: Expired..LongestLease]
  /\ up \in [Servers -> BOOLEAN]
  /\ timer \in [Servers -> 0..Interval]
  /\ work \in [Processes -> Idle..MaxWork]

Init ==
  /\ lease = [holder |-> Nobody, left |-> Expired]
  /\ up = [s \in Servers |-> FALSE]
  /\ timer = [s \in Servers |-> Interval]
  /\ work = [p \in Processes |-> Idle]

Working(p) == work[p] # Idle

(* Mutants: the last instant counts as expired; only a missing row is free. *)
FreeEarly == lease.left <= 0
FreeOnce == lease.holder = Nobody

(* The upsert wins a missing row and an expired one, its own included. *)
Free == lease.left = Expired

TryAcquire(p, ttl) ==
  IF Free THEN lease' = [holder |-> p, left |-> ttl] /\ work' = [work EXCEPT ![p] = 0]
          ELSE UNCHANGED <<lease, work>>

Start(s) ==
  /\ ~up[s]
  /\ up' = [up EXCEPT ![s] = TRUE]
  /\ timer' = [timer EXCEPT ![s] = Interval]
  /\ UNCHANGED <<lease, work>>

(* The interval fires; a run still going on skips the tick. *)
Tick(s) ==
  /\ up[s] /\ timer[s] = 0
  /\ timer' = [timer EXCEPT ![s] = Interval]
  /\ IF Working(s) THEN UNCHANGED <<lease, work>> ELSE TryAcquire(s, Ttl)
  /\ UNCHANGED up

CronCall(c) ==
  /\ ~Working(c)
  /\ TryAcquire(c, CronTtl)
  /\ UNCHANGED <<up, timer>>

(* The run ends; nothing releases the lease. *)
Finish(p) ==
  /\ Working(p)
  /\ work' = [work EXCEPT ![p] = Idle]
  /\ UNCHANGED <<lease, up, timer>>

Crash(s) ==
  /\ up[s]
  /\ up' = [up EXCEPT ![s] = FALSE]
  /\ work' = [work EXCEPT ![s] = Idle]
  /\ UNCHANGED <<lease, timer>>

TimePasses ==
  /\ \A s \in Servers : up[s] => timer[s] > 0
  /\ \A p \in Processes : work[p] < MaxWork
  /\ lease' = [lease EXCEPT !.left = IF @ = Expired THEN @ ELSE @ - 1]
  /\ timer' = [s \in Servers |-> IF up[s] THEN timer[s] - 1 ELSE timer[s]]
  /\ work' = [p \in Processes |-> IF Working(p) THEN work[p] + 1 ELSE Idle]
  /\ UNCHANGED up

Next ==
  \/ \E s \in Servers : Start(s) \/ Tick(s) \/ Crash(s)
  \/ \E c \in Crons : CronCall(c)
  \/ \E p \in Processes : Finish(p)
  \/ TimePasses

Spec == Init /\ [][Next]_vars

(* Time passes, timers fire, runs end. *)
FairSpec ==
  /\ Spec
  /\ WF_vars(TimePasses)
  /\ \A s \in Servers : WF_vars(Tick(s))
  /\ \A p \in Processes : WF_vars(Finish(p))

-----------------------------------------------------------------------------
(* Two processes never run the job at once: holds while a run is no longer *)
(* than the shortest lease, since nothing renews one.                      *)
RunsDisjoint ==
  \A p, q \in Processes : p # q => ~(Working(p) /\ Working(q))

(* A server that stays up keeps the job running, whoever crashed holding   *)
(* the lease: somebody runs it again and again.                            *)
JobKeepsRunning ==
  (\E s \in Servers : <>[]up[s]) => []<>(\E p \in Processes : Working(p))
==============================================================================

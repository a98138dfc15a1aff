--------------------------- MODULE AccountingOutbox ---------------------------
(***************************************************************************)
(* The durable retry queue behind journal posting                          *)
(* (api/service/accountingOutboxService.js), with the journal writers it   *)
(* dispatches to (accountingService.js) for the three jobs of an order.    *)
(*                                                                         *)
(* A job row is inserted in the business transaction.  After its commit    *)
(* the request attempts the job once and writes the outcome through the    *)
(* instance it created; scheduler and cron drains claim rows under         *)
(* FOR UPDATE SKIP LOCKED, post each in a transaction of its own and       *)
(* record the outcomes when the claiming transaction commits.              *)
(*                                                                         *)
(* Posting one entry is one transaction serialised per store by the entry  *)
(* counter, hence one step.  The other job types post one entry, as        *)
(* order_journal does.                                                     *)
(***************************************************************************)
EXTENDS Integers, FiniteSets

CONSTANTS
  Orders,        \* orders of one store
  Drains,        \* drains that may run at once: servers' timers, cron calls
  MaxAttempts,   \* MAX_ATTEMPTS
  Limit,         \* rows one drain claims
  MaxCrashes     \* processes that die while they have work

ASSUME AttemptsAssumption == MaxAttempts \in Nat \ {0} /\ Limit \in Nat \ {0}
ASSUME CrashesAssumption == MaxCrashes \in Nat

JobTypes == {"order_journal", "order_cogs_journal", "reverse_order_journals"}
Jobs == Orders \X JobTypes
Entries == {"order", "cogs", "order_reversal", "cogs_reversal"}
Originals == {"order", "cogs"}

(* What a request enqueues and then attempts: a settlement the sale and    *)
(* its cost, a cancel or void their reversal.                              *)
Requests == Orders \X {"settle", "reverse"}
JobsOf(r) ==
  {r[1]} \X (IF r[2] = "settle" THEN {"order_journal", "order_cogs_journal"}
                                ELSE {"reverse_order_journals"})

VARIABLES
  outbox,     \* accounting_outbox rows
  births,     \* per row, its place in createdAt order
  worth,      \* per order, the entries that have an amount to post
  journal,    \* per order, how many live entries of each source type
  requests,   \* per request, the jobs it still attempts
  drains,     \* per drain, the rows it has locked and the outcomes so far
  crashes

vars == <<outbox, births, worth, journal, requests, drains, crashes>>

Row == [status: {"absent", "pending", "posted", "failed"}, attempts: 0..MaxAttempts]
Outcomes == {"none", "ok", "error"}

TypeOK ==
  /\ outbox \in [Jobs -> Row]
  /\ births \in [Jobs -> Nat]
  /\ worth \in [Orders -> SUBSET Originals]
  /\ journal \in [Orders -> [Entries -> Nat]]
  /\ requests \in [Requests -> [todo: SUBSET Jobs, leg: 1..2, outcome: Outcomes]]
  /\ drains \in [Drains -> [claimed: SUBSET Jobs, ok: SUBSET Jobs,
                            bad: SUBSET Jobs, leg: 1..2]]
  /\ crashes \in 0..MaxCrashes

RequestIdle == [todo |-> {}, leg |-> 1, outcome |-> "none"]
DrainIdle == [claimed |-> {}, ok |-> {}, bad |-> {}, leg |-> 1]

Init ==
  /\ outbox = [j \in Jobs |-> [status |-> "absent", attempts |-> 0]]
  /\ births = [j \in Jobs |-> 0]
  /\ worth = [o \in Orders |-> {}]
  /\ journal = [o \in Orders |-> [e \in Entries |-> 0]]
  /\ requests = [r \in Requests |-> RequestIdle]
  /\ drains = [d \in Drains |-> DrainIdle]
  /\ crashes = 0

Enqueued(r) == \E j \in JobsOf(r) : outbox[j].status # "absent"

(* The row created first: the sale before its cost, then creation order.   *)
Oldest(rows) ==
  CHOOSE j \in rows : \A k \in rows :
    \/ births[j] < births[k] \/ j = k
    \/ births[j] = births[k] /\ j[2] = "order_journal"

-----------------------------------------------------------------------------
(* A handler posts one entry per leg; only a reversal has two. *)
Entry(j, leg) ==
  CASE j[2] = "order_journal"      -> "order"
    [] j[2] = "order_cogs_journal" -> "cogs"
    [] OTHER -> IF leg = 1 THEN "order_reversal" ELSE "cogs_reversal"
LastLeg(j, leg) == j[2] = "reverse_order_journals" => leg = 2

(* Mutant: a reversal is posted from the payload, found or not. *)
HasAmountUnread(o, e) == e \in Originals => e \in worth[o]

(* Nothing to post when the amount is zero; a reversal mirrors the entry   *)
(* it finds, and does nothing when there is none.                          *)
HasAmount(o, e) ==
  CASE e \in Originals        -> e \in worth[o]
    [] e = "order_reversal"   -> journal[o]["order"] > 0
    [] e = "cogs_reversal"    -> journal[o]["cogs"] > 0
(* Mutant: no look at what is there. *)
PostAgain(o, e) ==
  journal' = IF HasAmount(o, e) THEN [journal EXCEPT ![o][e] = @ + 1] ELSE journal

(* Under the store's counter lock an existing entry is replayed. *)
CreateJournalEntry(o, e) ==
  journal' = IF HasAmount(o, e) /\ journal[o][e] = 0
             THEN [journal EXCEPT ![o][e] = 1] ELSE journal

(* Mutants: the row is rewritten whole; a failure never gives up. *)
RewriteFailed(row, attempts) ==
  [status   |-> IF attempts + 1 >= MaxAttempts THEN "failed" ELSE "pending",
   attempts |-> attempts + 1]
NeverExhausted(row, attempts) ==
  [row EXCEPT !.attempts = IF attempts + 1 < MaxAttempts THEN attempts + 1 ELSE MaxAttempts]

(* `attempts` is what the writer's instance holds.  Sequelize writes no    *)
(* status when the instance says 'pending' already.                        *)
MarkAttemptFailed(row, attempts) ==
  [row EXCEPT !.attempts = attempts + 1,
              !.status = IF attempts + 1 >= MaxAttempts THEN "failed" ELSE @]

MarkPosted(row) == [row EXCEPT !.status = "posted"]

-----------------------------------------------------------------------------
(* The business transactions enqueue, then their requests attempt. *)

Enqueue(r) ==
  /\ outbox' = [j \in Jobs |-> IF j \in JobsOf(r)
                               THEN [status |-> "pending", attempts |-> 0] ELSE outbox[j]]
  /\ births' = [j \in Jobs |-> IF j \in JobsOf(r)
                THEN Cardinality({k \in Jobs : outbox[k].status # "absent"}) ELSE births[j]]
  /\ requests' = [requests EXCEPT ![r] = [RequestIdle EXCEPT !.todo = JobsOf(r)]]
  /\ UNCHANGED <<journal, drains, crashes>>

(* An order settles at most once, and never after its cancellation. *)
SettleOrder(o, entries) ==
  /\ ~Enqueued(<<o, "settle">>) /\ ~Enqueued(<<o, "reverse">>)
  /\ worth' = [worth EXCEPT ![o] = entries]
  /\ Enqueue(<<o, "settle">>)

ReverseOrder(o) ==
  /\ ~Enqueued(<<o, "reverse">>)
  /\ Enqueue(<<o, "reverse">>)
  /\ UNCHANGED worth

Attempting(r) == requests[r].todo # {} /\ requests[r].outcome = "none"

(* attemptJob in the request: the handler's next leg succeeds ... *)
AttemptLeg(r) ==
  LET j == Oldest(requests[r].todo)
      leg == requests[r].leg
  IN /\ Attempting(r)
     /\ CreateJournalEntry(j[1], Entry(j, leg))
     /\ requests' = IF LastLeg(j, leg) THEN [requests EXCEPT ![r].outcome = "ok"]
                                       ELSE [requests EXCEPT ![r].leg = 2]
     /\ UNCHANGED <<outbox, births, worth, drains, crashes>>

(* Mutant: the posting function swallows its error. *)
SwallowFailure(r) ==
  /\ Attempting(r)
  /\ requests' = [requests EXCEPT ![r].outcome = "ok"]
  /\ UNCHANGED <<outbox, births, worth, journal, drains, crashes>>

(* ... or throws, leaving the legs before it posted. *)
AttemptFails(r) ==
  /\ Attempting(r)
  /\ requests' = [requests EXCEPT ![r].outcome = "error"]
  /\ UNCHANGED <<outbox, births, worth, journal, drains, crashes>>

(* recordImmediateAttempt: the UPDATE waits for a drain's lock, and knows  *)
(* only the row as it was enqueued.                                        *)
RecordImmediateAttempt(r) ==
  LET j == Oldest(requests[r].todo)
  IN /\ requests[r].outcome # "none"
     /\ \A d \in Drains : j \notin drains[d].claimed
     /\ outbox' = [outbox EXCEPT ![j] =
          IF requests[r].outcome = "ok" THEN MarkPosted(@) ELSE MarkAttemptFailed(@, 0)]
     /\ requests' = [requests EXCEPT ![r] = [RequestIdle EXCEPT !.todo = requests[r].todo \ {j}]]
     /\ UNCHANGED <<births, worth, journal, drains, crashes>>

-----------------------------------------------------------------------------
(* Drains. *)

(* Mutants: failed rows are claimed as well; the claim takes no lock. *)
ClaimableFailed ==
  {j \in Jobs : /\ outbox[j].status \in {"pending", "failed"}
                /\ \A d \in Drains : j \notin drains[d].claimed}
ClaimableUnlocked ==
  {j \in Jobs : outbox[j].status = "pending" /\ outbox[j].attempts < MaxAttempts}

Claimable ==
  {j \in Jobs : /\ outbox[j].status = "pending" /\ outbox[j].attempts < MaxAttempts
                /\ \A d \in Drains : j \notin drains[d].claimed}

(* The oldest Limit rows nobody has locked. *)
Claim(d) ==
  /\ drains[d] = DrainIdle
  /\ \E rows \in SUBSET Claimable :
       /\ rows # {} /\ Cardinality(rows) <= Limit
       /\ Cardinality(rows) < Limit => rows = Claimable
       /\ \A j \in rows, k \in Claimable \ rows : births[j] <= births[k]
       /\ drains' = [drains EXCEPT ![d].claimed = rows]
  /\ UNCHANGED <<outbox, births, worth, journal, requests, crashes>>

Todo(d) == drains[d].claimed \ (drains[d].ok \cup drains[d].bad)

DrainLeg(d) ==
  LET j == Oldest(Todo(d))
      leg == drains[d].leg
  IN /\ Todo(d) # {}
     /\ CreateJournalEntry(j[1], Entry(j, leg))
     /\ drains' = IF LastLeg(j, leg)
                  THEN [drains EXCEPT ![d].ok = @ \cup {j}, ![d].leg = 1]
                  ELSE [drains EXCEPT ![d].leg = 2]
     /\ UNCHANGED <<outbox, births, worth, requests, crashes>>

DrainFails(d) ==
  /\ Todo(d) # {}
  /\ drains' = [drains EXCEPT ![d].bad = @ \cup {Oldest(Todo(d))}, ![d].leg = 1]
  /\ UNCHANGED <<outbox, births, worth, journal, requests, crashes>>

Commit(d) ==
  /\ drains[d].claimed # {} /\ Todo(d) = {}
  /\ outbox' = [j \in Jobs |->
       CASE j \in drains[d].ok  -> MarkPosted(outbox[j])
         [] j \in drains[d].bad -> MarkAttemptFailed(outbox[j], outbox[j].attempts)
         [] OTHER               -> outbox[j]]
  /\ drains' = [drains EXCEPT ![d] = DrainIdle]
  /\ UNCHANGED <<births, worth, journal, requests, crashes>>

(* A process dies: a drain's transaction rolls its outcomes back and frees *)
(* its rows, what was posted stays posted, a request's attempts are gone.  *)
Crash ==
  /\ crashes < MaxCrashes
  /\ crashes' = crashes + 1
  /\ \/ \E r \in Requests : /\ requests[r] # RequestIdle
                            /\ requests' = [requests EXCEPT ![r] = RequestIdle]
                            /\ UNCHANGED drains
     \/ \E d \in Drains : /\ drains[d] # DrainIdle
                          /\ drains' = [drains EXCEPT ![d] = DrainIdle]
                          /\ UNCHANGED requests
  /\ UNCHANGED <<outbox, births, worth, journal>>

Drain == \E d \in Drains : Claim(d) \/ DrainLeg(d) \/ DrainFails(d) \/ Commit(d)

Next ==
  \/ \E o \in Orders : ReverseOrder(o) \/ \E entries \in SUBSET Originals :
                                            SettleOrder(o, entries)
  \/ \E r \in Requests : AttemptLeg(r) \/ AttemptFails(r) \/ RecordImmediateAttempt(r)
  \/ Drain
  \/ Crash

Spec == Init /\ [][Next]_vars

(* Some drain keeps being started and its transactions end: the timer of   *)
(* every server, or the cron caller.  Requests are promised nothing.       *)
FairSpec == Spec /\ WF_vars(Drain)

-----------------------------------------------------------------------------
(* Correctness. *)

(* However often a job is attempted, by its request, several drains and    *)
(* after crashes, a business event has at most one entry of each kind.     *)
PostedOnce == \A o \in Orders, e \in Entries : journal[o][e] <= 1

(* A reversal is only ever posted against an entry.                        *)
ReversalHasOriginal ==
  \A o \in Orders : /\ journal[o]["order_reversal"] <= journal[o]["order"]
                    /\ journal[o]["cogs_reversal"] <= journal[o]["cogs"]

(* A row marked posted has its entry in the books, if it had an amount.    *)
PostedMeansEntry ==
  \A o \in Orders :
    /\ outbox[<<o, "order_journal">>].status = "posted" /\ "order" \in worth[o]
         => journal[o]["order"] = 1
    /\ outbox[<<o, "order_cogs_journal">>].status = "posted" /\ "cogs" \in worth[o]
         => journal[o]["cogs"] = 1

(* Concurrent drains never work on the same row, nor on one that is not    *)
(* waiting.                                                                *)
ClaimsExclusive ==
  \A d \in Drains : \A j \in drains[d].claimed :
    /\ outbox[j].status = "pending"
    /\ \A e \in Drains \ {d} : j \notin drains[e].claimed

(* A posted row never waits again: the request's late record, made from    *)
(* the row as it was enqueued, takes no success back.                      *)
PostedIsFinal ==
  [][\A j \in Jobs : outbox[j].status = "posted" => outbox'[j].status = "posted"]_vars

(* No job waits for ever: it is posted, or given up and reported.          *)
EventuallyDecided ==
  \A j \in Jobs : outbox[j].status = "pending" ~> outbox[j].status # "pending"

(* Once the jobs of a cancelled or voided order are all posted, its        *)
(* revenue and cost are reversed.                                          *)
ReversedNetsOut ==
  \A o \in Orders :
    (\A t \in JobTypes : outbox[<<o, t>>].status = "posted") =>
      /\ journal[o]["order"] = journal[o]["order_reversal"]
      /\ journal[o]["cogs"] = journal[o]["cogs_reversal"]
==============================================================================

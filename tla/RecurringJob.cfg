CONSTANTS
  Servers = {s1}
  Crons = {c1}
  Interval <- MCInterval
  Ttl <- MCTtl
  CronTtl <- MCCronTtl
  MaxWork = 1
  Nobody = Nobody
  Templates = {t1, t2}
  HandPaid = {t2}
  Clerks = {k1}
  Period <- Periods
  EndDate = 3
  LastDay = 4
  BatchLimit = 1
  PerTemplate = 2
  MaxCopies = 2
  MaxCrashes = 1
  MaxRollbacks = 1
  MaxUnposted = 2
  Ended = {t1}
SPECIFICATION FairSpecR
INVARIANTS
  RecurringTypeOK
  NothingSkipped
  OncePerDueDate
  EntriesMatchExpenses
PROPERTIES
  DueIsGenerated

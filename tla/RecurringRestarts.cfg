CONSTANTS
  Servers = {s1}
  Crons = {}
  Interval <- MCInterval
  Ttl <- MCTtl
  CronTtl <- MCCronTtl
  MaxWork = 1
  Nobody = Nobody
  Templates = {t2}
  HandPaid = {t2}
  Clerks = {k1}
  Period <- Periods
  EndDate = 3
  LastDay = 4
  BatchLimit = 20
  PerTemplate = 30
  MaxCopies = 2
  MaxCrashes = 0
  MaxRollbacks = 0
  MaxUnposted = 1
  Ended = {}
SPECIFICATION SpecR
INVARIANT
  NoDuplicates

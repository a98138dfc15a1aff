CONSTANTS
  Servers = {s1}
  Crons = {c1}
  Interval <- MCInterval
  Ttl <- MCTtl
  CronTtl <- MCCronTtl
  MaxWork = 12
  Nobody = Nobody
SPECIFICATION FairSpec
INVARIANT
  RunsDisjoint

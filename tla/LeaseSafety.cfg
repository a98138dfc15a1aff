CONSTANTS
  Servers = {s1, s2}
  Crons = {c1}
  Interval <- MCInterval
  Ttl <- MCTtl
  CronTtl <- MCCronTtl
  MaxWork = 9
  Nobody = Nobody
SPECIFICATION FairSpec
INVARIANTS
  RunsDisjoint
PROPERTIES
  JobKeepsRunning

SPECIFICATION FairSpec
CONSTANTS
  MaxDay = 3
  Miners <- MCMiners
  LargeDays <- MCLargeDays
  RecentDays = 2
  MaxBatch = 2
  MaxRepairs = 1
  MaxFailures = 1
  MaxDeaths = 1
INVARIANT SuccessMeansServed
PROPERTY ImplementsReplica
PROPERTY EventuallyServed
CHECK_DEADLOCK FALSE

CONSTANTS
  Topologies <- MCSmall
  MaxIn = 8
  MaxOut = 8
  Workers = {w1}
  MaxJobs = 4
SPECIFICATION FairSpec
PROPERTIES StopAlwaysReturns
CHECK_DEADLOCK FALSE

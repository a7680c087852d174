CONSTANTS
  Topologies <- MCTopologies
  MaxIn = 1
  MaxOut = 1
  Workers = {w1, w2}
  MaxJobs = 4
SPECIFICATION FairSpec
INVARIANTS TypeOK LoopersRunOnce QuietWhenStopped CrashesOnlyUnbuilt NodesHaveQueues
PROPERTIES NobodyQueuesAfterStop  EveryInputRuns
CHECK_DEADLOCK FALSE

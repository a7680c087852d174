CONSTANTS
  Topologies <- MCSender
  MaxIn = 8
  MaxOut = 8
  Workers = {w1}
  MaxJobs = 4
SPECIFICATION Spec
INVARIANTS OutputNodesGetData
CHECK_DEADLOCK FALSE

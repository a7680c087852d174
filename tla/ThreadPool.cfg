CONSTANTS
  Workers = {w1, w2, w3}
  Producers = {p1, p2}
  Looping = {3}
  MaxJobs = 4
SPECIFICATION FairSpec
INVARIANTS TypeOK JobsInOrder OneWorkerPerJob NoLostWakeup NobodySleepsThroughStop
PROPERTIES NothingBeginsAfterStop JobsBegin StopReturns
CHECK_DEADLOCK FALSE

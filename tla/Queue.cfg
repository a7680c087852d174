CONSTANTS
  a = a
  b = b
  c = c
  d = d
  NoThread = NoThread
  Threads <- MCThreads
  Usages <- AllUsages
  MaxPush = 5
  MaxCopy = 6
SPECIFICATION Spec
INVARIANTS TypeOK FirstInFirstOut TestedPopFindsData
PROPERTY PauseFreezes
CHECK_DEADLOCK FALSE

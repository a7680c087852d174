CONSTANTS
  Clients = {c1, c2, c3}
  Workers = {w1}
  NoFd = NoFd
  BACKLOG = 2
  MaxRead = 1
  MaxSend = 2
SPECIFICATION FairSpec
INVARIANTS AloneInOrder ClientsKept AloneDefined
PROPERTY ClientsServed
CHECK_DEADLOCK FALSE

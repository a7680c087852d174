CONSTANTS
  Clients = {c1}
  Workers = {w1, w2}
  NoFd = NoFd
  BACKLOG = 2
  MaxRead = 1
  MaxSend = 1
SPECIFICATION FairSpec
PROPERTY RunReturns
CHECK_DEADLOCK FALSE

CONSTANTS
  Clients = {c1, c2}
  Workers = {w1, w2}
  NoFd = NoFd
  BACKLOG = 2
  MaxRead = 1
  MaxSend = 2
SPECIFICATION Spec
INVARIANTS TypeOK ReadOnce
CHECK_DEADLOCK FALSE

CONSTANTS
  Clients = {c1}
  Workers = {w1}
  NoFd = NoFd
  BACKLOG = 2
  MaxRead = 1
  MaxSend = 2
SPECIFICATION Spec
INVARIANT NothingLeftUnread
CHECK_DEADLOCK FALSE

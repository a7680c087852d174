CONSTANTS
  Feeders = {"f1", "f2"}
  Consumers = {"c1", "c2"}
  Removable = {}
  Modes = {"BROADCAST", "MAP"}
  MaxIn = 2
  MaxOut = 2
  MaxPush = 2
  MaxVector = 2
SPECIFICATION Spec
INVARIANTS TypeOK TotalOrder ExactlyOnce ChecksStillHold FifoPerFeeder
PROPERTY ImplementsChannel

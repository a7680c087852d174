CONSTANTS
  Feeders = {"f1", "f2", "empty"}
  Consumers = {"c1", "empty"}
  Removable = {"f1"}
  Modes = {"BROADCAST", "MAP"}
  MaxIn = 2
  MaxOut = 1
  MaxPush = 1
  MaxVector = 3
SPECIFICATION FairSpec
INVARIANT RegistrySound
PROPERTIES Delivery StopEndsBroadcast

CONSTANTS
  Workers = {w1, w2}
  Crews = {{w1}, {w1, w2}}
  Name = "udp"
  Consumers = {"c1", "c2"}
  MaxSend = 3
SPECIFICATION FairSpec
INVARIANTS TypeOK FilesWithoutRepetition AloneInOrder FilesAgree
PROPERTY DatagramArrives

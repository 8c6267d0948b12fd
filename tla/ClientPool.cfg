SPECIFICATION Spec
CONSTANTS
  MaxClientCount = 4
  Connections = 5
  Workers = {w1, w2}
  Accepter = accepter
  PacketThread = packetThread
  MaxTrouble = 1
  InTrouble = 2
  MaxSending = 1
INVARIANTS TypeOK SlotsExact CountExact FrontExists OneReceive AllReturned
SYMMETRY Symmetry
CHECK_DEADLOCK FALSE

SPECIFICATION FairSpec
CONSTANTS
  Sessions = {s1, s2}
  Workers = {w1, w2}
  MaxPackets = 3
INVARIANT OneRecvPerSocket
PROPERTIES DeliversInOrder ReceivedIsHandled
CHECK_DEADLOCK FALSE

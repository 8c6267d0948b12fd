SPECIFICATION FairSysSpec
CONSTANTS
  MaxUserId = 2
  MaxRoomId = 1
  Nicknames = {n1}
  NoName = noname
  Garbled = garbled
  Address <- MCAddress
  MaxJobs = 1
  MaxSends = 0
  Speech = {"C_BROADCAST"}
  Coalescing = FALSE
  MaxStream = 1
INVARIANT DisplaysFit
PROPERTY RequestsAnswered
CHECK_DEADLOCK FALSE

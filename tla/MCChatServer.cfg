SPECIFICATION Spec
CONSTANTS
  MaxUserId = 2
  MaxRoomId = 1
  Nicknames = {n1}
  NoName = noname
  Garbled = garbled
  Address <- MCAddress
  MaxJobs = 1
  MaxSends = 0
INVARIANTS TypeOK CurrentRoomHasMember RoomListsGrow
CHECK_DEADLOCK FALSE

SPECIFICATION SysSpec
CONSTANTS
  MaxUserId = 2
  MaxRoomId = 2
  Nicknames = {n1}
  NoName = noname
  Garbled = garbled
  Address <- MCAddress
  MaxJobs = 1
  MaxSends = 0
  Speech = {}
  Coalescing = FALSE
  MaxStream = 1
INVARIANTS SysTypeOK PagesMatchRooms ViewsAgree HandlersFindTheirRooms MembershipExact
PROPERTY ImplementsRoomTalk
CHECK_DEADLOCK FALSE

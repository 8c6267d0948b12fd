SPECIFICATION FairSpec
CONSTANTS
  Slots = 1
  Rooms = {1, 2}
  Leavers = {1}
  MaxPackets = 3
INVARIANTS TypeOK RoomAgreement CastWhereSent ConsoleHasOneUser
PROPERTIES QuitCloses ClosedClientEnds

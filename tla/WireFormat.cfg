SPECIFICATION Spec
CONSTANTS
  SOCKBUF_SIZE = 128
  Strings <- MCStrings
  RoomName <- MCRoomName
  UserIds = {1, 70000}
  RoomIds <- MCRoomIds
  RoomLists <- MCRoomLists
INVARIANT RoundTrip

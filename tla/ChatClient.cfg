SPECIFICATION Spec
CONSTANTS
  Lines = {"talk", "/lobby", "/quit"}
  MaxRooms = 2
  MaxPackets = 3
INVARIANTS TypeOK PageUsesItsDisplay SelectionHasId HandlersFitDisplay
PROPERTIES AnswersShown FailedSendEnds
CHECK_DEADLOCK FALSE

CONSTANTS
  Session = {s1, s2, s3}
  MaxTickets = 4
  OneAtATime = FALSE
  Nil = Nil
  Main = main
  Ops = {"bad-tags", "message", "next"}
  Assume = {"settled", "stop-in-chat"}
SPECIFICATION DSpec
SYMMETRY Symmetry
INVARIANTS
  NoOrphanRoom
  OneRoomPerMatch
  RoomSentToItsPair
PROPERTIES
  NoCrossTalk
CHECK_DEADLOCK FALSE

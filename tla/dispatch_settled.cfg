CONSTANTS
  Session = {s1, s2}
  MaxTickets = 3
  OneAtATime = FALSE
  Nil = Nil
  Main = main
  Ops = {"cancel", "message", "stop", "next", "report", "disconnect", "shutdown"}
  Assume = {"settled", "stop-in-chat", "no-refusals"}
SPECIFICATION DSpec
SYMMETRY Symmetry
INVARIANTS
  NoGhostChat
  ChatHasRoomOrNotice
  ShutdownEndsRooms
PROPERTIES
  OneSearchSpec
CHECK_DEADLOCK FALSE

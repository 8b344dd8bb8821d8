CONSTANTS
  Session = {s1, s2}
  MaxTickets = 2
  OneAtATime = FALSE
  Nil = Nil
  Main = main
  Ops = {"cancel", "stop", "disconnect"}
  Assume = {"no-refusals"}
SPECIFICATION FairDSpec
PROPERTIES
  MatchIsEntered
  EndedRoomIsTold
  GoneLeavesQueue
CHECK_DEADLOCK FALSE

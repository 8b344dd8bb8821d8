CONSTANTS
  Session = {s1, s2}
  MaxTickets = 2
  OneAtATime = FALSE
  Nil = Nil
  Main = main
  Ops = {"disconnect"}
  Assume = {"settled"}
SPECIFICATION DSpec
SYMMETRY Symmetry
PROPERTIES
  SearchAfterPeerLeft
CHECK_DEADLOCK FALSE

CONSTANTS
  Session = {s1, s2}
  MaxTickets = 2
  OneAtATime = FALSE
  Nil = Nil
  Main = main
  Ops = {"disconnect"}
  Assume = {"no-refusals"}
SPECIFICATION DSpec
SYMMETRY Symmetry
INVARIANTS
  NoGhostChat
CHECK_DEADLOCK FALSE

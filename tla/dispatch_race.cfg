CONSTANTS
  Session = {s1, s2}
  MaxTickets = 3
  OneAtATime = FALSE
  Nil = Nil
  Main = main
  Ops = {"cancel", "stop"}
  Assume = {"no-refusals"}
SPECIFICATION DSpec
SYMMETRY Symmetry
INVARIANTS
  DTypeOK
  NoLostSearcher
  SearchingIsCancellable
PROPERTIES
  RoomsSpec
CHECK_DEADLOCK FALSE

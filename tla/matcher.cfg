CONSTANTS
  Session = {s1, s2, s3}
  MaxTickets = 3
  OneAtATime = FALSE
  Nil = Nil
  Tag = {g1, g2}
  Timeout = 1
  LastTick = 2
SPECIFICATION MSpec
SYMMETRY Symmetry
INVARIANTS
  PendingOpen
  IndexedIsQueued
  IndexComplete
PROPERTIES
  BestPairFirst
  ScanLeavesNoPair
CHECK_DEADLOCK FALSE

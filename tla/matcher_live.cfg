CONSTANTS
  Session = {s1, s2, s3}
  MaxTickets = 3
  OneAtATime = TRUE
  Nil = Nil
  Tag = {g1}
  Timeout = 1
  LastTick = 1
SPECIFICATION FairMSpec
PROPERTIES
  ContractSpec
  NoEndlessWait
CHECK_DEADLOCK FALSE

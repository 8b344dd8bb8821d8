CONSTANTS
  Interval = 2
  Timeout = 1
  CheckEvery = 1
  PauseGrace = 5
  WriteDeadline = 2
  Delay = 1
  SendCap = 2
  MaxWire = 2
SPECIFICATION FairConnSpec
INVARIANTS
  SilentIsCut
  PumpsEndTogether
PROPERTIES
  OnlySilentAreCut
  StalledIsCut
CHECK_DEADLOCK FALSE

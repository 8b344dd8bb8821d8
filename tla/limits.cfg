CONSTANTS
  LastTick = 7
  Rate = 2
  Grain = 3
  Burst = 2
  Ip = {ip1}
  Window = 2
  Threshold = 3
  Ban = 3
  MaxReports = 6
SPECIFICATION LSpec
INVARIANTS
  AllowIsExact
  BannedIffReported
CHECK_DEADLOCK FALSE

CONSTANTS
  MaxConn = 2
  MaxUp = 2
  SendCap = 2
SPECIFICATION CSpec
INVARIANTS
  CTypeOK
  ChatIsBacked
  PartnerIsSeen
  SearchIsSeen
  DeadChatIsMissedNotice
  AwayIsTrue
  PausedIsHidden
PROPERTIES
  Reconnects
CHECK_DEADLOCK FALSE

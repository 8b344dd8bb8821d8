CONSTANTS
  Session = {s1, s2, s3}
  RoomId = {r1, r2}
  Caller = {main, c1, c2}
  Main = main
  OtherEnvelope <- MCNoOther
  Nil = Nil
  MaxBuilt = 2
SPECIFICATION Spec
SYMMETRY Symmetry
CONSTRAINT FewRooms
INVARIANTS
  RoomIndexSound
  ClosedOnce
  UnlinkedIsClosing
  NoLineAfterPeerLeft

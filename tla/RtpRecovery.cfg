CONSTANTS
  Streams = {a, b}
  NoStream = none
  MaxPending = 1
  MaxSessions = 2
  Packets = {"picture", "key"}
  Oversize = FALSE
SPECIFICATION FairSpec
PROPERTIES
  StopReturns
  EndIsNoticed
  PictureReturns
CHECK_DEADLOCK FALSE

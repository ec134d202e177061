CONSTANTS
  Streams = {a, b}
  NoStream = none
  MaxPending = 2
  MaxSessions = 2
  Packets = {"params", "picture", "key", "head", "tail"}
  Oversize = TRUE
SPECIFICATION Spec
INVARIANTS
  PicturesFollowTheirKey
  QueueIsSound
  NothingLeftBehind
CHECK_DEADLOCK FALSE

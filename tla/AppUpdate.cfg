SPECIFICATION Spec
CONSTANTS
  Pids = {1, 2, 3}
  MaxRunners = 2
  Release = 2
  None = None
PROPERTIES
  AStartSucceeds
  UpdateComesBack
CHECK_DEADLOCK FALSE

CONSTANTS
  Callers = {"sender", "tray"}
  MaxCount = 2
  TemplateCount = 1
  Nodes = {1, 2}
  Samples = 3
  MaxJobs = 3
SPECIFICATION FairSpec
INVARIANTS
  DriverOK
  DuplicateNeedsRace
PROPERTIES
  SenderIsAnswered
CHECK_DEADLOCK FALSE

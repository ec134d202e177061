CONSTANTS
  modeA = modeA
  modeB = modeB
  Receivers = {1, 2}
  Caps = {modeA}
  PinnedCaps = modeA
  AutoHost = TRUE
  Pinned = {}
  MaxReceivers = 2
  MaxBundled = 1
  EnableVirtualDisplay = TRUE
  Grace = 2
  AlertAfter = 2
  MaxFailures = 3
  MaxCommands = 1
SPECIFICATION FairSpec
PROPERTIES
  StopTerminates
  FailureStreakReachesTray
  ReceiversAreServed
  DisplaysAreReturned

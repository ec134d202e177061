CONSTANTS
  modeA = modeA
  modeB = modeB
  Receivers = {1, 2}
  Caps <- TwoModes
  PinnedCaps = modeA
  AutoHost = TRUE
  Pinned = {}
  MaxReceivers = 2
  MaxBundled = 2
  EnableVirtualDisplay = TRUE
  Grace = 2
  AlertAfter = 2
  MaxFailures = 3
  MaxCommands = 2
SPECIFICATION Spec
INVARIANTS
  AudioFollowsVideo
  DisabledAudioIsSilent
  OwnDisplayEach
  PreparationIsNotStale
  NoUnreportedStream
PROPERTIES
  StreamSurvivesMissedPasses
  ImplementsSession

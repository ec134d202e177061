CONSTANTS
  Receivers = {a, b}
  Reports <- MixedReports
  Ceilings = {600, 1100}
  Interval = 2
  KeyInterval = 4
  MinKey = 1
  StaleAfter = 2
  MaxU32 = 120000
  MaxLag = 1
SPECIFICATION Spec
INVARIANTS
  RateWithinBounds
  PacerFollowsEncoder
  RequestsAreSpaced
PROPERTIES
  RisesAreEarned
  RateRecovers
  RateYields

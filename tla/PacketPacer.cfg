CONSTANTS
  Rates = {2, 4}
  Sizes = {1, 2, 5}
  Peers = {1, 2}
  MinSleep = 1
  MaxDelay = 3
  BurstTime = 2
  MinBurst = 5
  MaxBurst = 7
  MaxIdle = 10
SPECIFICATION Spec
INVARIANT RateIsKept
PROPERTY RestedLinkIsNotDelayed

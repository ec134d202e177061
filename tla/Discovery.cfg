SPECIFICATION Spec
CONSTANTS
  Receivers = {1, 2, 3}
  Homes <- MCHomes
  Foreign = {3}
  Offices <- MCOffices
  Multicast = {28, 29, 30, 31}
  Skipped = {20, 21, 22, 23}
  Lan <- MCLan
  ScanBits = 3
  MaxProbes = 8
  Pids = {1, 2}
  MaxRestarts = 3
  MaxErrors = 1
  Limit = 2
  None = None
PROPERTIES
  ResultIsCanonical
  PeerIsFound

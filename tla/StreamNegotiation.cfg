SPECIFICATION Spec
CONSTANTS
  Receivers = {1, 2}
  Desks <- MCDesks
  RecvArgs <- MCRecvArgs
  Peers <- MCPeers
  Senders <- MCSenders
  SendArgs <- MCSendArgs
  Modes <- MCModes
  MinMode <- MCMinMode
  MaxBundled = 2
  None = None
INVARIANTS
  SentFramesFit
  TexturesStayOnOneGpu
  StreamsAreUnderstood

SPECIFICATION Spec
CONSTANTS
  Pieces = {0, 1}
  BlockCount <- TwoOne
  PieceSize <- Sizes
  Hosts = {h1, h2}
  Liars = {h2}
  NoHost = NoHost
  MaxJoins = 2
  Bitfields <- AllPieces
  HavePieces = {}
  PipelineDepth = 1
  MaxRead = 1
  NoPeer = NoPeer
INVARIANTS OnlyLiarsBanned NoBannedConnection EvidenceConvicts
PROPERTIES ImplementsPool

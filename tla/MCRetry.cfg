SPECIFICATION Spec
CONSTANTS
  Pieces = {0}
  BlockCount <- TwoBlocks
  PieceSize <- Sizes
  Hosts = {h1, h2}
  Liars = {h2}
  NoHost = NoHost
  MaxJoins = 2
  Bitfields <- AllPieces
  HavePieces = {}
  PipelineDepth = 1
  MaxRead = 1
  NoPeer = NoPeer
INVARIANTS RetryFromOnePeer

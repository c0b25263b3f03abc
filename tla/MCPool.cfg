SPECIFICATION Spec
CONSTANTS
  Pieces = {0, 1}
  BlockCount <- TwoOne
  PieceSize <- Sizes
  Hosts = {h1}
  Liars = {}
  NoHost = NoHost
  MaxJoins = 2
  Bitfields <- AllPieces
  HavePieces = {1}
  PipelineDepth = 2
  MaxRead = 2
  NoPeer = NoPeer
INVARIANTS NoBlockLost NoBlockHeldTwice NothingRejected SnubbedGetLeftovers PeersToldWhatWeHave ToldIsStored FrequencyCoversPeers

SPECIFICATION SteadySpec
CONSTANTS
  Pieces = {0}
  BlockCount <- TwoBlocks
  PieceSize <- Sizes
  Hosts = {h1, h2}
  Liars = {}
  NoHost = NoHost
  MaxJoins = 2
  Bitfields <- AllPieces
  HavePieces = {}
  PipelineDepth = 2
  MaxRead = 1
  NoPeer = NoPeer
  Steady = {h1}
PROPERTIES DownloadCompletes CompletionReported NoCompletionOnResume

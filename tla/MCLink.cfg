SPECIFICATION Spec
CONSTANTS
  Base = 10
  Field = 2
  MaxWord = 99
  htonl <- BigEndian
  ntohl <- Number
  Handshake <- Greeting
  MaxMessage = 7
  PieceCount = 3
  Bitfields <- ThreeBits
  BlockSize = 6
  ChunkSize = 6
  KernelSize = 7
  Outgoing <- Said
  MaxSends = 3
PROPERTIES ImplementsChannel

SPECIFICATION Spec
CONSTANTS
  Pieces = {0}
  Requests = {"first", "beyond"}
  PieceOf <- OnePiece
  Readable = {"first"}
  NoRequest = NoRequest
  MessageSize <- Sizes
  MaxQueuedBytes = 6
  MaxJoins = 2
  MaxOwed <- Asked
  MaxRead = 2
  MaxOwn = 1
  NoPeer = NoPeer
INVARIANTS QueuedBytesAgree StreamInSync OnlyWantedServed ServedWithinLimit BitfieldFirst

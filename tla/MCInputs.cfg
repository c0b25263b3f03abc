SPECIFICATION Spec
CONSTANTS
  Alphabet = {"-", "0", "1", "2", ":", "d", "e", "f", "i", "l"}
  Payload = {"e", "f"}
  MaxInput = 11
  Few = {"0", "1", ":", "d", "e", "f"}
  MaxLong = 17
  MaxDigits = 2
  MaxDepth = 2
  IntMax = 11
  InfoKey = "f"
  Limit = 7
  HashSize = 2
  PieceCap = 3
  Names = {1, 2}
  Width = 3
  MaxBits = 7
INVARIANTS AcceptsCanonical InfoIsDelimited AcceptsSound PiecesTile IsItsPieces
CHECK_DEADLOCK FALSE

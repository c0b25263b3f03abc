SPECIFICATION Spec
CONSTANTS
  MaxFiles = 3
  MaxTotal = 4
  MaxPieceLength = 3
INVARIANTS StoredIsIntact ReportedIsDurable

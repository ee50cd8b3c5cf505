SPECIFICATION MCSpec
CONSTANTS
  None = None
  Device = {a, b}
  Hook = {w, x, y}
  PieceOn = w
  ManifestOn = x
  Mover = a
  Moved = w
  AlsoMoved = x
  Few = 4
  Retention = 1
  DrainAfter = 2
  RelocateBatch = 2
  RecordEvery = 1
  MaxUploads = 2
  MaxMessages = 6
  MaxLog = 5
  MaxDay = 2
  MaxFaults = 2
INVARIANTS
  TypeOK CurrentReadable KeptBasesReadable  LeftoversGone
CHECK_DEADLOCK FALSE

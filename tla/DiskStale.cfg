SPECIFICATION Spec
CONSTANTS
  Spare = Spare
  Name = {A}
  Temp = {}
  Stuck = {}
  MaxSaves = 2
  MaxMoves = 0
  MaxFails = 1
  MaxCrashes = 0
  MaxFolders = 0
INVARIANTS
  SavedIsKept
CHECK_DEADLOCK FALSE

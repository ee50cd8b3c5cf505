SPECIFICATION DiskSpec
CONSTANTS
  A = A
  B = B
  T = T
  Spare = Spare
  Name = {A, B, T}
  Temp = {T}
  Stuck = {1}
  MaxSaves = 3
  MaxMoves = 2
  MaxFails = 1
  MaxCrashes = 1
  MaxFolders = 1
INVARIANTS
  TypeOK 
PROPERTIES
   OneNeverHoldsOthers
CHECK_DEADLOCK FALSE

SPECIFICATION Spec
CONSTANTS
  a = a
  b = b
  c = c
  d1 = d1
  d2 = d2
  u = u
  None = None
  Device = {d1, d2}
  Followers = {d2}
  Op = {a, b}
  Upload = {}
  Author <- TwoAndOne
  Guard <- NoGuard
  Rules <- SameRules
  Replays <- EveryReader
  MinRules = {3}
  BatchMax = 2
  MaxFaults = 0
  MaxDiskFaults = 1
INVARIANTS
  DiskIsContiguous
CHECK_DEADLOCK FALSE

SPECIFICATION FairSpec
CONSTANTS
  a = a
  b = b
  c = c
  d1 = d1
  d2 = d2
  u = u
  None = None
  Device = {d1, d2}
  Followers = {d2}
  Op = {a, b}
  Upload = {u}
  Author <- TwoAndOne
  Guard <- FirstGuarded
  Rules <- SameRules
  Replays <- EveryReader
  MinRules = {3}
  BatchMax = 2
  MaxFaults = 1
  MaxDiskFaults = 0
INVARIANTS
  OkIsApplied
PROPERTIES
  CallsEnd Converges
CHECK_DEADLOCK FALSE

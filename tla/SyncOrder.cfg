SPECIFICATION OrderSpec
CONSTANTS
  a = a
  b = b
  c = c
  d1 = d1
  d2 = d2
  u = u
  None = None
  Device = {d1, d2}
  Followers = {}
  Op = {a, b, c}
  Upload = {}
  Author <- TwoAndOne
  Guard <- NoGuard
  Rules <- NewerRules
  Replays <- OldReader
  MinRules = {3, 4}
  BatchMax = 2
  MaxFaults = 2
  MaxDiskFaults = 1
INVARIANTS
  TypeOK OwnOrder NeverPastUnreadable
PROPERTIES
  SharesLog
CHECK_DEADLOCK FALSE

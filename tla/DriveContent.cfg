SPECIFICATION FileSpec
CONSTANTS
  ROOT = ROOT
  RECOVERED = RECOVERED
  GALLERY = GALLERY
  None = None
  System = System
  Purged = Purged
  u1 = u1
  u2 = u2
  u3 = u3
  l1 = l1
  Device = {d1, d2}
  UserNode = {n1}
  Upload = {u1, u2, u3}
  UserName <- OneName
  Fold <- OneFold
  Plain <- TwoPlain
  Loc = {l1, l2}
  Started = {u1, u2, u3}
  RulesVersion = {2, 3}
  Selections = FALSE
  MaxSeq = 4
VIEW IndexView
SYMMETRY DeviceSymmetry
INVARIANTS
  TypeOK Bindings
PROPERTIES
  NoUnseenLoss VersionsKeep
CHECK_DEADLOCK FALSE

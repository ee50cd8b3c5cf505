SPECIFICATION TreeSpec
CONSTANTS
  ROOT = ROOT
  RECOVERED = RECOVERED
  GALLERY = GALLERY
  None = None
  System = System
  Purged = Purged
  u1 = u1
  u2 = u2
  u3 = u3
  l1 = l1
  Device = {d1, d2}
  UserNode = {n1, n2}
  Upload = {u1, u2}
  UserName <- CaseNames
  Fold <- CaseFold
  Plain <- NoPlain
  Loc = {l1}
  Started = {u1, u2}
  RulesVersion = {3, 4}
  Selections = TRUE
  MaxSeq = 4
VIEW IndexView
SYMMETRY Symmetry
INVARIANTS
  IsTree UniqueNames
PROPERTIES
  SpaceKept AppliedIsLive NoUnseenLoss UnseenTrashIsTold KeptStartsAgain
CHECK_DEADLOCK FALSE

SPECIFICATION Spec
CONSTANTS
  ROOT = ROOT
  RECOVERED = RECOVERED
  GALLERY = GALLERY
  None = None
  System = System
  n1 = n1
  n2 = n2
  u1 = u1
  d1 = d1
  d2 = d2
  Device <- Devices
  UserNode <- Nodes
  Upload <- Uploads
  UserName <- OneName
  Fold <- OneFold
  Plain <- NoPlain
  Loc = {l1}
  Top = n1
  Inside = n2
  Holds = u1
  Scenes <- FiveScenes
SYMMETRY Symmetry
INVARIANTS
  TypeOK EditsStay 
PROPERTIES
  MovedIsInOne NotesAreHandled
CHECK_DEADLOCK FALSE

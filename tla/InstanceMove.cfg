SPECIFICATION MCSpec
CONSTANTS
  None = None
  Upload = {u}
  Piece = {i}
  Hook = {h1, h2}
  Put = {p1, p2}
  MaxSessions = 2
  MaxMessages = 3
  MaxRestarts = 1
  MaxTorn = 1
SYMMETRY HookSymmetry
INVARIANTS
  TypeOK  AnswerStands MovedIsEmpty
CHECK_DEADLOCK FALSE

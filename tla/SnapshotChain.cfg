SPECIFICATION MCSpec
CONSTANTS
  None = None
  Device = {a, b}
  Unmetered = {a}
  DailyBases = 2
  WeeklyBases = 2
  DaysPerWeek = 2
  MaxHead = 5
  MaxDay = 6
  MaxRevision = 1
  MaxMoves = 1
  Writer = a
  ShortLog = 2
  FewDays = 1
  FewMessages = 6
INVARIANTS
  TypeOK   RetentionWindow
CHECK_DEADLOCK FALSE

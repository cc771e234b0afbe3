CONSTANTS
  w1 = w1
  w2 = w2
  Sessions = {1, 2}
  StartDays <- StartDaysOf
  Events = {1, 2}
  SessionTables = {"sessions", "turns"}
  Place <- PlaceOf
  Folded = {"turns"}
  Writers = {w1, w2}
  MaxBatch = 2
  MaxSessions = 2
  MaxSessionDays = 1
  MaxEventDays = 1
  Margin = 2
  DayLength = 3
  RunsAt = {2}
  MaxTime = 5
  MaxTx = 3
SPECIFICATION Spec
SYMMETRY Symmetry
INVARIANT TypeOK
 
PROPERTY CapsMoveOn
CHECK_DEADLOCK FALSE

CONSTANTS
  a = a
  b = b
  h1 = h1
  d1 = d1
  d2 = d2
  r1 = r1
  r2 = r2
  y1 = y1
  None = None
  MaxName = 2
  Ids = {a, b}
  IdOf <- OwnKeys
  Hooks = {h1}
  Drains = {d1}
  Redrivers = {}
  Replayers = {y1}
  BatchSize = 1
  MaxUndecided = 3
  Cap = 1
  Tags = {"schema"}
  Tearable = {1}
SPECIFICATION FairSpec
INVARIANT NothingLost
PROPERTY PendingDrains

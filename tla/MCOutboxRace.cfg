CONSTANTS
  a = a
  b = b
  h1 = h1
  d1 = d1
  d2 = d2
  r1 = r1
  r2 = r2
  y1 = y1
  None = None
  MaxName = 1
  Ids = {a, b}
  IdOf <- OwnKeys
  Hooks = {h1}
  Drains = {d1}
  Redrivers = {r1}
  Replayers = {}
  BatchSize = 1
  MaxUndecided = 2
  Cap = 2
  Tags = {"schema"}
  Tearable = {}
SPECIFICATION Spec
INVARIANT NothingLost

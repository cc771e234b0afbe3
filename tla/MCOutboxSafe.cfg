CONSTANTS
  a = a
  b = b
  h1 = h1
  d1 = d1
  d2 = d2
  r1 = r1
  r2 = r2
  y1 = y1
  None = None
  MaxName = 2
  Ids = {a, b}
  IdOf <- SameKey
  Hooks = {h1}
  Drains = {d1, d2}
  Redrivers = {r1}
  Replayers = {}
  BatchSize = 2
  MaxUndecided = 2
  Cap = 1
  Tags = {"schema"}
  Tearable = {1}
SPECIFICATION Spec
SYMMETRY Symmetry
INVARIANT TypeOK
INVARIANT QuarantineHasReason
INVARIANT SingleFlight
INVARIANT ParkedWasIgnored
PROPERTY ImplementsContract

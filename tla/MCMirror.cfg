CONSTANTS
  s1 = s1
  s2 = s2
  x1 = x1
  p1 = p1
  g1 = g1
  hall = hall
  dm = dm
  Own = Own
  Off = Off
  Gone = Gone
  None = None
  Servers = {s1, s2}
  People = {p1}
  Sessions = {x1}
  Groups = {g1}
  Owner <- OwnerOf
  Default <- FirstDefault
  Asks <- AsksOrNot
  Chosen = {hall}
  Rooms = {hall, dm}
  Private = dm
  Items = {1}
  Milestones = {}
  Lease = 0
  Quiet = 1
  MaxAttempts = 2
  DailyCap = 1
  ReplyBatch = 1
  MaxTime = 2
  MaxSpent = 1
SPECIFICATION Spec
SYMMETRY Symmetry
INVARIANT TypeOK
INVARIANT RepliesInTheirThread
INVARIANT ChosenAudience
PROPERTY ImplementsContract

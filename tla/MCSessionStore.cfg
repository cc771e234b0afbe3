CONSTANTS
  h = h
  t = t
  u = u
  k = k
  da = da
  db = db
  alice = alice
  bob = bob
  i1 = i1
  i2 = i2
  None = None
  Sessions <- TwoSessions
  Events = {h, t, u, k}
  Hooks = {h}
  Changes = {t, u}
  SessionOf <- SessionMap
  RecordOf <- RecordMap
  CallOf <- CallMap
  Copies <- CopySet
  MaxVersion = 2
  Devices = {da, db}
  PersonOf <- TwoPeople
  Instances = {i1}
  Poison = {2}
  OldEvents = {t}
  OldSessions = {2}
  MaxUploads = 2
  MaxBatch = 2
  MaxFaults = 1
SPECIFICATION FairSpec
INVARIANT TypeOK
INVARIANT OneOwner
INVARIANT CleanIsFolded
INVARIANT CostIsLedger
PROPERTY NoLateTwin
PROPERTY ImplementsContract
PROPERTY DirtyIsFolded
PROPERTY UploadsEnd
CHECK_DEADLOCK FALSE

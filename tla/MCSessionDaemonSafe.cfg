CONSTANTS
  p1 = p1
  p2 = p2
  p3 = p3
  None = None
  Probe = Probe
  Pids = {p1, p2}
  Reused = {p1, p2}
  ReusedOwners = {}
  MaxBuild = 2
  MaxOwner = 2
  MaxKills = 0
SPECIFICATION Spec
SYMMETRY Symmetry
INVARIANT TypeOK
INVARIANT OneDaemon
INVARIANT EndReasonHolds

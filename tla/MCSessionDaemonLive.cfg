CONSTANTS
  p1 = p1
  p2 = p2
  p3 = p3
  None = None
  Probe = Probe
  Pids = {p1, p2}
  Reused = {p1}
  ReusedOwners = {1}
  MaxBuild = 1
  MaxOwner = 1
  MaxKills = 1
SPECIFICATION FairSpec
PROPERTY EndedDaemonLeaves
PROPERTY OrphanIsClosed
PROPERTY PromptsRestoreDaemon

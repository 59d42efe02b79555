SPECIFICATION Spec
CONSTANTS
  Projects = {p1, p2}
  NoProject = NoProject
  Requests = {r1, r2, r3}
  Ops = {"blank", "clone", "start", "stop", "restart", "container", "repo", "metadata", "all"}
  DiskFails = FALSE
  MaxFaults = 0
  MaxGone = 0
  MaxCrashes = 1
SYMMETRY Symmetry
INVARIANTS
  TypeOK
  NoOrphans
  DeletesPrevail
PROPERTIES
  SequentialEffect
CHECK_DEADLOCK FALSE

SPECIFICATION Spec
CONSTANTS
  Projects = {p1}
  NoProject = NoProject
  Requests = {r1, r2, r3}
  Ops = {"blank", "clone", "start", "stop", "restart", "container", "repo", "metadata", "all"}
  DiskFails = TRUE
  MaxFaults = 1
  MaxGone = 0
  MaxCrashes = 0
SYMMETRY Symmetry
INVARIANTS
  WithinScope
PROPERTIES
  RepoKept
  HomeKept
CHECK_DEADLOCK FALSE

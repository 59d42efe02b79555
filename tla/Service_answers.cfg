SPECIFICATION FairSpec
CONSTANTS
  Projects = {p1, p2}
  NoProject = NoProject
  Requests = {r1, r2}
  Ops = {"blank", "clone", "start", "stop", "restart", "container", "repo", "metadata", "all"}
  DiskFails = FALSE
  MaxFaults = 1
  MaxGone = 1
  MaxCrashes = 1
INVARIANTS
  FailedCreateForgotten
PROPERTIES
  RequestsReturn
CHECK_DEADLOCK FALSE

SPECIFICATION Spec
CONSTANTS
  Projects = {p1}
  NoProject = NoProject
  Requests = {r1}
  Ops = {"blank"}
  DiskFails = FALSE
  MaxFaults = 0
  MaxGone = 1
  MaxCrashes = 0
SYMMETRY Symmetry
INVARIANTS
  FailedCreateLeavesNoContainer
CHECK_DEADLOCK FALSE

SPECIFICATION Spec
CONSTANTS
  Projects = {p1}
  NoProject = NoProject
  Requests = {r1, r2, r3}
  Ops = {"blank", "stop", "container"}
  DiskFails = FALSE
  MaxFaults = 0
  MaxGone = 0
  MaxCrashes = 0
SYMMETRY Symmetry
INVARIANTS
  StopIsIdempotent
CHECK_DEADLOCK FALSE

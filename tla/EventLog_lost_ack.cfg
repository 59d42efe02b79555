SPECIFICATION Spec
CONSTANTS
  Clients = {c1}
  Limits = {0, 1, 9}
  DefaultLimit = 2
  MaxLimit = 3
  MaxAppends = 3
INVARIANT
  AckedStayReadable

SPECIFICATION Spec
CONSTANTS
  Clients = {c1, c2}
  Limits = {0, 1, 9}
  DefaultLimit = 2
  MaxLimit = 3
  MaxAppends = 5
SYMMETRY Symmetry
INVARIANTS
  TypeOK
  IdsIncrease
  LossIsBounded
  IdsIdentifyEvents
  NothingSkipped
PROPERTIES
  NewEventsAreNewer
  ImplementsEventFeed

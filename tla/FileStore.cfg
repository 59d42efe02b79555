SPECIFICATION Spec
CONSTANTS
  Ids = {i1, i2}
  Readers = {r1}
  Deletes = {d1, d2}
INVARIANTS
  TypeOK
  NeverHalf
PROPERTY ImplementsAtomicStore
CHECK_DEADLOCK FALSE

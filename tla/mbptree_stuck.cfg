\* One appending and one finding thread leave the lock taken for ever.
SPECIFICATION Spec
CONSTANTS
  Appenders = {a1}
  Finders = {f1}
  BranchFactor = 3
  CounterSize = 16
  Serialized = FALSE
  AllocFails = FALSE
  MaxKeys = 2
INVARIANTS
  LockReleased
CHECK_DEADLOCK FALSE

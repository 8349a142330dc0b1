\* The tree as mqlog uses it, one call at a time, up to a depth of four.
SPECIFICATION Spec
CONSTANTS
  Appenders = {a1}
  Finders = {f1}
  BranchFactor = 3
  CounterSize = 16
  Serialized = TRUE
  AllocFails = FALSE
  MaxKeys = 19
INVARIANTS
  TypeOK
  FloorCorrect
  IterationComplete
  Balanced
  BfsComplete
  FreesAll
  LockReleased
CHECK_DEADLOCK FALSE

\* The tree as its header describes it, with no mutex around its calls.
SPECIFICATION Spec
CONSTANTS
  Appenders = {a1, a2}
  Finders = {f1}
  BranchFactor = 3
  CounterSize = 16
  Serialized = FALSE
  AllocFails = TRUE
  MaxKeys = 7
INVARIANTS
  Exclusion
SYMMETRY AppenderSymmetry
CHECK_DEADLOCK FALSE

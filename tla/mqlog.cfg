\* The log with two producers, a consumer and a syncing thread, through two
\* closes, deaths or crashes.
SPECIFICATION Spec
CONSTANTS
  Payloads = {"e", "s", "b", "x"}
  NoPayload = NoPayload
  SizeOf <- MCSizeOf
  EosLike = {}
  PageSize = 64
  Writers = {w1, w2}
  Readers = {r1}
  Syncers = {s1}
  NoThread = NoThread
  Size = 256
  RdCmt = FALSE
  Failing = {"open", "append", "floor"}
  MaxWrites = 3
  MaxStops = 2
INVARIANTS
  TypeOK
  PickedIsLast
  
  
  
  
  OpenFailsOnlyIf
PROPERTY LockReleased
SYMMETRY WriterSymmetry
CHECK_DEADLOCK FALSE

\* After one payload that is too large, small ones are refused as well.
SPECIFICATION Spec
CONSTANTS
  Payloads = {"s", "x"}
  NoPayload = NoPayload
  SizeOf <- MCSizeOf
  EosLike = {}
  PageSize = 64
  Writers = {w1}
  Readers = {}
  Syncers = {}
  NoThread = NoThread
  Size = 256
  RdCmt = FALSE
  Failing = {}
  MaxWrites = 3
  MaxStops = 0
INVARIANT NoCapacityOnlyIfTooLarge
CHECK_DEADLOCK FALSE

\* mqlog_sync while mqlog_write adds the first segment to the index.
SPECIFICATION Spec
CONSTANTS
  Payloads = {"s"}
  NoPayload = NoPayload
  SizeOf <- MCSizeOf
  EosLike = {}
  PageSize = 64
  Writers = {w1}
  Readers = {}
  Syncers = {s1}
  NoThread = NoThread
  Size = 256
  RdCmt = FALSE
  Failing = {}
  MaxWrites = 2
  MaxStops = 0
INVARIANT SyncFindsSegment
CHECK_DEADLOCK FALSE

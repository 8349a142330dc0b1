\* Two producers on a segment whose process dies once.
SPECIFICATION RestartSpec
CONSTANTS
  Writers = {w1, w2}
  Readers = {}
  Syncers = {}
  Payloads = {"s"}
  NoPayload = NoPayload
  SizeOf <- MCSizeOf
  EosLike = {}
  PageSize = 16
  Size = 288
  RdCmt = FALSE
  MaxWrites = 2
  MaxStops = 1
  MaxWriteBacks = 0
INVARIANT AckedReadBack
CHECK_DEADLOCK FALSE

\* Committed reads while a frame is being written.
SPECIFICATION Spec
CONSTANTS
  Writers = {w1}
  Readers = {r1}
  Syncers = {s1}
  Payloads = {"s", "l"}
  NoPayload = NoPayload
  SizeOf <- MCSizeOf
  EosLike = {}
  PageSize = 64
  Size = 128
  RdCmt = TRUE
  MaxWrites = 2
INVARIANT CommittedIsDurable
CHECK_DEADLOCK FALSE

\* Two producers at the end of the segment.
SPECIFICATION Spec
CONSTANTS
  Writers = {w1, w2}
  Readers = {}
  Syncers = {}
  Payloads = {"s", "f"}
  NoPayload = NoPayload
  SizeOf <- MCSizeOf
  EosLike = {}
  PageSize = 64
  Size = 128
  RdCmt = FALSE
  MaxWrites = 4
INVARIANT SpaceForEos
CHECK_DEADLOCK FALSE

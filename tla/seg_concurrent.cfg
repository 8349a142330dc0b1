\* Two producers and a consumer, under fair scheduling, on a segment that they
\* fill up.
SPECIFICATION FairSpec
CONSTANTS
  Writers = {w1, w2}
  Readers = {r1}
  Syncers = {}
  Payloads = {"s", "f"}
  NoPayload = NoPayload
  SizeOf <- MCSizeOf
  EosLike = {"f"}
  PageSize = 64
  Size = 128
  RdCmt = FALSE
  MaxWrites = 3
INVARIANT TypeOK
INVARIANT FramesDisjoint
INVARIANT ReadCorrect
PROPERTY ImplementsLog
 
CHECK_DEADLOCK FALSE

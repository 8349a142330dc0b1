\* One producer and one syncing thread on a segment that ends or is ended,
\* through a death of the process or a crash of the machine.
SPECIFICATION RestartSpec
CONSTANTS
  Writers = {w1}
  Readers = {}
  Syncers = {s1}
  Payloads = {"s", "f"}
  NoPayload = NoPayload
  SizeOf <- MCSizeOf
  EosLike = {"f"}
  PageSize = 16
  Size = 288
  RdCmt = TRUE
  MaxWrites = 3
  MaxStops = 1
  MaxWriteBacks = 1
INVARIANT SpaceForEos
INVARIANT CommittedBelowSync
INVARIANT SyncedIsDurable
INVARIANT AckedSurvive
INVARIANT SyncedSurvive
PROPERTY SealedStaysSealed
 
CHECK_DEADLOCK FALSE

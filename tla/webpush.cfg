SPECIFICATION Spec
CONSTANTS
  Payloads <- SomePayloads
  MaxPadding = 2
  MaxKeys = 2
  MaxMessages = 2
INVARIANTS
  DeliveredAsSent
  PaddingLoopEnds
  KeysOutlive
CHECK_DEADLOCK FALSE

CONSTANTS
  p1 = p1
  p2 = p2
  s1 = s1
  rot = rot
  Producers <- MCProducers
  Callers <- MCCallers
  Rotator = rot
  MessageSizes <- MCMessageSizes
  BlockSize = 1
  MaxBytes = 8
  MaxCalls = 2
SPECIFICATION Spec
CHECK_DEADLOCK FALSE
INVARIANT LoggerInv
INVARIANT SyncCovers
PROPERTY RingsPolled
PROPERTY CallsEnd

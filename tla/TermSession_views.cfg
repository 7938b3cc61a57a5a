SPECIFICATION FairSpec
CONSTANTS
  v1 = v1
  v2 = v2
  none = none
  pump = pump
  closing = closing
  Viewers = {v1, v2}
  None = none
  Drain = pump
  Closer = closing
  Cap = 3
  ChunkSizes = {2, 4}
  MaxOut = 4
  MaxStalls = 1
CHECK_DEADLOCK FALSE
INVARIANT TypeOK
INVARIANT RingIsTail
INVARIANT NothingMissed
INVARIANT EndedIsEmpty
INVARIANT ControllerAttached
PROPERTY EndCleansUp
PROPERTY OutputFlows

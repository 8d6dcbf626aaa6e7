SPECIFICATION FairSpec
CONSTANTS
  NItems = 4
  Capacity = 2
  MayThrow = TRUE
INVARIANTS TypeOK NoLostWakeup BoundedCells ChecksHold
PROPERTIES ImplementsStream CallsReturn
CHECK_DEADLOCK FALSE

SPECIFICATION Spec
CONSTANTS
  NEvents = 3
  MaxCandidates = 2
  HasCounter = TRUE
INVARIANTS OneEntryPerEvent
CHECK_DEADLOCK FALSE

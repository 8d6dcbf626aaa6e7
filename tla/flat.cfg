SPECIFICATION Spec
CONSTANTS
  NEvents = 3
  MaxCandidates = 2
  HasCounter = TRUE
INVARIANTS TypeOK ExactWithoutSkips EntryCountKept NoScoreLost FriendCheckSuffices
CHECK_DEADLOCK FALSE

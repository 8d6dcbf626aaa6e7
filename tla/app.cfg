SPECIFICATION Spec
CONSTANTS
  NEntries = 4
  SizeMax = 7
INVARIANTS TypeOK EveryEntryItsScore NeverAghr WrittenTreeFits
PROPERTIES AppEnds
CHECK_DEADLOCK FALSE

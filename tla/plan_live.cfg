SPECIFICATION PlanSpec
CONSTANTS
  Entries <- MCEntries
  TopologicalCuts <- MCTopologicalCuts
  DefinitionCuts <- MCDefinitionCuts
  PreCuts <- MCPreCuts
  PostCuts <- MCPostCuts
  NBdts = 2
  Mva <- MCMva
  BdtCuts <- MCBdtCuts
  CutVectors <- MCCutVectors
  Null = Null
  AnyOrder = TRUE
  NVars = 2
  Minvals <- MCMinvals
  Points <- MCPoints
INVARIANTS StageScansExact ListsComplete EfficienciesBelowOne
PROPERTIES CallersGoInOrder
CHECK_DEADLOCK FALSE

SPECIFICATION PlanSpec
CONSTANTS
  Entries <- MCEntries
  TopologicalCuts <- MCTopologicalCuts
  DefinitionCuts <- MCDefinitionCuts
  PreCuts <- MCPreCuts
  PostCuts <- MCPostCuts
  NBdts = 2
  Mva <- MCMva
  BdtCuts <- MCBdtCuts
  CutVectors <- MCCutVectors
  Null = Null
  AnyOrder = TRUE
  NVars = 2
  Minvals <- MCMinvals
  Points <- MCPoints
INVARIANTS DenominatorsOverFile
CHECK_DEADLOCK FALSE

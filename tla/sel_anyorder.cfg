SPECIFICATION Spec
CONSTANTS
  Entries <- MCEntries
  TopologicalCuts <- MCTopologicalCuts
  DefinitionCuts <- MCDefinitionCuts
  PreCuts <- MCPreCuts
  PostCuts <- MCPostCuts
  NBdts = 2
  Mva <- MCMva
  BdtCuts <- MCBdtCuts
  CutVectors <- MCCutVectors
  Null = Null
  AnyOrder = TRUE
INVARIANTS TypeOK ListsSound ActiveListExists
CHECK_DEADLOCK FALSE

SPECIFICATION Spec
CONSTANTS
  FileTypes <- MCFileTypes
  MaxFiles = 4
  Modes = {"train", "datamc", "gif", "flatten", "makefluxcovar"}
INVARIANTS
  TypeOK
  SignificanceSeesTheStack
  FileNumbersAreXMLNumbers
  NothingDrawnTwice
  LegendMatchesPlot
  TotalIsDrawn
  MergedAsConfigured
CHECK_DEADLOCK FALSE

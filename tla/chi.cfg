SPECIFICATION Spec
CONSTANTS
  NPeriods = 3
  Fractions <- MCFractions
  Unit = 10
  MaxEvents = 2
  Kinds = {"mc", "flat", "textgen", "onbeam", "offbeam"}
  Grids <- MCGrids
  NumIters = {1, 3}
  MaxChi = 2
  IntMax = 7
  SizeTMax = 255
INVARIANTS NormalisationKept
PROPERTIES BestCutsUsed
CHECK_DEADLOCK FALSE

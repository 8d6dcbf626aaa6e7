SPECIFICATION Spec
CONSTANTS
  Configs <- MCConfigs
  Trees <- MCTrees
  TreeOf <- MCTreeOf
  Hashes <- MCHashes
  HashOf <- MCInjectiveHash
  NoList = NoList
  MayCrash = FALSE
  MaxRuns = 3
INVARIANTS AlwaysFresh
CHECK_DEADLOCK FALSE

SPECIFICATION PipelineSpec
CONSTANTS
  Configs <- MCConfigs
  Trees <- MCTrees
  TreeOf <- MCTreeOf
  Hashes <- MCHashes
  HashOf <- MCCollidingHash
  EntriesOf <- MCEntriesOf
  NoList = NoList
  MayCrash = TRUE
  MaxRuns = 5
INVARIANTS PipelineTypeOK Fresh ListsHaveHash PrecutOfOwnTree LinesMatchList AcceptedScoresFit
PROPERTIES ImplementsBaseLists ImplementsScoreStore
CHECK_DEADLOCK FALSE

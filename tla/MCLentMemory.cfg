SPECIFICATION Spec
CONSTANTS
  NumLayers = 3
  BlockSize = 2
  TopLevelSize = 2
  NormSize = 1
  ProjSize = 2
  FfnSize = 10
  PackedSize = 1
  Align = 4
  NumHeads = 2
  SeqBlockSize = 4
  MaxScore = 2
  NumRequests = 2
  PromptLens = {1, 4}
  MaxLen = 5
  MaxBatch = 2
  NumBlocksOrg = 1
INVARIANTS LentInv WeightsReadBack KvReadBack LentCellsHoldKv LentTailsApart CombinedReaches AttendsWhereRowsAreMet
CHECK_DEADLOCK FALSE

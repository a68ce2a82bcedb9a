SPECIFICATION FairBenchSpec
CONSTANTS
  LayersPerAction = 1
  MaxQuantized = 2
  PressureSamples = 1
  RecoverySamples = 1
  CountBound = 1
  NumLayers = 1
  BaseBlocks = 2
  GroupSize = 1
  Unreclaimable = {}
  NumRequests = 3
  PromptLen = 2
  OutputLen = 3
  BlockSize = 2
  MaxBatchSize = 2
  MaxActive = 2
INVARIANTS BInv HeldBlocksOccupied OneRecordEach ServedInOrder
PROPERTIES NoServingOncePoisoned DrivesCoordinator EveryRequestRecorded

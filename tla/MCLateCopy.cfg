SPECIFICATION AsyncSpec
CONSTANTS
  LayersPerAction = 1
  MaxQuantized = 1
  PressureSamples = 1
  RecoverySamples = 1
  CountBound = 1
  NumLayers = 1
  BaseBlocks = 1
  GroupSize = 1
  Unreclaimable = {}
  CopyQueueBound = 3
  EventsMayFail = TRUE
INVARIANTS UnprovenIsPoisoned

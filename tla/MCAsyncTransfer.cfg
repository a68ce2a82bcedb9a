SPECIFICATION AsyncSpec
CONSTANTS
  LayersPerAction = 2
  MaxQuantized = 3
  PressureSamples = 1
  RecoverySamples = 1
  CountBound = 1
  NumLayers = 3
  BaseBlocks = 1
  GroupSize = 1
  Unreclaimable = {3}
  CopyQueueBound = 4
  EventsMayFail = FALSE
INVARIANTS StreamInv NoRace RunsInstalledWeights LentKvKept

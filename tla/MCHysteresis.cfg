SPECIFICATION HSpec
CONSTANTS
  LayersPerAction = 2
  MaxQuantized = 6
  PressureSamples = 2
  RecoverySamples = 3
  CountBound = 3
  NumLayers = 5
  BaseBlocks = 1
  GroupSize = 2
  Unreclaimable = {}
INVARIANTS ActsOnFullWindow WindowInv IInv NeverDiverged LentFromW4 CapacityConsistent
PROPERTIES LiveBlocksKept PoisonIsFinal ImplementsAtomicMorphing

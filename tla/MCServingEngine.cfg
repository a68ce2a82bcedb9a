SPECIFICATION FairSpec
CONSTANTS
  NumRequests = 3
  PromptLens = {1, 2}
  OutputLens = {1, 4}
  NumGpuBlocks = 3
  BlockSize = 2
  MaxBatchSize = 3
  MaxTokensInBatch = 4
  MaxSeqs = 3
  NumCpuBlocks = 3
  QuantServe = FALSE
  NumLayers = 1
  NumLayersToQuantize = 1
  NumLayersToQuantizeMax = 0
  LentBlocks = 1
  AwqLayers = 0
  ForwardFaults = 0
INVARIANTS KvIntact ForwardFits
PROPERTIES ImplementsFcfsService EveryRequestFinishes

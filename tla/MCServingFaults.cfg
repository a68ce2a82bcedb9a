SPECIFICATION Spec
CONSTANTS
  NumRequests = 3
  PromptLens = {1, 2}
  OutputLens = {1,3,5}
  NumGpuBlocks = 2
  BlockSize = 1
  MaxBatchSize = 2
  MaxTokensInBatch = 4
  MaxSeqs = 2
  NumCpuBlocks = 1
  QuantServe = TRUE
  NumLayers = 5
  NumLayersToQuantize = 3
  NumLayersToQuantizeMax = 0
  LentBlocks = 1
  AwqLayers = 0
  ForwardFaults = 1
CHECK_DEADLOCK FALSE
INVARIANTS SInv NoRequestLost BlocksAccounted IdsAccounted

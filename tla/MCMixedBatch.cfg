SPECIFICATION Spec
CONSTANTS
  NumRequests = 3
  PromptLens = {1, 2}
  OutputLens = {1, 3}
  NumGpuBlocks = 2
  BlockSize = 1
  MaxBatchSize = 2
  MaxTokensInBatch = 4
  MaxSeqs = 3
  NumCpuBlocks = 6
  QuantServe = TRUE
  NumLayers = 3
  NumLayersToQuantize = 2
  NumLayersToQuantizeMax = 0
  LentBlocks = 1
  AwqLayers = 0
  ForwardFaults = 0
INVARIANT AssertionHolds

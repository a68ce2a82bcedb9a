SPECIFICATION Spec
CONSTANTS
  NumRequests = 3
  PromptLens = {1, 2}
  OutputLens = {4}
  NumGpuBlocks = 3
  BlockSize = 1
  MaxBatchSize = 3
  MaxTokensInBatch = 4
  MaxSeqs = 3
  NumCpuBlocks = 10
  QuantServe = FALSE
  NumLayers = 3
  NumLayersToQuantize = 1
  NumLayersToQuantizeMax = 0
  LentBlocks = 1
  AwqLayers = 1
  ForwardFaults = 0
INVARIANT KvIntact

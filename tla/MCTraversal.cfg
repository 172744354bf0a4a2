SPECIFICATION MCSpec
CONSTANTS
  Parts = {"traversal", "open", "catchments"}
  Unit <- MCUnit
  Level <- MCLevel
  Dataset <- MCDataset
  OpenDataset <- MCOpenDataset
  OpenMaxLevel = 1
  OpenGroupSize = 2
  StoreFile <- MCStoreFile
  StoreIndexFile <- MCStoreIndexFile
  StoreRequest <- MCStoreRequest
  StoreConcurrency = 2
  None = None
  Null = Null
INVARIANTS
  TraversalExact
  CheckedDataSucceeds
  OpenDecidesRightly
  IndexExact
  QueryExact
PROPERTY
  TraversalEnds
\* A call stops when it has returned.
CHECK_DEADLOCK FALSE

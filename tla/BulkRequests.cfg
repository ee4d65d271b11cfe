SPECIFICATION Spec
CONSTANTS
  MetaSizes = {1, 2}
  DataSizes = {0, 1, 3, 6}
  BulkRequestMaxSize = 0
  DefaultMaxBulkSize = 5
  MaxPuts = 4
INVARIANTS
  TypeOK
  OperationsInOrder
  BulkSizeBounded
  SuccessMeansApplied
  PartialWriteIsPrefix
CHECK_DEADLOCK FALSE

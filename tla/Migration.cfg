SPECIFICATION FairSpec
CONSTANTS
  d1 = d1
  d2 = d2
  d3 = d3
  NoDoc = NoDoc
  Ids <- MCIds
  Timestamp <- MCTimestamp
  Unpreparable <- MCUnpreparable
  FromMetachain <- MCFromMetachain
  InitialClusters <- MCInitialClusters
  PageSize = 1
  BlockchainStartTime = 1
  Now = 4
  MaxParallelReads = 2
  CheckAccumulateInterval = 2
  MaxFailures = 1
INVARIANTS
  ReportExact
  AlterComplete
PROPERTIES
  AlterKeepsExecution
  ComparisonEnds

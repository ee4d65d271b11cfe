SPECIFICATION Spec
CONSTANTS
  NoDoc = NoDoc
  Shards <- MCShards
  MetaShard = "meta"
  MainChain = "main"
  OwnPrefix = "sov"
  ShardOf <- MCShardOf
  MainChainTokens <- MCMainChainTokens
  Scenarios <- MCScenarios
  MaxFailures = 1
  MaxItems = 1
INVARIANTS
  
  FeeRefunds
  UnDelegations
  TokenTypesFilled
  TokenFollowsChain
  CountsBoundedByDeliveries
  CrossChainTokens
CHECK_DEADLOCK FALSE

SPECIFICATION Spec
CONSTANTS
  s0 = s0
  s1 = s1
  a0 = a0
  a1 = a1
  tk = tk
  NoDoc = NoDoc
  Shards <- MCShards
  Accounts <- MCAccounts
  Tokens <- MCTokens
  ShardOf <- MCShardOf
  Contents <- MCContents
  Provided <- MCProvided
  MaxTime = 2
  MaxBlocks = 3
  MaxFailures = 1
  MaxLate = 1
  MaxMissed = 1
INVARIANT ProvidedAccountsSaved
CHECK_DEADLOCK FALSE

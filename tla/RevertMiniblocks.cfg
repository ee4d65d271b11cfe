SPECIFICATION Spec
CONSTANTS
  s0 = s0
  s1 = s1
  meta = meta
  all = all
  c = c
  i = i
  x = x
  y = y
  t1 = t1
  t2 = t2
  t3 = t3
  NoDoc = NoDoc
  MetaShard = meta
  AllShards = all
  Shards <- MCShards
  Miniblocks <- MCMiniblocks
  Txs <- MCTxs
  MbInfo <- MCMbInfo
  TxInfo <- MCTxInfo
  Contents <- ScrContents
  ImportDB = FALSE
  RefreshFails = FALSE
  MaxBlocks = 3
  MaxFailures = 1
INVARIANT RevertRemovesMiniblocks
CHECK_DEADLOCK FALSE

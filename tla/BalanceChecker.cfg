SPECIFICATION FairSpec
CONSTANTS
  u = u
  c = c
  t1 = t1
  t2 = t2
  NoDoc = NoDoc
  Accounts <- MCAccounts
  Contracts <- MCContracts
  Tokens <- MCTokens
  Held <- MCHeld
  Active <- MCActive
  PageOf <- MCPageOf
  Setups <- MCSetups
  StartTime = 2
  MaxBalance = 2
  MaxBlocks = 2
  MaxFailures = 1
  MaxThrottled = 1
  MaxParallel = 1
INVARIANTS
  RepairHarmless
  RepairComplete
PROPERTY CheckEnds
CHECK_DEADLOCK FALSE

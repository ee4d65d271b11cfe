SPECIFICATION FairSpec
CONSTANTS
  indexer = indexer
  creator = creator
  blocks = blocks
  values = values
  opendistro = opendistro
  h1 = h1
  r1 = r1
  Starters <- MCStarters
  IsCreator <- MCIsCreator
  Indexes <- MCIndexes
  Templates <- MCTemplates
  Values = values
  OpenDistroIndex = opendistro
  MapOrders <- MCMapOrders
  MaxFailures = 1
  Recorders <- MCRecorders
  Readers <- MCReaders
  MaxRecords = 2
  self = indexer
  MaxRestarts = 1
  MaxSignals = 1
INVARIANTS
  SetupComplete
  ScrapeConsistent
PROPERTY ShutdownEnds
CHECK_DEADLOCK FALSE

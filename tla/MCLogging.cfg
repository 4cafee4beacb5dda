CONSTANTS
  Capacity = 1
  MaxWaiting = 1
  MaxRecords = 2
  MaxStops = 2
  MaxDate = 1
SPECIFICATION FairSpec
INVARIANTS
  ExclusiveRun
  RowsInOrder
  FileHoldsOneDate
  LedgerMatchesCard
PROPERTIES
  DrainDoneMeansFlushed
  DrainAnswered
  StopCompletes
  CatchesUp

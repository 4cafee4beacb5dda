CONSTANTS
  MaxDrains = 2
  Clicks <- MCRunClicks
SPECIFICATION FairSpec
PROPERTIES
  ShowsTruth
  WorkerReturns

CONSTANTS
  Period = 2
  Half = 8
  MaxQueued = 2
SPECIFICATION RetrySpec
INVARIANTS
  TriedEveryPeriod

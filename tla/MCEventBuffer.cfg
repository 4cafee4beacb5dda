CONSTANTS
  PreCapacity = 2
  OutputCapacity = 3
  Period = 2
  PostDuration = 4
  MaxGap = 3
  MaxTime = 10
  MaxEvents = 2
SPECIFICATION Spec
INVARIANTS
  PullOrder
  LostRowsShow
  TimeOrder
CHECK_DEADLOCK FALSE

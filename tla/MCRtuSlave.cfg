CONSTANTS
  Clock = 42
  T35 = 3
  RxWait = 3
  FrameLength = 2
  MaxAdu = 2
  AnswerLength = 4
  Slack = 1
  MaxLag = 3
  Requests = {r1, r2}
  Broadcasts = {b}
  None = None
  Patience = 13
  Turnaround = 9
  Recovery = 26
  MaxFaults = 3
SPECIFICATION Spec
SYMMETRY Symmetry
INVARIANTS
  TypeOK
  FramesIntact
  AnsweredInTime
  HalfDuplex
  NotOverwritten

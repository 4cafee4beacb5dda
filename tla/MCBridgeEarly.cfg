CONSTANTS
  Clock = 64
  FrameGap = 2
  UnknownFrameGap = 3
  RequestAssemblyTimeout = 7
  ResponseTimeout = 5
  ResponseRecovery = 6
  RequestLength = 3
  AnswerLength = 5
  ExceptionLength = 3
  MaxAduBytes = 5
  MinAduBytes = 3
  Supported <- MCSupported
  Unknown <- MCUnknown
  MaxDelay = 9
  StartTime = 56
  MaxTime = 84
  MaxFrames = 2
  MaxStrays = 1
SPECIFICATION Spec
PROPERTY FullWait
CHECK_DEADLOCK FALSE

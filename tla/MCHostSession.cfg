CONSTANTS
  MaxDrains = 3
  Clicks <- MCAllClicks
SPECIFICATION Spec
INVARIANTS
  TypeOK
  SafeToRemove
  StoppedIsStopped
  SessionReal
  PollAlive
PROPERTIES
  NoLateAnswer

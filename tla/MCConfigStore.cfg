CONSTANTS
  SeqModulus = 4
  MaxSaves = 6
  BootReadErrors <- NoReadErrors
SPECIFICATION Spec
INVARIANTS
  AckedSurvives
PROPERTIES
  ImplementsCell

SPECIFICATION Spec
CONSTANTS
  Record = {r1, r2}
  NoRecord = NoRecord
  Capacity = 3
  Wrap = 6
PROPERTY
  ImplementsLedger

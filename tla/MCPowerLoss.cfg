SPECIFICATION Spec
CONSTANTS
  BufSize = 4
  RingSize = 2
  FileLines = 4
  Moves <- HeatFirst
  MaxJobs = 2
  MaxOutages = 2
  MaxOthers = 1
  MaxPauses = 2
  Patient = TRUE
INVARIANTS TypeOK  NoRecordLeft
PROPERTIES  NoneLeftOut
CHECK_DEADLOCK FALSE

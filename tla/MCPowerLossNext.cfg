SPECIFICATION Spec
CONSTANTS
  BufSize = 4
  RingSize = 2
  FileLines = 4
  Moves <- HeatFirst
  MaxJobs = 2
  MaxOutages = 1
  MaxOthers = 0
  MaxPauses = 0
  Patient = TRUE
PROPERTIES InFileOrder
CHECK_DEADLOCK FALSE

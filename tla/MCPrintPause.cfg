SPECIFICATION Spec
CONSTANTS
  BufSize = 4
  FileLines = 3
  Presses <- Careful
  MaxJobs = 2
  MaxPauses = 2
  MaxRunouts = 2
INVARIANTS TypeOK PausedTogether RunoutPauses
PROPERTIES  NoPrintLost StopEnds
CHECK_DEADLOCK FALSE

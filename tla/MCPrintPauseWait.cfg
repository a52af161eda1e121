SPECIFICATION UserSpec
CONSTANTS
  BufSize = 4
  FileLines = 3
  Presses <- StopsParking
  MaxJobs = 1
  MaxPauses = 1
  MaxRunouts = 0
PROPERTIES WaitEnds
CHECK_DEADLOCK FALSE

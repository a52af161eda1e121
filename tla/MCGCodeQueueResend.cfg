SPECIFICATION Spec
CONSTANTS
  BufSize = 4
  NumSerial = 3
  Hosts = {0}
  Window = 1
  Script <- FiveLines
  Corruptions = 1
  FileLines = 0
  Presses = 0
  MustPresses = 0
  Holds = 0
  Stopping = FALSE
  MaxDepth = 12
INVARIANTS ResendRight

SPECIFICATION FairSpec
CONSTANTS
  BufSize = 4
  NumSerial = 3
  Hosts = {0}
  Window = 2
  Script <- ThreeLines
  Corruptions = 0
  FileLines = 3
  Presses = 2
  MustPresses = 0
  Holds = 2
  Stopping = TRUE
  MaxDepth = 12
 
PROPERTIES SourceOrder  JobEnds

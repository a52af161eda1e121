SPECIFICATION Spec
CONSTANTS
  BufSize = 4
  NumSerial = 3
  Hosts = {0, 1}
  Window = 1
  Script <- AllKinds
  Corruptions = 1
  FileLines = 2
  Presses = 1
  MustPresses = 1
  Holds = 0
  Stopping = TRUE
  MaxDepth = 12
INVARIANTS TypeOK
PROPERTIES ImplementsCommandQueue NothingAfterStop JobComplete

SPECIFICATION Spec
CONSTANTS
  Size = 4
  FirstDelay = 2
  CleanTicks = 2
  StepEvents = 1
  Profiles <- Cornered
  SafeSpeed = 0
  MaxBlocks = 5
  Preemptible = FALSE
  SyncBlocks = FALSE
  Stops = FALSE
  MaxNested = 0
  Overlap = FALSE
  Homing = FALSE
PROPERTY JunctionContinuous

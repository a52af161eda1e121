SPECIFICATION FairSpec
CONSTANTS
  Size = 3
  FirstDelay = 2
  CleanTicks = 2
  StepEvents = 2
  Profiles <- Plain
  SafeSpeed = 0
  MaxBlocks = 3
  Preemptible = TRUE
  SyncBlocks = TRUE
  Stops = TRUE
  MaxNested = 1
  Overlap = FALSE
  Homing = TRUE
INVARIANTS BusyIsTail PositionsAgree
PROPERTIES StepsOnlyQueued ImplementsBlockQueue SynchronizeReturns

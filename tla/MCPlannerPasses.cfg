SPECIFICATION Spec
CONSTANTS
  Size = 4
  FirstDelay = 2
  CleanTicks = 2
  StepEvents = 1
  Profiles <- Mixed
  SafeSpeed = 2
  MaxBlocks = 5
  Preemptible = TRUE
  SyncBlocks = TRUE
  Stops = FALSE
  MaxNested = 0
  Overlap = FALSE
  Homing = FALSE
INVARIANTS TypeOK DeliveredPlanned Feasible IndicesInOrder
PROPERTY BusyUntouched

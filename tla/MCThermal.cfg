SPECIFICATION Spec
CONSTANTS
  Hottest = 8
  MaxTemp = 7
  Overshoot = 0
  Ambient = 1
  Targets <- SomeTargets
  Period = 2
  Hysteresis = 2
  WatchPeriod <- Intervals
  LongestWatch = 4
  Increase = 1
  WatchHysteresis = 1
  Residency = 1
  Window = 1
  SlopeTime = 1
  Slope = 1
  MaxGap = 2
  MaxCommands = 3
INVARIANTS TypeOK RunawayStops HeatingFailureStops NoFalseAlarm
PROPERTIES WaitEnds
CHECK_DEADLOCK FALSE

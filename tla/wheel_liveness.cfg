SPECIFICATION FairSpec
CONSTANTS
  Timeouts = {t1, t2}
  Delays = {1, 4}
  TickDuration = 2
  WheelSize = 2
  Horizon = 3
CHECK_DEADLOCK FALSE
PROPERTIES
  EventuallyLaunched
  StopTerminates

SPECIFICATION Spec
CONSTANTS
  Timeouts = {t1, t2}
  Delays = {1, 9}
  TickDuration = 2
  WheelSize = 2
  Horizon = 6
SYMMETRY Symmetry
CHECK_DEADLOCK FALSE
INVARIANTS
  OnTime
  AtMostOnce
  LateByOneRotation
  EarlyByLessThanFourTicks
PROPERTIES
  ImplementsTimer

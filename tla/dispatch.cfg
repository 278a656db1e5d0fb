SPECIFICATION FairSpec
CONSTANTS
  N = 4
  ChanCap = 1
CHECK_DEADLOCK FALSE
INVARIANTS
  ReportedOnce
  DeliveredInOrder
PROPERTIES
  NoLeakedCollector
  DispatchTerminates

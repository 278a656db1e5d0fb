SPECIFICATION FairSpec
PROPERTY
  ContextStops
CHECK_DEADLOCK FALSE

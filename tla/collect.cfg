SPECIFICATION MCSpec
CONSTANTS
  Masters = {"m1", "m2"}
  Slaves = {"s1"}
  Jobs <- SomeJobs
  Placeholders = {"^host", "^port", "^more"}
  Executions <- Twice
  IssueTime = 2
  MaxNow = 4
INVARIANTS
  NothingLeftOpen
  SuccessIsAnswered
  TellsTheTruth
  CollectorsGetTheirs
  AliasesSet
PROPERTIES
  CollectEnds
  TunnelEnds
CHECK_DEADLOCK FALSE

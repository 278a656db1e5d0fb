SPECIFICATION Spec
CONSTANTS
  cyc = cyc
  once = once
  t1 = t1
  t2 = t2
  t3 = t3
  t4 = t4
  None = None
  Jobs = {cyc, once}
  Cyclic = {cyc}
  Repeating = {cyc}
  Timeouts = {t1, t2, t3, t4}
  Outcomes = {"ok", "error", "panic"}
  Loads <- OnceEachOrTwice
SYMMETRY Symmetry
CHECK_DEADLOCK FALSE
INVARIANTS
  ChainsBounded
  NeverLost
  Removable
  RemovedIsQuiet
  NoPanicBeforeStop
  StopCancels

SPECIFICATION Spec
CONSTANTS
  cyc = cyc
  once = once
  t1 = t1
  t2 = t2
  t3 = t3
  t4 = t4
  None = None
  Jobs = {cyc}
  Cyclic = {cyc}
  Repeating = {cyc}
  Timeouts = {t1, t2, t3}
  Outcomes = {"ok"}
  Loads <- OnceEach
CHECK_DEADLOCK FALSE
PROPERTY
  RemoveJobRemoves

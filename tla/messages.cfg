SPECIFICATION FairSpec
CONSTANTS
  a = a
  b = b
  Torn = 0
  Jobs = {a, b}
  N = 3
  MaxBeats = 2
  MaxSends = 1
  Scripts <- MCScripts
CHECK_DEADLOCK FALSE
INVARIANTS
  FramesIntact
  
  SecretIsUsed
PROPERTIES
  AllProcessed

SPECIFICATION FairSpec
INVARIANTS
  OneSession
  PanicOnlyAfterShutdown
PROPERTIES
  OnlineAnnounced
  LoopsEnd
CHECK_DEADLOCK FALSE

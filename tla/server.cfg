\* The server command with the gRPC client, and the configuration watcher.
SPECIFICATION MCSpec
CONSTANTS
  MaxStarts = 3
  StopStarts = 2
  SignalStarts = 1
  MaxStuck = 1
  MaxWrites = 3
INVARIANTS
  OneConnection
  Supervised
  ReloadCurrent
PROPERTIES
  HealthyConnectionKept
  Redials
  LoopsEnd
CHECK_DEADLOCK FALSE

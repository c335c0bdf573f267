CONSTANTS
  w1 = w1
  w2 = w2
  ping = ping
  capture = capture
  shut = shut
  NoCmd = NoCmd
  Workers <- MCWorkers
  Cmds <- MCCmds
  Shutdowns <- MCShutdowns
  Silent <- MCSilent
  Detaching <- MCDetaching
  MaxAttempts = 2
  MaxClock = 0
  LossyLink = TRUE
SPECIFICATION FairSpec
PROPERTIES
  ShutdownCompletes
  QueuedTasksSettle
  DispatchedIfTraffic
CHECK_DEADLOCK FALSE

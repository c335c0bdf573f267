CONSTANTS
  w1 = w1
  w2 = w2
  ping = ping
  capture = capture
  shut = shut
  NoCmd = NoCmd
  Workers <- MCWorkers
  Cmds <- MCCmds
  Shutdowns <- MCShutdowns
  Silent <- MCSilent
  Detaching <- MCDetaching
  MaxAttempts = 2
  MaxClock = 1
  LossyLink = TRUE
SPECIFICATION Spec
INVARIANTS
  OnePlace
  RepliedOnce
  NoStrandedTask
  PoolOutlivesUsers
  AckAfterQuiescence
  BegunInOrder
PROPERTY
  ImplementsService
CHECK_DEADLOCK FALSE

CONSTANTS
  w1 = w1
  w2 = w2
  ping = ping
  capture = capture
  shut = shut
  NoCmd = NoCmd
  Workers <- MCWorkers
  Cmds <- MCShutdownOnly
  Shutdowns <- MCShutdowns
  Silent <- MCNone
  Detaching <- MCNone
  MaxAttempts = 2
  MaxClock = 0
  LossyLink = FALSE
SPECIFICATION Spec
INVARIANT
  ShutdownAcked
CHECK_DEADLOCK FALSE

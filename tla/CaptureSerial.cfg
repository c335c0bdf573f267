CONSTANTS
  d1 = d1
  d2 = d2
  s1 = s1
  None = None
  Datasets <- MCDatasets
  Stops <- MCOneStop
  RequestedStart <- MCMayOverlap
  MaxPeriod <- MCPeriod
  TargetFrames <- MCTarget
  DefaultFrames = 3
  NUM_CAMERAS = 2
  Uncreatable <- MCAnyFolder
  MaxTurns = 1
  LastCommand = 1
  MaxNow = 1
  GroundWaits = TRUE
SPECIFICATION Spec
INVARIANTS
  TypeOK
  OneCollects
PROPERTY
  AckedIsRegistered
CHECK_DEADLOCK FALSE

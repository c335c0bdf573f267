CONSTANTS
  d1 = d1
  d2 = d2
  s1 = s1
  None = None
  Datasets <- MCDatasets
  Stops <- MCNoStop
  RequestedStart <- MCMayOverlap
  MaxPeriod <- MCPeriod
  TargetFrames <- MCTarget
  DefaultFrames = 3
  NUM_CAMERAS = 2
  Uncreatable <- MCNoFolder
  MaxTurns = 0
  LastCommand = 0
  MaxNow = 2
  GroundWaits = FALSE
SPECIFICATION FairSpec
PROPERTY
  HandlersFinish
CHECK_DEADLOCK FALSE

CONSTANTS
  d1 = d1
  d2 = d2
  s1 = s1
  None = None
  Datasets <- MCDatasets
  Stops <- MCOneStop
  RequestedStart <- MCOverlap
  MaxPeriod <- MCPeriod
  TargetFrames <- MCSameTarget
  DefaultFrames = 3
  NUM_CAMERAS = 2
  Uncreatable <- MCDatasets
  MaxTurns = 0
  LastCommand = 0
  MaxNow = 0
  GroundWaits = FALSE
SPECIFICATION Spec
SYMMETRY MCSymmetry
INVARIANTS
  SettingsHaveOwner
  ObjectOutlivesThread
  OneStopper
CHECK_DEADLOCK FALSE

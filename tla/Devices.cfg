CONSTANTS
  c1 = c1
  c2 = c2
  c3 = c3
  d = d
  e = e
  NoFile = NoFile
SPECIFICATION Spec
INVARIANTS
  PowerIsWhole
  FramesAdvance
  SettingsAreKept
  SamplesAreSound
  IdleIsLowPower
PROPERTIES
  CaptureIsServed
  LoopEnds
CHECK_DEADLOCK FALSE

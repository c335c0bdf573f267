CONSTANTS
  d = d
  e = e
  NoFile = NoFile
  Datasets <- MCDatasets
  Wanted <- MCFull
  InTurn = FALSE
  Faults = FALSE
  Telemetry = FALSE
  MaxSamples = 1
SPECIFICATION Spec
INVARIANT
  NeverReadsAsleep
CHECK_DEADLOCK FALSE

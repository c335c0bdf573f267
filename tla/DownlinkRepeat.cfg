CONSTANTS
  MAXIMUM_COUNT_WITHOUT_UPDATE = 3
  Settled = TRUE
SPECIFICATION RepeatingSpec
INVARIANTS
  SuccessDespiteRepeats
CHECK_DEADLOCK FALSE

CONSTANTS
  MAXIMUM_COUNT_WITHOUT_UPDATE = 3
  Settled = TRUE
SPECIFICATION MCSpec
INVARIANTS
  AllTypesOK
  TegraPartIsWhole
  MetadataIsHonest
  ReprocessedIsCurrent
  OneModel
  RejectionKeepsRows
  SuccessIsReceived
PROPERTIES
  PromptlyRestarted
CHECK_DEADLOCK FALSE

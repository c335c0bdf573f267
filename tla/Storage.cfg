CONSTANTS
  img1 = img1
  img2 = img2
  bat1 = bat1
  bat2 = bat2
  file1 = file1
  file2 = file2
  NoFile = NoFile
  Images <- MCImages
  Batches <- MCBatches
  Files <- MCFiles
  FileOf <- MCFileOf
  Records <- MCRecords
  Start <- MCStart
  Count <- MCCount
  Modulus = 4
  MaxClock = 1
  MaxLost = 1
  Flushed <- MCFlushed
SPECIFICATION MCSpec
INVARIANTS
  AllTypesOK
  MetadataMatchesFile
  DataIsReal
  EndIsTheEnd
  ReadBackIsOriginal
  ReadBackIsStored
PROPERTIES
  EndMarkerLast
  RequestsAnswered
CHECK_DEADLOCK FALSE

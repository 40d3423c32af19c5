SPECIFICATION BuilderSpec
CONSTANTS
  Crc32cBits <- MCCrc32cBits
  RestartPointInterval = 2
  PageSize = 38
  PageType = 0
  Keys <- MCKeys
  RecordValues <- MCValues
  KeyMemoryReuse = {TRUE, FALSE}
  MaxRecords = 4
  MaxFinishes = 2
INVARIANTS
  BuilderTypeOK
  PageFits
  PageWalks
  KeysReadBack
CHECK_DEADLOCK FALSE

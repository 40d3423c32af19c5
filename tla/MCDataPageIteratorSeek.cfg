SPECIFICATION Spec
CONSTANTS
  Crc32cBits <- MCCrc32cBits
  RestartPointInterval = 2
  PageSize = 80
  PageType = 0
  Keys <- MCKeys
  RecordValues <- MCOneValue
  KeyMemoryReuse = {FALSE}
  MaxRecords = 5
  MaxFinishes = 1
  SeekTargets <- MCTargets
  WildOffsets <- MCWild
INVARIANTS
  IteratorTypeOK
  StandsOnRecord
  PastKeyHarmless
  BackwardScanRight
  SeekFindsLowerBound
CHECK_DEADLOCK FALSE

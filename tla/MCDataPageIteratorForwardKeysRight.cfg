SPECIFICATION Spec
CONSTANTS
  Crc32cBits <- MCCrc32cBits
  RestartPointInterval = 2
  PageSize = 80
  PageType = 0
  Keys <- MCKeys
  RecordValues <- MCOneValue
  KeyMemoryReuse = {FALSE}
  MaxRecords = 4
  MaxFinishes = 1
  SeekTargets = {}
  WildOffsets <- MCWild
INVARIANT
  ForwardKeysRight
CHECK_DEADLOCK FALSE
